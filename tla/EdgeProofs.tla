----------------------------- MODULE EdgeProofs -----------------------------
(***************************************************************************)
(* Proofs about what stands between the system and the world outside, a    *)
(* section each.                                                           *)
(*                                                                         *)
(* The request guards: an identity that reaches a handler was admitted by  *)
(* every policy of its path, the token cache answers for nothing the       *)
(* verifier did not vouch for, and no client passes a limiter twice Limit  *)
(* times within the length of a window.  Neither the cache nor the windows *)
(* keep what happened: what was let through in a span that two windows     *)
(* share is bounded by what each window counts and by what was let through *)
(* before the later one began, which is what CountedBy and MayBegin say.   *)
(*                                                                         *)
(* The public feeds: what an answer holds was published, and what is asked *)
(* of a source goes to a public address only.                              *)
(*                                                                         *)
(* The web client, alone or with the rooms of the server: the voice        *)
(* session, the feeds on the globe and collaboration.                      *)
(*                                                                         *)
(* They share no variable: each theorem is of its own specification.       *)
(***************************************************************************)
EXTENDS RequestGuards, PublicFeeds, VoiceSession, FeedPipeline, Collaboration,
        CountingLemmas, SequenceTheorems

-----------------------------------------------------------------------------
(* SEQUENCES.  What is kept of one when some of its entries go.            *)

(* The tail of a part, too.                                                *)
LEMMA TailPart ==
  ASSUME NEW S, NEW q, NEW p \in Seq(S), PartOf(p, q), NEW m \in 1..(Len(p) + 1)
  PROVE  /\ SubSeq(p, m, Len(p)) \in Seq(S) /\ Len(SubSeq(p, m, Len(p))) = Len(p) + 1 - m
         /\ PartOf(SubSeq(p, m, Len(p)), q)
<1> DEFINE n == Len(p)
           s == SubSeq(p, m, n)
<1>0. n \in Nat /\ DOMAIN p = 1..n /\ m \in Nat /\ m >= 1 /\ m <= n + 1
  OBVIOUS
<1>1. \A i \in m..n : p[i] \in S
  BY <1>0
<1>2. /\ s \in Seq(S) /\ Len(s) = IF m <= n THEN n - m + 1 ELSE 0
      /\ \A i \in 1..(n - m + 1) : s[i] = p[m + i - 1]
  BY <1>0, <1>1, SubSeqProperties
<1>3. Len(s) = n + 1 - m /\ DOMAIN s = 1..(n + 1 - m) /\ \A i \in DOMAIN s : s[i] = p[m + i - 1]
  BY <1>0, <1>2
<1>4. PICK f \in [DOMAIN p -> DOMAIN q] : /\ \A i, j \in DOMAIN p : f[i] = f[j] => i = j
                                          /\ \A i \in DOMAIN p : p[i] = q[f[i]]
  BY DEF PartOf
<1> HIDE DEF s, n
<1> DEFINE g == [i \in DOMAIN s |-> f[m + i - 1]]
<1>5. \A i \in DOMAIN s : m + i - 1 \in DOMAIN p
  BY <1>0, <1>3
<1>6. g \in [DOMAIN s -> DOMAIN q]
  BY <1>4, <1>5
<1>7. ASSUME NEW i \in DOMAIN s, NEW j \in DOMAIN s, g[i] = g[j] PROVE i = j
  <2>1. m + i - 1 = m + j - 1
    BY <1>4, <1>5, <1>7
  <2> QED BY <1>0, <1>3, <2>1
<1>8. \A i \in DOMAIN s : s[i] = q[g[i]]
  BY <1>3, <1>4, <1>5
<1> HIDE DEF g
<1>9. PartOf(s, q)
  BY <1>6, <1>7, <1>8 DEF PartOf
<1> QED BY <1>2, <1>3, <1>9 DEF s, n

(* Entries that are over go first and then the oldest ones, until there is *)
(* room for one more.                                                      *)
LEMMA RoomLeft ==
  ASSUME NEW S, NEW q \in Seq(S), NEW I \in SUBSET DOMAIN q, NEW max \in Nat \ {0},
         NEW p, p = IF Len(Staying(q, I)) < max THEN Staying(q, I)
                    ELSE SubSeq(Staying(q, I), Len(Staying(q, I)) - max + 2, Len(Staying(q, I)))
  PROVE  p \in Seq(S) /\ Len(p) < max /\ PartOf(p, q)
<1>1. PICK k : k = Staying(q, I)
  OBVIOUS
<1>2. k \in Seq(S) /\ PartOf(k, q) /\ Len(k) \in Nat
  BY <1>1, KeptPart
<1>3. CASE Len(k) < max
  BY <1>1, <1>2, <1>3
<1>4. CASE ~(Len(k) < max)
  <2>1. PICK m : m = Len(k) - max + 2 /\ m \in 1..(Len(k) + 1)
    BY <1>2, <1>4
  <2>2. p = SubSeq(k, m, Len(k))
    BY <1>1, <1>4, <2>1
  <2>3. p \in Seq(S) /\ Len(p) = Len(k) + 1 - m /\ PartOf(p, q)
    BY <1>2, <2>1, <2>2, TailPart
  <2> QED BY <1>2, <2>1, <2>3
<1> QED BY <1>3, <1>4

-----------------------------------------------------------------------------
(* RATES.  What the limiter let through of a key, from a second on and     *)
(* within a span, in a record tk of all that was let through.              *)
LimiterKeys == {"voice", "upgrade"} \X Callers
WindowRecords == [key : LimiterKeys, count : Nat, since : Nat]
Takings == [key : LimiterKeys, at : Nat]

Since(tk, key, a) == {i \in DOMAIN tk : tk[i].key = key /\ a <= tk[i].at}
InSpan(tk, key, a, b) == {i \in DOMAIN tk : tk[i].key = key /\ a <= tk[i].at /\ tk[i].at < b}

(* A window counts what was let through since it began, all of it before   *)
(* its end, and less than Limit was in any span that reaches its beginning. *)
CountedBy(w, tk) ==
  /\ Cardinality(Since(tk, w.key, w.since)) = w.count
  /\ \A t \in Nat : w.since < t + Window => Cardinality(InSpan(tk, w.key, t, w.since)) < Limit
  /\ \A i \in DOMAIN tk : tk[i].key = w.key => tk[i].at < w.since + Window

(* It began with a request that was let through.                           *)
BegunBy(w, tk) == \E i \in DOMAIN tk : tk[i].key = w.key /\ tk[i].at = w.since

(* A new window may begin at s.                                            *)
MayBegin(tk, key, s) ==
  /\ \A i \in DOMAIN tk : tk[i].key = key => tk[i].at < s
  /\ \A t \in Nat : s < t + Window => Cardinality(Since(tk, key, t)) < Limit

SpansBounded(tk, key) == \A t \in Nat : Cardinality(InSpan(tk, key, t, t + Window)) < 2 * Limit

(* What was let through was at a second.                                   *)
LEMMA Times ==
  ASSUME NEW tk \in Seq(Takings)
  PROVE  \A i \in DOMAIN tk : tk[i] \in Takings /\ tk[i].at \in Nat /\ tk[i].key \in LimiterKeys
<1>1. \A i \in DOMAIN tk : tk[i] \in Takings
  OBVIOUS
<1> QED BY <1>1 DEF Takings

(* What was let through can be counted.                                    *)
LEMMA TakenFinite ==
  ASSUME NEW tk \in Seq(Takings)
  PROVE  /\ \A S \in SUBSET DOMAIN tk : IsFiniteSet(S) /\ Cardinality(S) \in Nat
         /\ \A T \in SUBSET DOMAIN tk : \A S \in SUBSET T : Cardinality(S) <= Cardinality(T)
         /\ \A T \in SUBSET DOMAIN tk : \A S \in SUBSET T, i \in T : i \notin S => Cardinality(S) < Cardinality(T)
<1>1. IsFiniteSet(DOMAIN tk)
  <2>1. DOMAIN tk = 1..Len(tk) /\ Len(tk) \in Nat
    OBVIOUS
  <2> QED BY <2>1, FS_Interval
<1>2. \A S \in SUBSET DOMAIN tk : IsFiniteSet(S) /\ Cardinality(S) \in Nat
  BY <1>1, FS_Subset, FS_CardinalityType
<1>3. ASSUME NEW T \in SUBSET DOMAIN tk, NEW S \in SUBSET T
      PROVE  /\ Cardinality(S) <= Cardinality(T)
             /\ \A i \in T : i \notin S => Cardinality(S) < Cardinality(T)
  <2>1. IsFiniteSet(T) /\ Cardinality(T) \in Nat /\ Cardinality(S) \in Nat
    BY <1>2
  <2>2. Cardinality(S) <= Cardinality(T) /\ (Cardinality(T) = Cardinality(S) => T = S)
    BY <2>1, FS_Subset
  <2> QED BY <2>1, <2>2
<1> QED BY <1>2, <1>3

(* Where a window has ended the next may begin.                            *)
LEMMA OverReady ==
  ASSUME NEW tk \in Seq(Takings), NEW w \in WindowRecords, CountedBy(w, tk), BegunBy(w, tk),
         w.count <= Limit, NEW s \in Nat, s - w.since >= Window
  PROVE  MayBegin(tk, w.key, s)
<1>0. w.since \in Nat /\ w.count \in Nat /\ Window \in Nat /\ Limit \in Nat /\ w.since + Window <= s
  BY GuardAssumption DEF WindowRecords
<1>1. \A i \in DOMAIN tk : tk[i].at \in Nat
  BY Times
<1>2. \A i \in DOMAIN tk : tk[i].key = w.key => tk[i].at < s
  BY <1>0, <1>1 DEF CountedBy
<1>3. ASSUME NEW t \in Nat, s < t + Window PROVE Cardinality(Since(tk, w.key, t)) < Limit
  <2>1. w.since < t
    BY <1>0, <1>3
  <2>2. PICK i \in DOMAIN tk : tk[i].key = w.key /\ tk[i].at = w.since
    BY DEF BegunBy
  <2>3. PICK S, T : S = Since(tk, w.key, t) /\ T = Since(tk, w.key, w.since)
    OBVIOUS
  <2>4. i \in T /\ i \notin S /\ S \subseteq T /\ T \subseteq DOMAIN tk
    BY <1>0, <1>1, <2>1, <2>2, <2>3 DEF Since
  <2>5. Cardinality(S) < Cardinality(T)
    BY <2>4, TakenFinite
  <2>6. Cardinality(T) = w.count /\ Cardinality(S) \in Nat
    BY <2>3, <2>4, TakenFinite DEF CountedBy
  <2> QED BY <1>0, <2>3, <2>5, <2>6
<1> QED BY <1>2, <1>3 DEF MayBegin

(* A new window has counted nothing.                                       *)
LEMMA ReadyCounted ==
  ASSUME NEW tk \in Seq(Takings), NEW key \in LimiterKeys, NEW s \in Nat, MayBegin(tk, key, s),
         NEW w, w = [key |-> key, count |-> 0, since |-> s]
  PROVE  w \in WindowRecords /\ w.key = key /\ w.count = 0 /\ w.since = s /\ CountedBy(w, tk)
<1>0. w \in WindowRecords /\ w.key = key /\ w.count = 0 /\ w.since = s /\ Window \in Nat \ {0} /\ Limit \in Nat
  BY GuardAssumption DEF WindowRecords
<1>1. \A i \in DOMAIN tk : tk[i].at \in Nat
  BY Times
<1>2. Since(tk, key, s) = {}
  BY <1>1 DEF Since, MayBegin
<1>3. ASSUME NEW t \in Nat, s < t + Window PROVE Cardinality(InSpan(tk, key, t, s)) < Limit
  <2>1. InSpan(tk, key, t, s) \subseteq Since(tk, key, t) /\ Since(tk, key, t) \subseteq DOMAIN tk
    BY DEF InSpan, Since
  <2>2. /\ Cardinality(InSpan(tk, key, t, s)) <= Cardinality(Since(tk, key, t))
        /\ Cardinality(InSpan(tk, key, t, s)) \in Nat /\ Cardinality(Since(tk, key, t)) \in Nat
    BY <2>1, TakenFinite
  <2>3. Cardinality(Since(tk, key, t)) < Limit
    BY <1>3 DEF MayBegin
  <2> QED BY <1>0, <2>2, <2>3
<1>4. \A i \in DOMAIN tk : tk[i].key = key => tk[i].at < s + Window
  BY <1>0, <1>1 DEF MayBegin
<1> QED BY <1>0, <1>2, <1>3, <1>4, FS_EmptySet DEF CountedBy

(* What is let through of one key is nothing to another.                   *)
LEMMA OtherKey ==
  ASSUME NEW tk \in Seq(Takings), NEW x \in Takings, NEW key, key # x.key
  PROVE  /\ \A a : Since(Append(tk, x), key, a) = Since(tk, key, a)
         /\ \A a, b : InSpan(Append(tk, x), key, a, b) = InSpan(tk, key, a, b)
         /\ \A i \in DOMAIN Append(tk, x) : Append(tk, x)[i].key = key =>
              i \in DOMAIN tk /\ Append(tk, x)[i] = tk[i]
         /\ \A i \in DOMAIN tk : i \in DOMAIN Append(tk, x) /\ Append(tk, x)[i] = tk[i]
<1>1. PICK u : u = Append(tk, x)
  OBVIOUS
<1>2. /\ DOMAIN tk = 1..Len(tk) /\ DOMAIN u = 1..(Len(tk) + 1) /\ Len(tk) \in Nat
      /\ \A i \in 1..Len(tk) : u[i] = tk[i]
      /\ u[Len(tk) + 1] = x
  BY <1>1
<1>3. \A i \in DOMAIN u : i \in DOMAIN tk \/ i = Len(tk) + 1
  BY <1>2
<1>4. \A i \in DOMAIN u : u[i].key = key => i \in DOMAIN tk /\ u[i] = tk[i]
  BY <1>2, <1>3
<1>5. \A i \in DOMAIN tk : i \in DOMAIN u /\ u[i] = tk[i]
  BY <1>2
<1> QED BY <1>1, <1>4, <1>5 DEF Since, InSpan

(* A window with room for one more request at s, and what one more makes.  *)
HasRoom(tk, w, s) ==
  /\ tk \in Seq(Takings) /\ w \in WindowRecords /\ s \in Nat
  /\ CountedBy(w, tk) /\ SpansBounded(tk, w.key)
  /\ w.count < Limit /\ w.since <= s /\ s < w.since + Window
  /\ \A i \in DOMAIN tk : tk[i].at <= s

LetThrough(tk, w, s, u, x) ==
  /\ u = Append(tk, [key |-> w.key, at |-> s])
  /\ x = [w EXCEPT !.count = @ + 1]

(* One more request in a window that has room for it, before it ends.      *)
LEMMA OneMore ==
  ASSUME NEW tk, NEW w, NEW s, NEW u, NEW x, HasRoom(tk, w, s), LetThrough(tk, w, s, u, x)
  PROVE  /\ CountedBy(x, u) /\ SpansBounded(u, w.key)
         /\ BegunBy(w, tk) \/ w.since = s => BegunBy(x, u)
<1> /\ tk \in Seq(Takings) /\ w \in WindowRecords /\ s \in Nat
    /\ CountedBy(w, tk) /\ SpansBounded(tk, w.key)
    /\ w.count < Limit /\ w.since <= s /\ s < w.since + Window
    /\ \A i \in DOMAIN tk : tk[i].at <= s
  BY DEF HasRoom
<1> /\ u = Append(tk, [key |-> w.key, at |-> s])
    /\ x = [w EXCEPT !.count = @ + 1]
  BY DEF LetThrough
<1>0. /\ w.since \in Nat /\ w.count \in Nat /\ w.key \in LimiterKeys /\ Window \in Nat \ {0} /\ Limit \in Nat \ {0}
      /\ x \in WindowRecords /\ x.key = w.key /\ x.since = w.since /\ x.count = w.count + 1
  <2>1. w.since \in Nat /\ w.count \in Nat /\ w.key \in LimiterKeys /\ Window \in Nat \ {0} /\ Limit \in Nat \ {0}
    BY GuardAssumption DEF WindowRecords
  <2>2. PICK key, count, since : key = w.key /\ count = w.count /\ since = w.since
    OBVIOUS
  <2>3. w = [key |-> key, count |-> count, since |-> since]
    BY <2>2 DEF WindowRecords
  <2>4. x = [key |-> key, count |-> count + 1, since |-> since]
    BY <2>3
  <2> QED BY <2>1, <2>2, <2>4 DEF WindowRecords
<1>1. PICK y, l : y = [key |-> w.key, at |-> s] /\ l = Len(tk) + 1
  OBVIOUS
<1>2. /\ y \in Takings /\ y.key = w.key /\ y.at = s /\ l \in Nat
      /\ DOMAIN tk = 1..(l - 1) /\ DOMAIN u = 1..l
      /\ \A i \in 1..(l - 1) : u[i] = tk[i]
      /\ u[l] = y /\ u \in Seq(Takings)
  <2>1. y \in Takings
    BY <1>0, <1>1 DEF Takings
  <2> QED BY <1>1, <2>1
<1>3. /\ \A i \in DOMAIN u : (i \in DOMAIN tk /\ u[i] = tk[i]) \/ (i = l /\ u[i] = y)
      /\ \A i \in DOMAIN tk : i \in DOMAIN u /\ u[i] = tk[i]
      /\ l \in DOMAIN u /\ l \notin DOMAIN tk
  <2>1. l \in Nat \ {0}
    BY <1>1
  <2>2. \A i \in 1..l : i \in 1..(l - 1) \/ i = l
    BY <2>1
  <2>3. \A i \in 1..(l - 1) : i \in 1..l /\ i # l
    BY <2>1
  <2>4. l \in 1..l
    BY <2>1
  <2> QED BY <1>2, <2>2, <2>3, <2>4
<1>4. \A i \in DOMAIN tk : tk[i].at \in Nat
  BY Times
<1> HIDE <1>1
<1>5. Cardinality(Since(u, w.key, w.since)) = w.count + 1
  <2>1. Since(u, w.key, w.since) = Since(tk, w.key, w.since) \cup {l} /\ l \notin Since(tk, w.key, w.since)
    BY <1>2, <1>3 DEF Since
  <2>2. IsFiniteSet(Since(tk, w.key, w.since)) /\ Cardinality(Since(tk, w.key, w.since)) = w.count
    BY TakenFinite DEF CountedBy, Since
  <2> QED BY <2>1, <2>2, FS_AddElement
<1>6. ASSUME NEW t \in Nat, NEW e \in Nat, e <= s PROVE InSpan(u, w.key, t, e) = InSpan(tk, w.key, t, e)
  BY <1>2, <1>3, <1>6 DEF InSpan
<1>7. CountedBy(x, u)
  <2>1. \A t \in Nat : w.since < t + Window => Cardinality(InSpan(u, w.key, t, w.since)) < Limit
    BY <1>0, <1>6 DEF CountedBy
  <2>2. \A i \in DOMAIN u : u[i].key = w.key => u[i].at < w.since + Window
    BY <1>2, <1>3 DEF CountedBy
  <2> QED BY <1>0, <1>5, <2>1, <2>2 DEF CountedBy
<1>8. ASSUME NEW t \in Nat PROVE Cardinality(InSpan(u, w.key, t, t + Window)) < 2 * Limit
  <2>1. \A i \in DOMAIN u : u[i].at \in Nat
    BY <1>2, Times
  <2>2. PICK S, T, B : /\ S = InSpan(u, w.key, t, t + Window) /\ T = Since(u, w.key, w.since)
                       /\ B = InSpan(u, w.key, t, w.since)
    OBVIOUS
  <2>3. /\ S \subseteq DOMAIN u /\ T \subseteq DOMAIN u /\ B \subseteq DOMAIN u
        /\ IsFiniteSet(B) /\ IsFiniteSet(T)
        /\ Cardinality(S) \in Nat /\ Cardinality(T) \in Nat /\ Cardinality(B) \in Nat
    <3>1. S \subseteq DOMAIN u /\ T \subseteq DOMAIN u /\ B \subseteq DOMAIN u
      BY <2>2 DEF Since, InSpan
    <3> QED BY <1>2, <3>1, TakenFinite
  <2>4. Cardinality(T) <= Limit
    BY <1>0, <1>5, <2>2
  <2>5. CASE w.since < t
    <3>1. S \subseteq T
      BY <1>0, <2>1, <2>2, <2>5 DEF Since, InSpan
    <3>2. Cardinality(S) <= Cardinality(T)
      BY <1>2, <2>3, <3>1, TakenFinite
    <3> QED BY <1>0, <2>2, <2>3, <2>4, <3>2
  <2>6. CASE t <= w.since /\ w.since < t + Window
    <3>1. S \subseteq B \cup T
      BY <1>0, <2>1, <2>2 DEF Since, InSpan
    <3>2. IsFiniteSet(B \cup T) /\ Cardinality(B \cup T) \in Nat /\ Cardinality(B \cup T) <= Cardinality(B) + Cardinality(T)
      <4>1. /\ IsFiniteSet(B \cup T) /\ Cardinality(B \cup T) \in Nat
        BY <2>3, FS_Union, FS_CardinalityType
      <4>2. Cardinality(B \cup T) = Cardinality(B) + Cardinality(T) - Cardinality(B \cap T)
        BY <2>3, FS_Union
      <4>3. Cardinality(B \cap T) \in Nat
        BY <2>3, FS_Intersection, FS_CardinalityType
      <4> QED BY <2>3, <4>1, <4>2, <4>3
    <3>3. Cardinality(S) <= Cardinality(B \cup T)
      BY <3>1, <3>2, FS_Subset
    <3>4. Cardinality(B) < Limit
      BY <1>0, <1>6, <2>2, <2>6 DEF CountedBy
    <3> QED BY <1>0, <2>2, <2>3, <2>4, <3>2, <3>3, <3>4
  <2>7. CASE t + Window <= w.since
    <3>1. t + Window \in Nat /\ t + Window <= s
      BY <1>0, <2>7
    <3>2. InSpan(u, w.key, t, t + Window) = InSpan(tk, w.key, t, t + Window)
      BY <1>6, <3>1
    <3> QED BY <3>2 DEF SpansBounded
  <2> QED BY <1>0, <2>5, <2>6, <2>7
<1>9. BegunBy(w, tk) \/ w.since = s => BegunBy(x, u)
  BY <1>0, <1>2, <1>3 DEF BegunBy
<1> QED BY <1>0, <1>2, <1>7, <1>8, <1>9 DEF SpansBounded

(* What is known of a key whose windows ran out, every one.                *)
KeyOK(key) ==
  /\ SpansBounded(taken, key)
  /\ \A n \in DOMAIN windows :
       windows[n].key = key => CountedBy(windows[n], taken) /\ BegunBy(windows[n], taken)
  /\ (\A n \in DOMAIN windows : windows[n].key # key) => MayBegin(taken, key, second)

OneEach(ws) == \A m, n \in DOMAIN ws : ws[m].key = ws[n].key => m = n

(* The inductive invariant of the limiter.                                 *)
RateInv ==
  /\ second \in Nat
  /\ windows \in Seq(WindowRecords) /\ Len(windows) <= MaxWindows /\ OneEach(windows)
  /\ \A n \in DOMAIN windows : windows[n].count \in 1..Limit /\ windows[n].since <= second
  /\ taken \in Seq(Takings) /\ \A i \in DOMAIN taken : taken[i].at <= second
  /\ forgotten \subseteq LimiterKeys
  /\ \A key \in LimiterKeys \ forgotten : KeyOK(key)

(* With room made, the windows are some of those there were.               *)
LEMMA Vacated ==
  ASSUME RateInv, NEW v, v = Vacate
  PROVE  /\ v \in Seq(WindowRecords) /\ Len(v) < MaxWindows /\ OneEach(v)
         /\ \A n \in DOMAIN v : \E m \in DOMAIN windows : v[n] = windows[m]
<1>1. windows \in Seq(WindowRecords) /\ OneEach(windows) /\ MaxWindows \in Nat \ {0} /\ Len(windows) \in Nat
  BY GuardAssumption DEF RateInv
<1>2. CASE Len(windows) < MaxWindows
  BY <1>1, <1>2 DEF Vacate
<1>3. CASE ~(Len(windows) < MaxWindows)
  <2>1. PICK I \in SUBSET DOMAIN windows : I = {i \in DOMAIN windows : ~Over(windows[i])}
    OBVIOUS
  <2>2. v = IF Len(Staying(windows, I)) < MaxWindows THEN Staying(windows, I)
            ELSE SubSeq(Staying(windows, I), Len(Staying(windows, I)) - MaxWindows + 2, Len(Staying(windows, I)))
    BY <1>3, <2>1 DEF Vacate
  <2>3. v \in Seq(WindowRecords) /\ Len(v) < MaxWindows /\ PartOf(v, windows)
    BY <1>1, <2>2, RoomLeft
  <2>4. PICK f \in [DOMAIN v -> DOMAIN windows] :
          /\ \A m, n \in DOMAIN v : f[m] = f[n] => m = n
          /\ \A n \in DOMAIN v : v[n] = windows[f[n]]
    BY <2>3 DEF PartOf
  <2>5. OneEach(v)
    BY <1>1, <2>4 DEF OneEach
  <2>6. ASSUME NEW n \in DOMAIN v PROVE \E m \in DOMAIN windows : v[n] = windows[m]
    <3>1. f[n] \in DOMAIN windows /\ v[n] = windows[f[n]]
      BY <2>4
    <3> QED BY <3>1
  <2> QED BY <2>3, <2>5, <2>6
<1> QED BY <1>2, <1>3

NewWindow(key) == [key |-> key, count |-> 0, since |-> second]

(* The windows before a request is counted: the key's own is there and has *)
(* not ended, and the others are some of those there were.                 *)
LEMMA Opened ==
  ASSUME RateInv, NEW key \in LimiterKeys, NEW ws, ws = IF Counting(key) THEN windows ELSE Open(key)
  PROVE  /\ ws \in Seq(WindowRecords) /\ Len(ws) <= MaxWindows /\ OneEach(ws)
         /\ \A n \in DOMAIN ws : ws[n].key # key => \E m \in DOMAIN windows : ws[n] = windows[m]
         /\ \E n \in DOMAIN ws :
              /\ ws[n].key = key
              /\ \/ \E m \in DOMAIN windows : ws[n] = windows[m] /\ ~Over(windows[m])
                 \/ ws[n] = NewWindow(key) /\ ~Counting(key)
<1>0. MaxWindows \in Nat \ {0} /\ second \in Nat
  BY GuardAssumption DEF RateInv
<1>1. CASE Counting(key)
  <2>1. ws = windows
    BY <1>1
  <2>2. PICK n \in DOMAIN windows : windows[n].key = key /\ ~Over(windows[n])
    BY <1>1 DEF Counting, WindowOf
  <2> QED BY <2>1, <2>2 DEF RateInv
<1>2. CASE ~Counting(key)
  <2>1. PICK v, fresh : v = Vacate /\ fresh = NewWindow(key)
    OBVIOUS
  <2>2. /\ v \in Seq(WindowRecords) /\ Len(v) < MaxWindows /\ OneEach(v)
        /\ \A n \in DOMAIN v : \E m \in DOMAIN windows : v[n] = windows[m]
    BY <2>1, Vacated
  <2>3. fresh \in WindowRecords /\ fresh.key = key
    BY <1>0, <2>1 DEF NewWindow, WindowRecords
  <2>4. ws = IF WindowOf(v, key) = {} THEN Append(v, fresh)
             ELSE [v EXCEPT ![CHOOSE i \in WindowOf(v, key) : TRUE] = fresh]
    BY <1>2, <2>1 DEF Open, NewWindow
  <2>5. DOMAIN v = 1..Len(v) /\ Len(v) \in Nat
    BY <2>2
  <2>6. CASE WindowOf(v, key) = {}
    <3>1. PICK l : l = Len(v) + 1
      OBVIOUS
    <3>2. /\ ws \in Seq(WindowRecords) /\ Len(ws) = l /\ DOMAIN ws = 1..l /\ l \in Nat \ {0}
          /\ \A n \in DOMAIN v : ws[n] = v[n]
          /\ ws[l] = fresh
      BY <2>2, <2>3, <2>4, <2>6, <3>1
    <3>3. /\ \A n \in DOMAIN ws : n \in DOMAIN v \/ n = l
          /\ l \in DOMAIN ws
      BY <2>5, <3>1, <3>2
    <3>4. \A n \in DOMAIN v : v[n].key # key
      BY <2>6 DEF WindowOf
    <3>5. OneEach(ws)
      BY <2>2, <2>3, <3>2, <3>3, <3>4 DEF OneEach
    <3>6. \A n \in DOMAIN ws : ws[n].key # key => \E m \in DOMAIN windows : ws[n] = windows[m]
      BY <2>2, <2>3, <3>2, <3>3
    <3>7. Len(ws) <= MaxWindows
      BY <1>0, <2>2, <2>5, <3>1, <3>2
    <3> QED BY <1>2, <2>1, <2>3, <3>2, <3>3, <3>5, <3>6, <3>7
  <2>7. CASE WindowOf(v, key) # {}
    <3>1. PICK i : i = (CHOOSE n \in WindowOf(v, key) : TRUE)
      OBVIOUS
    <3>2. i \in DOMAIN v /\ v[i].key = key
      BY <2>7, <3>1 DEF WindowOf
    <3>3. ws = [v EXCEPT ![i] = fresh]
      BY <2>4, <2>7, <3>1
    <3>4. /\ ws \in Seq(WindowRecords) /\ DOMAIN ws = DOMAIN v /\ Len(ws) = Len(v)
          /\ ws[i] = fresh /\ \A n \in DOMAIN v : n # i => ws[n] = v[n]
      <4>1. /\ DOMAIN ws = DOMAIN v /\ ws[i] = fresh
            /\ \A n \in DOMAIN v : n # i => ws[n] = v[n]
        BY <3>2, <3>3
      <4>2. v \in [1..Len(v) -> WindowRecords]
        BY <2>2
      <4>3. ws \in [1..Len(v) -> WindowRecords]
        BY <2>3, <3>3, <4>2
      <4>4. ws \in Seq(WindowRecords) /\ Len(ws) = Len(v)
        BY <2>5, <4>3
      <4> QED BY <4>1, <4>4
    <3>5. OneEach(ws)
      <4>1. \A n \in DOMAIN v : ws[n].key = v[n].key
        BY <2>3, <3>2, <3>4
      <4> QED BY <2>2, <3>4, <4>1 DEF OneEach
    <3>6. \A n \in DOMAIN ws : ws[n].key # key => \E m \in DOMAIN windows : ws[n] = windows[m]
      BY <2>2, <2>3, <3>4
    <3>7. Len(ws) <= MaxWindows
      BY <1>0, <2>2, <2>5, <3>4
    <3> QED BY <1>2, <2>1, <2>3, <3>2, <3>4, <3>5, <3>6, <3>7
  <2> QED BY <2>6, <2>7
<1> QED BY <1>1, <1>2

(* The second in which a key's windows are over, the next may begin.       *)
LEMMA KeyReady ==
  ASSUME RateInv, NEW key \in LimiterKeys \ forgotten,
         \A n \in DOMAIN windows : windows[n].key = key => Over(windows[n])
  PROVE  MayBegin(taken, key, second)
<1>1. KeyOK(key) /\ taken \in Seq(Takings) /\ second \in Nat
  BY DEF RateInv
<1>2. CASE \A n \in DOMAIN windows : windows[n].key # key
  BY <1>1, <1>2 DEF KeyOK
<1>3. ASSUME NEW n \in DOMAIN windows, windows[n].key = key PROVE MayBegin(taken, key, second)
  <2>1. PICK w : w = windows[n]
    OBVIOUS
  <2>2. w \in WindowRecords /\ w.count \in 1..Limit /\ Limit \in Nat
    BY <2>1, GuardAssumption DEF RateInv
  <2>3. CountedBy(w, taken) /\ BegunBy(w, taken) /\ second - w.since >= Window /\ w.key = key
    BY <1>1, <1>3, <2>1 DEF KeyOK, Over
  <2>4. w.count <= Limit
    BY <2>2
  <2>5. MayBegin(taken, w.key, second)
    BY <1>1, <2>2, <2>3, <2>4, OverReady
  <2> QED BY <2>3, <2>5
<1> QED BY <1>2, <1>3

(* A request that the limiter lets through, or not.                        *)
LEMMA ConsumeKeepsRate ==
  ASSUME RateInv, NEW c \in Callers, Consume(c)
  PROVE  RateInv'
<1>0. \A n \in DOMAIN windows : windows[n] \in WindowRecords /\ windows[n].key \in LimiterKeys
  <2>1. \A n \in DOMAIN windows : windows[n] \in WindowRecords
    BY DEF RateInv
  <2> QED BY <2>1 DEF WindowRecords
<1>1. PICK key, ws : /\ key = <<request[c].path, c>>
                     /\ ws = IF Counting(key) THEN windows ELSE Open(key)
  OBVIOUS
<1>2. PICK i : i = (CHOOSE n \in WindowOf(ws, key) : TRUE)
  OBVIOUS
<1> DEFINE admit == ws[i].count < Limit
<1>3. /\ key \in LimiterKeys /\ second' = second
      /\ windows' = IF admit THEN [ws EXCEPT ![i].count = @ + 1] ELSE ws
      /\ taken' = IF admit THEN Append(taken, [key |-> key, at |-> second]) ELSE taken
      /\ forgotten' = forgotten \cup
           {windows[n].key : n \in {m \in DOMAIN windows :
                                      ~Over(windows[m]) /\ WindowOf(ws, windows[m].key) = {}}}
  <2>1. key \in LimiterKeys
    <3>1. request[c].path \in {"voice", "upgrade"}
      BY DEF Consume, Limited
    <3> QED BY <1>1, <3>1 DEF LimiterKeys
  <2>2. /\ second' = second
        /\ forgotten' = forgotten \cup
             {windows[n].key : n \in {m \in DOMAIN windows :
                                        ~Over(windows[m]) /\ WindowOf(ws, windows[m].key) = {}}}
    BY <1>1 DEF Consume
  <2>3. CASE admit
    BY <1>1, <1>2, <2>1, <2>2, <2>3 DEF Consume
  <2>4. CASE ~admit
    BY <1>1, <1>2, <2>1, <2>2, <2>4 DEF Consume
  <2> QED BY <2>3, <2>4
<1>4. /\ ws \in Seq(WindowRecords) /\ Len(ws) <= MaxWindows /\ OneEach(ws)
      /\ \A n \in DOMAIN ws : ws[n].key # key => \E m \in DOMAIN windows : ws[n] = windows[m]
      /\ \E n \in DOMAIN ws :
           /\ ws[n].key = key
           /\ \/ \E m \in DOMAIN windows : ws[n] = windows[m] /\ ~Over(windows[m])
              \/ ws[n] = NewWindow(key) /\ ~Counting(key)
  <2>1. key \in LimiterKeys
    BY <1>3
  <2>2. ws = IF Counting(key) THEN windows ELSE Open(key)
    BY <1>1
  <2> QED BY <2>1, <2>2, Opened
<1>5. i \in DOMAIN ws /\ ws[i].key = key /\ \A n \in DOMAIN ws : ws[n].key = key => n = i
  BY <1>2, <1>4 DEF WindowOf, OneEach
<1>6. PICK w \in WindowRecords :
        /\ w = ws[i] /\ w.key = key
        /\ \/ \E m \in DOMAIN windows : w = windows[m] /\ ~Over(windows[m])
           \/ w = NewWindow(key) /\ ~Counting(key)
  BY <1>4, <1>5
<1>7. /\ second \in Nat /\ taken \in Seq(Takings) /\ Limit \in Nat \ {0} /\ Window \in Nat \ {0}
      /\ \A n \in DOMAIN taken : taken[n].at <= second
      /\ w.since \in Nat /\ w.count \in Nat
  BY <1>6, GuardAssumption DEF RateInv, WindowRecords
<1>8. /\ w.since <= second /\ second < w.since + Window /\ w.count <= Limit
      /\ ~admit => w.count # 0
      /\ key \notin forgotten => /\ CountedBy(w, taken) /\ SpansBounded(taken, key)
                                 /\ BegunBy(w, taken) \/ w.since = second
                                 /\ w.count # 0 => BegunBy(w, taken)
  <2>1. ASSUME NEW m \in DOMAIN windows, w = windows[m], ~Over(windows[m])
        PROVE  /\ w.since <= second /\ second < w.since + Window /\ w.count <= Limit /\ w.count # 0
               /\ key \notin forgotten => CountedBy(w, taken) /\ SpansBounded(taken, key) /\ BegunBy(w, taken)
    <3>1. w.count \in 1..Limit /\ w.since <= second
      BY <2>1 DEF RateInv
    <3>2. ~(second - w.since >= Window)
      BY <2>1 DEF Over
    <3>3. key \notin forgotten => CountedBy(w, taken) /\ SpansBounded(taken, key) /\ BegunBy(w, taken)
      BY <1>3, <1>6, <2>1 DEF RateInv, KeyOK
    <3> QED BY <1>7, <3>1, <3>2, <3>3
  <2>2. ASSUME w = NewWindow(key), ~Counting(key)
        PROVE  /\ w.since = second /\ w.count = 0
               /\ key \notin forgotten => CountedBy(w, taken) /\ SpansBounded(taken, key)
    <3>1. w = [key |-> key, count |-> 0, since |-> second]
      BY <2>2 DEF NewWindow
    <3>2. ASSUME key \notin forgotten PROVE CountedBy(w, taken) /\ SpansBounded(taken, key)
      <4>1. \A n \in DOMAIN windows : windows[n].key = key => Over(windows[n])
        BY <2>2 DEF Counting, WindowOf
      <4>2. key \in LimiterKeys \ forgotten
        BY <1>3, <3>2
      <4>3. MayBegin(taken, key, second)
        BY <4>1, <4>2, KeyReady
      <4> QED BY <1>3, <1>7, <3>1, <4>2, <4>3, ReadyCounted DEF RateInv, KeyOK
    <3> QED BY <3>1, <3>2
  <2>3. ~admit => w.count # 0
    BY <1>2, <1>6, <1>7
  <2> QED BY <1>6, <1>7, <2>1, <2>2, <2>3
<1>9. PICK x : x = [w EXCEPT !.count = @ + 1]
  OBVIOUS
<1>10. /\ x \in WindowRecords /\ x.key = key /\ x.since = w.since /\ x.count = w.count + 1
  <2>1. PICK count, since : count = w.count /\ since = w.since
    OBVIOUS
  <2>2. w = [key |-> key, count |-> count, since |-> since]
    BY <1>6, <2>1 DEF WindowRecords
  <2>3. x = [key |-> key, count |-> count + 1, since |-> since]
    BY <1>9, <2>2
  <2> QED BY <1>3, <1>7, <2>1, <2>3 DEF WindowRecords
<1>11. /\ windows' \in Seq(WindowRecords) /\ DOMAIN windows' = DOMAIN ws /\ Len(windows') = Len(ws)
       /\ windows'[i] = IF admit THEN x ELSE w
       /\ \A n \in DOMAIN ws : n # i => windows'[n] = ws[n]
  <2>1. CASE ~admit
    BY <1>3, <1>4, <1>6, <2>1
  <2>2. CASE admit
    <3>1. windows' = [ws EXCEPT ![i] = x]
      BY <1>3, <1>6, <1>9, <2>2
    <3>2. ws \in [1..Len(ws) -> WindowRecords] /\ Len(ws) \in Nat
      BY <1>4
    <3>3. windows' \in [1..Len(ws) -> WindowRecords]
      BY <1>10, <3>1, <3>2
    <3>4. windows' \in Seq(WindowRecords) /\ Len(windows') = Len(ws)
      BY <3>2, <3>3
    <3> QED BY <1>5, <2>2, <3>1, <3>4
  <2> QED BY <2>1, <2>2
<1>12. \A n \in DOMAIN ws : windows'[n].key = ws[n].key
  BY <1>5, <1>6, <1>10, <1>11
<1>13. /\ taken' \in Seq(Takings) /\ \A n \in DOMAIN taken' : taken'[n].at <= second
  <2>1. [key |-> key, at |-> second] \in Takings
    BY <1>3, <1>7 DEF Takings
  <2>2. CASE admit
    <3>1. PICK y : y = [key |-> key, at |-> second]
      OBVIOUS
    <3>2. taken' = Append(taken, y) /\ y \in Takings /\ y.at = second
      BY <1>3, <2>1, <2>2, <3>1
    <3>3. /\ taken' \in Seq(Takings) /\ DOMAIN taken = 1..Len(taken) /\ DOMAIN taken' = 1..(Len(taken) + 1)
          /\ Len(taken) \in Nat /\ taken'[Len(taken) + 1] = y
          /\ \A n \in 1..Len(taken) : taken'[n] = taken[n]
      BY <1>7, <3>2
    <3> QED BY <1>7, <3>2, <3>3
  <2> QED BY <1>3, <1>7, <2>2
<1>14. forgotten \subseteq forgotten' /\ forgotten' \subseteq LimiterKeys
  BY <1>0, <1>3 DEF RateInv
<1>15. ASSUME NEW k \in LimiterKeys, k \notin forgotten', k # key PROVE KeyOK(k)'
  <2>1. k \in LimiterKeys \ forgotten /\ KeyOK(k)
    BY <1>14, <1>15 DEF RateInv
  <2>2. /\ \A a : Since(taken', k, a) = Since(taken, k, a)
        /\ \A a, b : InSpan(taken', k, a, b) = InSpan(taken, k, a, b)
        /\ \A n \in DOMAIN taken' : taken'[n].key = k => n \in DOMAIN taken /\ taken'[n] = taken[n]
        /\ \A n \in DOMAIN taken : n \in DOMAIN taken' /\ taken'[n] = taken[n]
    <3>1. CASE admit
      <4>1. PICK y \in Takings : y = [key |-> key, at |-> second] /\ y.key = key
        BY <1>3, <1>7 DEF Takings
      <4>2. taken' = Append(taken, y)
        BY <1>3, <3>1, <4>1
      <4>3. k # y.key /\ taken \in Seq(Takings)
        BY <1>7, <1>15, <4>1
      <4> QED BY <4>2, <4>3, OtherKey
    <3> QED BY <1>3, <3>1
  <2>3. ASSUME NEW n \in DOMAIN windows', windows'[n].key = k
        PROVE  CountedBy(windows'[n], taken') /\ BegunBy(windows'[n], taken')
    <3>1. n \in DOMAIN ws /\ ws[n].key = k /\ n # i
      BY <1>5, <1>11, <1>12, <1>15, <2>3
    <3>2. PICK m \in DOMAIN windows : windows'[n] = windows[m]
      BY <1>4, <1>11, <1>15, <3>1
    <3>3. CountedBy(windows[m], taken) /\ BegunBy(windows[m], taken) /\ windows[m].key = k
      BY <2>1, <2>3, <3>2 DEF KeyOK
    <3>4. CountedBy(windows[m], taken')
      BY <2>2, <3>3 DEF CountedBy
    <3>5. BegunBy(windows[m], taken')
      BY <2>2, <3>3 DEF BegunBy
    <3> QED BY <3>2, <3>4, <3>5
  <2>4. ASSUME \A n \in DOMAIN windows' : windows'[n].key # k PROVE MayBegin(taken', k, second)
    <3>1. WindowOf(ws, k) = {}
      BY <1>11, <1>12, <2>4 DEF WindowOf
    <3>2. \A n \in DOMAIN windows : windows[n].key = k => Over(windows[n])
      BY <1>3, <1>15, <3>1
    <3>3. MayBegin(taken, k, second)
      BY <2>1, <3>2, KeyReady
    <3> QED BY <2>2, <3>3 DEF MayBegin
  <2>5. SpansBounded(taken', k)
    BY <2>1, <2>2 DEF KeyOK, SpansBounded
  <2> QED BY <1>3, <2>3, <2>4, <2>5 DEF KeyOK
<1>16. ASSUME key \notin forgotten' PROVE KeyOK(key)'
  <2>1. CountedBy(w, taken) /\ SpansBounded(taken, key) /\ (BegunBy(w, taken) \/ w.since = second) /\ (w.count # 0 => BegunBy(w, taken))
    BY <1>8, <1>14, <1>16
  <2>2. PICK v : v = windows'[i]
    OBVIOUS
  <2>3. CountedBy(v, taken') /\ SpansBounded(taken', key) /\ BegunBy(v, taken')
    <3>1. CASE admit
      <4>1. v = x /\ taken' = Append(taken, [key |-> w.key, at |-> second]) /\ w.count < Limit
        BY <1>2, <1>3, <1>6, <1>11, <2>2, <3>1
      <4>2. /\ CountedBy(x, taken') /\ SpansBounded(taken', w.key)
            /\ BegunBy(w, taken) \/ w.since = second => BegunBy(x, taken')
        <5>1. /\ taken \in Seq(Takings) /\ second \in Nat /\ w.since <= second /\ second < w.since + Window
              /\ \A n \in DOMAIN taken : taken[n].at <= second
              /\ SpansBounded(taken, w.key) /\ w.count < Limit /\ CountedBy(w, taken)
          BY <1>6, <1>7, <1>8, <2>1, <4>1
        <5>2. PICK u : u = taken' /\ u = Append(taken, [key |-> w.key, at |-> second])
          BY <4>1
        <5>3. /\ CountedBy(x, u) /\ SpansBounded(u, w.key)
              /\ BegunBy(w, taken) \/ w.since = second => BegunBy(x, u)
          <6>1. HasRoom(taken, w, second)
            BY <5>1, <1>6 DEF HasRoom
          <6>2. LetThrough(taken, w, second, u, x)
            BY <5>2, <1>9 DEF LetThrough
          <6> QED BY <6>1, <6>2, OneMore
        <5> QED BY <5>2, <5>3
      <4> QED BY <1>6, <2>1, <4>1, <4>2
    <3>2. CASE ~admit
      BY <1>3, <1>8, <1>11, <2>1, <2>2, <3>2
    <3> QED BY <3>1, <3>2
  <2>4. \A n \in DOMAIN windows' : windows'[n].key = key => windows'[n] = v
    BY <1>5, <1>11, <1>12, <2>2
  <2>5. i \in DOMAIN windows' /\ windows'[i].key = key
    BY <1>5, <1>11, <1>12
  <2> QED BY <2>3, <2>4, <2>5 DEF KeyOK
<1>17. \A n \in DOMAIN windows' : windows'[n].count \in 1..Limit /\ windows'[n].since <= second
  <2>1. windows'[i].count \in 1..Limit /\ windows'[i].since <= second
    <3>1. CASE admit
      <4>1. w.count < Limit
        BY <1>2, <1>6, <3>1
      <4> QED BY <1>7, <1>8, <1>10, <1>11, <3>1, <4>1
    <3>2. CASE ~admit
      BY <1>7, <1>8, <1>11, <3>2
    <3> QED BY <3>1, <3>2
  <2>2. ASSUME NEW n \in DOMAIN windows', n # i
        PROVE  windows'[n].count \in 1..Limit /\ windows'[n].since <= second
    <3>1. ws[n].key # key /\ n \in DOMAIN ws /\ windows'[n] = ws[n]
      BY <1>5, <1>11, <2>2
    <3>2. PICK m \in DOMAIN windows : windows'[n] = windows[m]
      BY <1>4, <3>1
    <3> QED BY <3>2 DEF RateInv
  <2> QED BY <2>1, <2>2
<1>18. OneEach(windows')
  BY <1>4, <1>11, <1>12 DEF OneEach
<1>19. \A k \in LimiterKeys \ forgotten' : KeyOK(k)'
  BY <1>15, <1>16
<1>20. Len(windows') <= MaxWindows
  BY <1>4, <1>11
<1> QED BY <1>3, <1>7, <1>11, <1>13, <1>14, <1>17, <1>18, <1>19, <1>20 DEF RateInv, OneEach

(* Time passes, or something else happens.                                 *)
LEMMA OthersKeepRate ==
  ASSUME RateInv, UNCHANGED <<windows, taken, forgotten>>, second' \in {second, second + 1}
  PROVE  RateInv'
<1>1. second \in Nat /\ second' \in Nat /\ second <= second' /\ Window \in Nat
  BY GuardAssumption DEF RateInv
<1>2. ASSUME NEW k \in LimiterKeys \ forgotten PROVE KeyOK(k)'
  <2>1. KeyOK(k) /\ taken \in Seq(Takings)
    BY DEF RateInv
  <2>2. MayBegin(taken, k, second) => MayBegin(taken, k, second')
    <3>1. \A n \in DOMAIN taken : taken[n].at \in Nat
      BY <2>1, Times
    <3>2. \A t \in Nat : second' < t + Window => second < t + Window
      BY <1>1
    <3>3. \A n \in DOMAIN taken : taken[n].at < second => taken[n].at < second'
      BY <1>1, <3>1
    <3> QED BY <3>2, <3>3 DEF MayBegin
  <2> QED BY <2>1, <2>2 DEF KeyOK
<1>3. \A n \in DOMAIN windows : windows[n].since <= second'
  <2>1. \A n \in DOMAIN windows : windows[n] \in WindowRecords /\ windows[n].since <= second
    BY DEF RateInv
  <2>2. \A n \in DOMAIN windows : windows[n].since \in Nat
    BY <2>1 DEF WindowRecords
  <2> QED BY <1>1, <2>1, <2>2
<1>4. \A n \in DOMAIN taken : taken[n].at <= second'
  <2>1. taken \in Seq(Takings) /\ \A n \in DOMAIN taken : taken[n].at <= second
    BY DEF RateInv
  <2> QED BY <1>1, <2>1, Times
<1> QED BY <1>1, <1>2, <1>3, <1>4 DEF RateInv, OneEach

-----------------------------------------------------------------------------
(* IDENTITIES.  The requests there can be.                                 *)
GuardRequests ==
  [at : {"idle", "arriving", "verifying", "passed"},
   path : Paths \cup {"none"}, token : Tokens \cup {"none", "configured"},
   tenant : {"none", "local", "other"}, asked : 0..LastSecond, stage : 0..2,
   by : {"none", "seed", "static", "verifier"}]

(* Whose a token is, and whether a policy admits an identity.              *)
Bearer(t) == IF t = "configured" THEN LocalIdentity ELSE Claims[t]
Admits(p, i) == p.anyRole \/ i.role \in p.roles

(* What is known of a request that has passed its policies, in a setup st  *)
(* where the verifier has vouched for vs.                                  *)
VouchedNow(i, at) ==
  WellFormed(i) /\ i.ours /\ i.issued <= at /\ i.from <= at

AdmittedBy(r, st, vs) ==
  LET i == IF r.by = "static" THEN LocalIdentity ELSE Claims[r.token] IN
  IF r.by = "seed" THEN st = "open" /\ \A p \in ToSet(Policies(r.path)) : p.seed
  ELSE /\ \A p \in ToSet(Policies(r.path)) : Admits(p, i)
       /\ r.tenant \in {"none", i.tenant}
       /\ r.by = "static" => r.token = "configured" /\ st \in {"static", "both"}
       /\ r.by = "verifier" => VouchedNow(i, r.asked) /\ r.asked < i.until /\ r.token \in vs

(* And of any request, at the second s: behind its first policy the bearer *)
(* of its token is one that policy admits.                                 *)
PassingOK(r, st, vs, s) ==
  /\ r \in GuardRequests
  /\ r.at \in {"arriving", "verifying"} =>
       /\ r.path \in Paths \ {"upgrade"} /\ r.stage \in 1..Len(Policies(r.path))
       /\ r.stage = 2 => Admits(Policies(r.path)[1], Bearer(r.token))
  /\ r.at = "verifying" => r.asked <= s
  /\ r.at = "passed" => r.path \in Paths /\ (r.path # "upgrade" => AdmittedBy(r, st, vs))

(* The inductive invariants of the requests and of the token cache.        *)
RequestInv ==
  /\ request \in [Callers -> GuardRequests]
  /\ \A c \in Callers : PassingOK(request[c], setup, vetted, second)

TokenInv ==
  /\ known \in Seq(Tokens) /\ Len(known) <= MaxTokens /\ IsInjective(known)
  /\ \A n \in DOMAIN known : known[n] \in vetted /\ VouchedNow(Claims[known[n]], second)

GuardInv ==
  /\ setup \in Setups /\ mounted \in Mounts /\ second \in 0..LastSecond
  /\ withdrawn \subseteq Tokens /\ vetted \subseteq Tokens /\ asks \in 0..MaxAsks
  /\ TokenInv /\ RequestInv /\ RateInv

(* The policies of a path: it has one or two, and the seed identity passes *)
(* all of them or none.                                                    *)
LEMMA PoliciesOf ==
  ASSUME NEW path \in Paths \ {"upgrade"}, NEW ps, ps = Policies(path)
  PROVE  /\ Len(ps) \in {1, 2}
         /\ ToSet(ps) = {ps[m] : m \in 1..Len(ps)}
         /\ \A n \in 1..Len(ps) : ps[n].seed => \A p \in ToSet(ps) : p.seed
<1>1. path \in {"voice", "ops", "admin", "layer-access"}
  BY DEF Paths
<1>2. CASE path = "voice"
  BY <1>2 DEF Policies, ToSet
<1>3. CASE path = "ops"
  BY <1>3 DEF Policies, ToSet
<1>4. CASE path = "layer-access"
  BY <1>4 DEF Policies, ToSet
<1>5. CASE path = "admin"
  BY <1>5 DEF Policies, ToSet
<1> QED BY <1>1, <1>2, <1>3, <1>4, <1>5

(* A request stays in order while time passes and tokens are vouched for.  *)
LEMMA StillOK ==
  ASSUME NEW r, NEW st, NEW vs, NEW ws, NEW s \in Nat, NEW z \in Nat,
         PassingOK(r, st, vs, s), vs \subseteq ws, s <= z
  PROVE  PassingOK(r, st, ws, z)
<1>1. AdmittedBy(r, st, vs) => AdmittedBy(r, st, ws)
  BY DEF AdmittedBy
<1>2. r \in GuardRequests /\ (r.at = "verifying" => r.asked <= z)
  <2>1. r \in GuardRequests /\ (r.at = "verifying" => r.asked <= s) /\ LastSecond \in Nat
    BY GuardAssumption DEF PassingOK
  <2>2. r.asked \in 0..LastSecond
    BY <2>1 DEF GuardRequests
  <2> QED BY <2>1, <2>2
<1> QED BY <1>1, <1>2 DEF PassingOK

(* One request takes a step.                                               *)
LEMMA OnePassing ==
  ASSUME RequestInv, second \in Nat, second' \in Nat, NEW c \in Callers, NEW q,
         request' = [request EXCEPT ![c] = q], PassingOK(q, setup, vetted', second'),
         setup' = setup, vetted \subseteq vetted', second <= second'
  PROVE  RequestInv'
<1>1. q \in GuardRequests
  BY DEF PassingOK
<1>2. request' \in [Callers -> GuardRequests]
  BY <1>1 DEF RequestInv
<1>3. ASSUME NEW d \in Callers PROVE PassingOK(request'[d], setup, vetted', second')
  <2>1. CASE d = c
    <3>1. request'[d] = q
      BY <2>1 DEF RequestInv
    <3> QED BY <3>1
  <2>2. CASE d # c
    <3>1. request'[d] = request[d] /\ PassingOK(request[d], setup, vetted, second)
      BY <2>2 DEF RequestInv
    <3>2. PassingOK(request[d], setup, vetted', second')
      BY <3>1, StillOK
    <3> QED BY <3>1, <3>2
  <2> QED BY <2>1, <2>2
<1> QED BY <1>2, <1>3 DEF RequestInv

(* No request takes one.                                                   *)
LEMMA SameRequests ==
  ASSUME RequestInv, second \in Nat, second' \in Nat, request' = request,
         setup' = setup, vetted \subseteq vetted', second <= second'
  PROVE  RequestInv'
<1>1. ASSUME NEW d \in Callers PROVE PassingOK(request[d], setup, vetted', second')
  <2>1. PassingOK(request[d], setup, vetted, second)
    BY DEF RequestInv
  <2> QED BY <2>1, StillOK
<1> QED BY <1>1 DEF RequestInv

(* A request that is answered leaves nothing.                              *)
LEMMA IdleOK ==
  ASSUME NEW st, NEW vs, NEW s
  PROVE  PassingOK(NoRequest, st, vs, s)
<1>1. NoRequest \in GuardRequests
  BY GuardAssumption DEF NoRequest, GuardRequests
<1> QED BY <1>1 DEF PassingOK, NoRequest

(* An identity is found for a request, and its policy asked: the request   *)
(* is refused, goes on to the next policy or has passed.                   *)
LEMMA PassKeeps ==
  ASSUME RequestInv, second \in Nat, second' = second, setup' = setup, vetted \subseteq vetted',
         NEW c \in Callers, NEW r, r = request[c], r.at \in {"arriving", "verifying"},
         NEW by \in {"static", "verifier"}, NEW at \in 0..LastSecond,
         NEW i, i = Bearer(r.token), i = IF by = "static" THEN LocalIdentity ELSE Claims[r.token],
         by = "static" => r.token = "configured" /\ setup \in {"static", "both"},
         by = "verifier" => VouchedNow(i, at) /\ at < i.until /\ r.token \in vetted',
         Pass(c, i, by, at)
  PROVE  RequestInv'
<1>0. second' \in Nat /\ second <= second'
  OBVIOUS
<1>1. /\ r \in GuardRequests /\ request \in [Callers -> GuardRequests]
      /\ r.path \in Paths \ {"upgrade"} /\ r.stage \in 1..Len(Policies(r.path))
      /\ r.stage = 2 => Admits(Policies(r.path)[1], Bearer(r.token))
  BY DEF RequestInv, PassingOK
<1>2. PICK path, token, tenant, stage :
        path = r.path /\ token = r.token /\ tenant = r.tenant /\ stage = r.stage
  OBVIOUS
<1>3. /\ path \in Paths \cup {"none"} /\ token \in Tokens \cup {"none", "configured"}
      /\ tenant \in {"none", "local", "other"} /\ stage \in 0..2
  BY <1>1, <1>2 DEF GuardRequests
<1>4. PICK ps : ps = Policies(path)
  OBVIOUS
<1>5. /\ path \in Paths \ {"upgrade"} /\ stage \in 1..Len(ps)
      /\ stage = 2 => Admits(ps[1], i)
      /\ Len(ps) \in {1, 2} /\ ToSet(ps) = {ps[m] : m \in 1..Len(ps)}
  <2>1. path \in Paths \ {"upgrade"} /\ stage \in 1..Len(ps) /\ (stage = 2 => Admits(ps[1], i))
    BY <1>1, <1>2, <1>4
  <2> QED BY <1>4, <2>1, PoliciesOf
<1>6. CASE ~Authorized(i, ps[stage], tenant)
  <2>1. request' = [request EXCEPT ![c] = NoRequest]
    BY <1>2, <1>4, <1>6 DEF Pass, RequestOver, Policy
  <2> QED BY <2>1, <1>0, IdleOK, OnePassing
<1>7. CASE Authorized(i, ps[stage], tenant) /\ stage < Len(ps)
  <2>1. PICK q : q = [at |-> "arriving", path |-> path, token |-> token, tenant |-> tenant,
                      asked |-> at, stage |-> stage + 1, by |-> by]
    OBVIOUS
  <2>2. request' = [request EXCEPT ![c] = q]
    <3>1. r = [at |-> r.at, path |-> path, token |-> token, tenant |-> tenant,
               asked |-> r.asked, stage |-> stage, by |-> r.by]
      BY <1>1, <1>2 DEF GuardRequests
    <3>2. request' = [request EXCEPT
         ![c].by = by, ![c].asked = at, ![c].stage = @ + 1, ![c].at = "arriving"]
      BY <1>2, <1>4, <1>7 DEF Pass, Policy
    <3> QED BY <1>1, <2>1, <3>1, <3>2
  <2>3. stage = 1 /\ Len(ps) = 2 /\ stage + 1 = 2
    <3>1. PICK l \in {1, 2} : l = Len(ps)
      BY <1>5
    <3>2. stage \in 1..l /\ stage < l
      BY <1>5, <1>7, <3>1
    <3>3. stage = 1 /\ l = 2
      BY ONLY <3>2, l \in {1, 2}
    <3> QED BY <3>1, <3>3
  <2>4. Admits(ps[1], i)
    BY <1>7, <2>3 DEF Authorized, Admits
  <2>5. q \in GuardRequests
    BY <1>3, <2>1, <2>3 DEF GuardRequests
  <2>6. PassingOK(q, setup, vetted', second')
    <3>1. q.at = "arriving" /\ q.path = path /\ q.stage = 2 /\ q.token = token
      BY <2>1, <2>3
    <3>2. q.path \in Paths \ {"upgrade"} /\ Policies(q.path) = ps /\ Bearer(q.token) = i
      BY <1>2, <1>4, <1>5, <3>1
    <3>3. q.stage \in 1..Len(Policies(q.path))
      <4>1. Len(Policies(q.path)) = 2
        BY <2>3, <3>2
      <4>2. q.stage = 2 /\ 2 \in 1..2
        BY <3>1
      <4> QED BY ONLY <4>1, <4>2
    <3>4. Admits(Policies(q.path)[1], Bearer(q.token))
      BY <2>4, <3>2
    <3> QED BY <2>5, <3>1, <3>2, <3>3, <3>4 DEF PassingOK
  <2> QED BY <2>2, <2>6, <1>0, OnePassing
<1>8. CASE Authorized(i, ps[stage], tenant) /\ ~(stage < Len(ps))
  <2>1. PICK q : q = [at |-> "passed", path |-> path, token |-> token, tenant |-> tenant,
                      asked |-> at, stage |-> stage, by |-> by]
    OBVIOUS
  <2>2. request' = [request EXCEPT ![c] = q]
    <3>1. r = [at |-> r.at, path |-> path, token |-> token, tenant |-> tenant,
               asked |-> r.asked, stage |-> stage, by |-> r.by]
      BY <1>1, <1>2 DEF GuardRequests
    <3>2. request' = [request EXCEPT
         ![c].by = by, ![c].asked = at, ![c].stage = @, ![c].at = "passed"]
      BY <1>2, <1>4, <1>8 DEF Pass, Policy
    <3> QED BY <1>1, <2>1, <3>1, <3>2
  <2>3. stage = Len(ps)
    BY <1>5, <1>8
  <2>4. ASSUME NEW p \in ToSet(ps) PROVE Admits(p, i)
    <3>1. Admits(ps[stage], i)
      BY <1>8 DEF Authorized, Admits
    <3>2. PICK m \in 1..Len(ps) : p = ps[m]
      BY <1>5
    <3>3. m = stage \/ (m = 1 /\ stage = 2)
      BY <1>5, <2>3
    <3> QED BY <1>5, <3>1, <3>2, <3>3
  <2>5. q \in GuardRequests
    BY <1>3, <2>1 DEF GuardRequests
  <2>6. /\ q.at = "passed" /\ q.path = path /\ q.token = token /\ q.by = by /\ q.asked = at /\ q.tenant = tenant
    BY <2>1
  <2>7. tenant \in {"none", i.tenant}
    BY <1>8 DEF Authorized
  <2>8. AdmittedBy(q, setup, vetted')
    BY <1>2, <1>4, <2>4, <2>6, <2>7 DEF AdmittedBy
  <2>9. PassingOK(q, setup, vetted', second')
    BY <1>5, <2>5, <2>6, <2>8 DEF PassingOK
  <2> QED BY <2>2, <2>9, <1>0, OnePassing
<1> QED BY <1>6, <1>7, <1>8

(* What the cache holds stays settled as time passes.                      *)
LEMMA SettledLater ==
  ASSUME NEW t \in Tokens, NEW a \in Nat, NEW b \in Nat, a <= b, VouchedNow(Claims[t], a)
  PROVE  VouchedNow(Claims[t], b)
<1>1. PICK i : i = Claims[t]
  OBVIOUS
<1>2. i.issued \in Nat /\ i.from \in Nat
  BY <1>1, GuardAssumption
<1> QED BY <1>1, <1>2 DEF VouchedNow

(* The cache when nothing is put into it.                                  *)
LEMMA SameCache ==
  ASSUME TokenInv, known' = known, vetted \subseteq vetted',
         second \in Nat, second' \in Nat, second <= second'
  PROVE  TokenInv'
<1>1. ASSUME NEW n \in DOMAIN known PROVE known[n] \in vetted' /\ VouchedNow(Claims[known[n]], second')
  <2>1. known[n] \in Tokens /\ known[n] \in vetted /\ VouchedNow(Claims[known[n]], second)
    BY DEF TokenInv
  <2> QED BY <2>1, SettledLater
<1> QED BY <1>1 DEF TokenInv

(* The cache when a settled token is put into it.                          *)
LEMMA RememberKeeps ==
  ASSUME TokenInv, second \in Nat, second' = second, vetted \subseteq vetted',
         NEW t \in Tokens, NEW at, known' = Remember(t, at), t \in vetted', VouchedNow(Claims[t], second)
  PROVE  TokenInv'
<1>0. MaxTokens \in Nat \ {0} /\ known \in Seq(Tokens) /\ IsInjective(known)
  BY GuardAssumption DEF TokenInv
<1>1. PICK I \in SUBSET DOMAIN known : I = {i \in DOMAIN known : at < Claims[known[i]].until}
  OBVIOUS
<1>2. PICK kept : kept = IF Len(Staying(known, I)) < MaxTokens THEN Staying(known, I)
                         ELSE SubSeq(Staying(known, I), Len(Staying(known, I)) - MaxTokens + 2, Len(Staying(known, I)))
  OBVIOUS
<1>3. kept \in Seq(Tokens) /\ Len(kept) < MaxTokens /\ PartOf(kept, known)
  BY <1>0, <1>2, RoomLeft
<1>4. known' = IF t \in ToSet(kept) THEN kept ELSE Append(kept, t)
  BY <1>1, <1>2 DEF Remember
<1>5. PICK f \in [DOMAIN kept -> DOMAIN known] :
        /\ \A m, n \in DOMAIN kept : f[m] = f[n] => m = n
        /\ \A n \in DOMAIN kept : kept[n] = known[f[n]]
  BY <1>3 DEF PartOf
<1>6. \A m, n \in DOMAIN kept : kept[m] = kept[n] => m = n
  BY <1>0, <1>5 DEF IsInjective
<1>7. \A n \in DOMAIN kept : kept[n] \in vetted /\ VouchedNow(Claims[kept[n]], second)
  BY <1>5 DEF TokenInv
<1>8. CASE t \in ToSet(kept)
  <2>1. known' = kept /\ Len(kept) \in Nat
    BY <1>3, <1>4, <1>8
  <2>2. IsInjective(known')
    BY <1>6, <2>1 DEF IsInjective
  <2> QED BY <1>0, <1>3, <1>7, <2>1, <2>2 DEF TokenInv
<1>9. CASE t \notin ToSet(kept)
  <2>1. PICK l : l = Len(kept) + 1
    OBVIOUS
  <2>2. /\ known' \in Seq(Tokens) /\ Len(known') = l /\ DOMAIN known' = 1..l /\ l \in Nat \ {0}
        /\ DOMAIN kept = 1..(l - 1)
        /\ \A n \in 1..(l - 1) : known'[n] = kept[n]
        /\ known'[l] = t
    BY <1>3, <1>4, <1>9, <2>1
  <2>3. \A n \in DOMAIN known' : (n \in DOMAIN kept /\ known'[n] = kept[n]) \/ (n = l /\ known'[n] = t)
    <3>1. \A n \in 1..l : n \in 1..(l - 1) \/ n = l
      BY <2>2
    <3> QED BY <2>2, <3>1
  <2>4. \A n \in DOMAIN kept : kept[n] # t
    BY <1>9 DEF ToSet
  <2>5. IsInjective(known')
    BY <1>6, <2>3, <2>4 DEF IsInjective
  <2>6. Len(known') <= MaxTokens
    BY <1>0, <1>3, <2>1, <2>2
  <2>7. \A n \in DOMAIN known' : known'[n] \in vetted' /\ VouchedNow(Claims[known'[n]], second)
    BY <1>7, <2>3
  <2> QED BY <2>2, <2>5, <2>6, <2>7 DEF TokenInv
<1> QED BY <1>8, <1>9

(* It holds at the start.                                                  *)
LEMMA GuardInitially == GuardInit => GuardInv
<1> SUFFICES ASSUME GuardInit PROVE GuardInv
  OBVIOUS
<1>0. {MaxAsks, LastSecond} \subseteq Nat /\ {MaxTokens, Limit, Window, MaxWindows} \subseteq Nat \ {0}
  BY GuardAssumption
<1>1. TokenInv
  BY <1>0 DEF GuardInit, TokenInv, IsInjective
<1>2. RequestInv
  <2>1. NoRequest \in GuardRequests
    BY <1>0 DEF NoRequest, GuardRequests
  <2>2. request = [c \in Callers |-> NoRequest]
    BY DEF GuardInit
  <2>3. \A c \in Callers : PassingOK(request[c], setup, vetted, second)
    BY <2>2, IdleOK
  <2> QED BY <2>1, <2>2, <2>3 DEF RequestInv
<1>3. RateInv
  <2>1. \A key, a, b : InSpan(taken, key, a, b) = {} /\ Since(taken, key, a) = {}
    BY DEF GuardInit, InSpan, Since
  <2>2. \A key \in LimiterKeys : KeyOK(key)
    <3>1. \A key : SpansBounded(taken, key)
      <4>1. Limit \in Nat \ {0} /\ Cardinality({}) = 0
        BY <1>0, FS_EmptySet
      <4>2. 0 < 2 * Limit
        BY <4>1
      <4> QED BY <2>1, <4>1, <4>2 DEF SpansBounded
    <3>2. \A key : MayBegin(taken, key, second)
      BY <1>0, <2>1, FS_EmptySet DEF MayBegin, GuardInit
    <3> QED BY <3>1, <3>2 DEF KeyOK, GuardInit
  <2> QED BY <1>0, <2>2 DEF RateInv, GuardInit, OneEach
<1> QED BY <1>0, <1>1, <1>2, <1>3 DEF GuardInv, GuardInit

(* Every step keeps it.                                                    *)
LEMMA GuardStep == GuardInv /\ [GuardNext]_guardVars => GuardInv'
<1> SUFFICES ASSUME GuardInv, [GuardNext]_guardVars PROVE GuardInv'
  OBVIOUS
<1>0. /\ setup \in Setups /\ mounted \in Mounts /\ second \in 0..LastSecond
      /\ withdrawn \subseteq Tokens /\ vetted \subseteq Tokens /\ asks \in 0..MaxAsks
      /\ TokenInv /\ RequestInv /\ RateInv
      /\ {MaxAsks, LastSecond} \subseteq Nat
  BY GuardAssumption DEF GuardInv
<1>1. second \in Nat /\ second <= second
  BY <1>0
<1>2. ASSUME NEW c \in Callers
      PROVE  /\ request[c] \in GuardRequests /\ request \in [Callers -> GuardRequests]
             /\ PassingOK(request[c], setup, vetted, second)
  BY <1>0 DEF RequestInv
<1>3. ASSUME NEW c \in Callers, NEW p \in mounted, NEW t \in Presented, NEW n \in {"none", "local"}, Arrive(c, p, t, n)
      PROVE  GuardInv'
  <2>1. PICK q : q = [at |-> IF p = "upgrade" THEN "passed" ELSE "arriving", path |-> p, token |-> t,
                      tenant |-> n, asked |-> 0, stage |-> 1, by |-> "none"]
    OBVIOUS
  <2>2. request' = [request EXCEPT ![c] = q]
    <3>1. PICK none, a : none = NoRequest /\ a = IF p = "upgrade" THEN "passed" ELSE "arriving"
      OBVIOUS
    <3>2. none = [at |-> "idle", path |-> "none", token |-> "none", tenant |-> "none",
                  asked |-> 0, stage |-> 0, by |-> "none"]
      BY <3>1 DEF NoRequest
    <3>3. q = [at |-> a, path |-> p, token |-> t, tenant |-> n, asked |-> 0, stage |-> 1, by |-> "none"]
      BY <2>1, <3>1
    <3>4. PICK x : x = [none EXCEPT !.at = a, !.path = p, !.token = t, !.tenant = n, !.stage = 1]
      OBVIOUS
    <3>5. x = [at |-> a, path |-> p, token |-> t, tenant |-> n, asked |-> 0, stage |-> 1, by |-> "none"]
      BY ONLY <3>2, <3>4
    <3>6. request' = [request EXCEPT ![c] = x]
      BY <1>3, <3>1, <3>4 DEF Arrive
    <3> QED BY <3>3, <3>5, <3>6
  <2>3. p \in Paths /\ t \in Tokens \cup {"none", "configured"}
    BY <1>0, GuardAssumption DEF Presented
  <2>4. q \in GuardRequests
    BY <1>0, <2>1, <2>3 DEF GuardRequests
  <2>5. q.path = p /\ q.stage = 1 /\ q.at = IF p = "upgrade" THEN "passed" ELSE "arriving"
    BY <2>1
  <2>6. p # "upgrade" => 1 \in 1..Len(Policies(p))
    <3>1. p # "upgrade" => Len(Policies(p)) \in {1, 2}
      BY <2>3, PoliciesOf
    <3>2. \A l \in {1, 2} : 1 \in 1..l
      OBVIOUS
    <3> QED BY <3>1, <3>2
  <2>7. PassingOK(q, setup, vetted, second)
    <3>1. CASE p = "upgrade"
      BY <2>3, <2>4, <2>5, <3>1 DEF PassingOK
    <3>2. CASE p # "upgrade"
      BY <2>3, <2>4, <2>5, <2>6, <3>2 DEF PassingOK
    <3> QED BY <3>1, <3>2
  <2>8. UNCHANGED <<mounted, setup, second, known, withdrawn, vetted, windows, taken, forgotten>> /\ asks' \in 0..MaxAsks
    BY <1>0, <1>3 DEF Arrive
  <2>9. RequestInv'
    BY <1>0, <1>1, <2>2, <2>7, <2>8, OnePassing
  <2> QED BY <1>0, <1>1, <2>8, <2>9, SameCache, OthersKeepRate DEF GuardInv
<1>4. ASSUME NEW c \in Callers, CheckLocally(c) PROVE GuardInv'
  <2>1. PICK r : r = request[c]
    OBVIOUS
  <2>2. r.at = "arriving" /\ r \in GuardRequests /\ PassingOK(r, setup, vetted, second)
    BY <1>2, <1>4, <2>1 DEF CheckLocally
  <2>3. UNCHANGED <<mounted, setup, second, known, withdrawn, vetted, asks, windows, taken, forgotten>>
    BY <1>4 DEF CheckLocally
  <2>4. RequestInv'
    <3>1. CASE setup = "open" /\ Policy(c).seed /\ request' = [request EXCEPT ![c].at = "passed", ![c].by = "seed"]
      <4>1. PICK q : q = [r EXCEPT !.at = "passed", !.by = "seed"]
        OBVIOUS
      <4>2. request' = [request EXCEPT ![c] = q]
        BY <1>2, <2>1, <3>1, <4>1
      <4>3. q \in GuardRequests /\ q.at = "passed" /\ q.by = "seed" /\ q.path = r.path
        BY <2>2, <4>1 DEF GuardRequests
      <4>4. r.path \in Paths \ {"upgrade"} /\ r.stage \in 1..Len(Policies(r.path)) /\ Policies(r.path)[r.stage].seed
        BY <2>1, <2>2, <3>1 DEF PassingOK, Policy
      <4>5. \A p \in ToSet(Policies(r.path)) : p.seed
        BY <4>4, PoliciesOf
      <4>6. AdmittedBy(q, setup, vetted)
        BY <3>1, <4>3, <4>5 DEF AdmittedBy
      <4>7. PassingOK(q, setup, vetted, second)
        BY <4>3, <4>4, <4>6 DEF PassingOK
      <4> QED BY <1>0, <1>1, <2>3, <4>2, <4>7, OnePassing
    <3>2. CASE RequestOver(c)
      <4>1. request' = [request EXCEPT ![c] = NoRequest]
        BY <3>2 DEF RequestOver
      <4> QED BY <1>0, <1>1, <2>3, <4>1, IdleOK, OnePassing
    <3>3. CASE HasStatic /\ r.token = "configured" /\ Pass(c, LocalIdentity, "static", second)
      <4>1. LocalIdentity = Bearer(r.token) /\ setup \in {"static", "both"}
        BY <3>3 DEF Bearer, HasStatic
      <4> QED BY <1>0, <1>1, <2>1, <2>2, <2>3, <3>3, <4>1, PassKeeps
    <3> QED BY <1>4, <2>1, <3>1, <3>2, <3>3 DEF CheckLocally
  <2> QED BY <1>0, <1>1, <2>3, <2>4, SameCache, OthersKeepRate DEF GuardInv
<1>5. ASSUME NEW c \in Callers, CheckCached(c) PROVE GuardInv'
  <2>1. PICK r : r = request[c]
    OBVIOUS
  <2>2. r.at = "arriving" /\ r.token \in Tokens /\ Cached(r.token) /\ Pass(c, Claims[r.token], "verifier", second)
    BY <1>5, <2>1 DEF CheckCached
  <2>3. UNCHANGED <<mounted, setup, second, known, withdrawn, vetted, asks, windows, taken, forgotten>>
    BY <1>5 DEF CheckCached
  <2>4. VouchedNow(Claims[r.token], second) /\ r.token \in vetted /\ second < Claims[r.token].until
    <3>1. second < Claims[r.token].until /\ r.token \in ToSet(known)
      BY <2>2 DEF Cached
    <3>2. PICK n \in DOMAIN known : known[n] = r.token
      BY <3>1 DEF ToSet
    <3> QED BY <1>0, <3>1, <3>2 DEF TokenInv
  <2>5. Claims[r.token] = Bearer(r.token)
    BY <2>2, GuardAssumption DEF Bearer
  <2>6. RequestInv'
    BY <1>0, <1>1, <2>1, <2>2, <2>3, <2>4, <2>5, PassKeeps
  <2> QED BY <1>0, <1>1, <2>3, <2>6, SameCache, OthersKeepRate DEF GuardInv
<1>6. ASSUME NEW c \in Callers, AskVerifier(c) PROVE GuardInv'
  <2>1. PICK r, q : r = request[c] /\ q = [r EXCEPT !.at = "verifying", !.asked = second]
    OBVIOUS
  <2>2. r.at = "arriving" /\ request' = [request EXCEPT ![c] = q]
    BY <1>2, <1>6, <2>1 DEF AskVerifier
  <2>3. UNCHANGED <<mounted, setup, second, known, withdrawn, vetted, asks, windows, taken, forgotten>>
    BY <1>6 DEF AskVerifier
  <2>4. r \in GuardRequests /\ PassingOK(r, setup, vetted, second)
    BY <1>2, <2>1
  <2>5. /\ q \in GuardRequests /\ q.at = "verifying" /\ q.asked = second /\ q.path = r.path
        /\ q.stage = r.stage /\ q.token = r.token
    BY <1>0, <2>1, <2>4 DEF GuardRequests
  <2>6. PassingOK(q, setup, vetted, second)
    BY <1>1, <2>2, <2>4, <2>5 DEF PassingOK
  <2>7. RequestInv'
    BY <1>0, <1>1, <2>2, <2>3, <2>6, OnePassing
  <2> QED BY <1>0, <1>1, <2>3, <2>7, SameCache, OthersKeepRate DEF GuardInv
<1>7. ASSUME NEW c \in Callers, VerifierAnswers(c) PROVE GuardInv'
  <2>1. PICK r : r = request[c]
    OBVIOUS
  <2>2. /\ r.at = "verifying" /\ r.token \in Tokens /\ Claims[r.token].ours
        /\ vetted' = vetted \cup {r.token}
        /\ UNCHANGED <<mounted, setup, second, withdrawn, asks, windows, taken, forgotten>>
    BY <1>7, <2>1 DEF VerifierAnswers, Vouched
  <2>3. r.asked \in 0..LastSecond /\ r.asked <= second
    <3>1. PassingOK(r, setup, vetted, second)
      BY <1>2, <2>1
    <3> QED BY <2>2, <3>1 DEF PassingOK, GuardRequests
  <2>4. CASE WellFormed(Claims[r.token]) /\ IsCurrent(Claims[r.token], r.asked)
    <3>1. known' = Remember(r.token, r.asked) /\ Pass(c, Claims[r.token], "verifier", r.asked)
      BY <1>7, <2>1, <2>4 DEF VerifierAnswers
    <3>2. VouchedNow(Claims[r.token], r.asked) /\ r.asked < Claims[r.token].until
      <4>1. PICK i : i = Claims[r.token] /\ i.until \in Nat
        BY <2>2, GuardAssumption
      <4>2. i.until > r.asked => r.asked < i.until
        BY <2>3, <4>1
      <4> QED BY <2>2, <2>4, <4>1, <4>2 DEF VouchedNow, IsCurrent
    <3>3. VouchedNow(Claims[r.token], second)
      BY <1>1, <2>2, <2>3, <3>2, SettledLater
    <3>4. Claims[r.token] = Bearer(r.token)
      BY <2>2, GuardAssumption DEF Bearer
    <3>5. r.token \in vetted' /\ vetted \subseteq vetted'
      BY <2>2
    <3>6. TokenInv'
      BY <1>0, <1>1, <2>2, <3>1, <3>3, <3>5, RememberKeeps
    <3>7. RequestInv'
      <4>1. setup' = setup /\ second' = second /\ r.at \in {"arriving", "verifying"}
        BY <2>2
      <4> QED BY <1>0, <1>1, <2>1, <2>3, <3>1, <3>2, <3>4, <3>5, <4>1, PassKeeps
    <3> QED BY <1>0, <1>1, <2>2, <3>6, <3>7, OthersKeepRate DEF GuardInv
  <2>5. CASE ~(WellFormed(Claims[r.token]) /\ IsCurrent(Claims[r.token], r.asked))
    <3>1. known' = known /\ request' = [request EXCEPT ![c] = NoRequest]
      BY <1>7, <2>1, <2>5 DEF VerifierAnswers, RequestOver
    <3>2. setup' = setup /\ second' = second /\ vetted \subseteq vetted'
      BY <2>2
    <3>3. RequestInv'
      BY <1>0, <1>1, <3>1, <3>2, IdleOK, OnePassing
    <3>4. TokenInv'
      BY <1>0, <1>1, <3>1, <3>2, SameCache
    <3> QED BY <1>0, <1>1, <2>2, <3>3, <3>4, OthersKeepRate DEF GuardInv
  <2> QED BY <2>4, <2>5
<1>8. ASSUME NEW c \in Callers, VerifierRefuses(c) \/ Admit(c) PROVE GuardInv'
  <2>1. /\ request' = [request EXCEPT ![c] = NoRequest]
        /\ UNCHANGED <<mounted, setup, second, known, withdrawn, vetted, asks, windows, taken, forgotten>>
    BY <1>8 DEF VerifierRefuses, Admit, RequestOver
  <2>2. RequestInv'
    BY <1>0, <1>1, <2>1, IdleOK, OnePassing
  <2> QED BY <1>0, <1>1, <2>1, <2>2, SameCache, OthersKeepRate DEF GuardInv
<1>9. ASSUME NEW c \in Callers, Consume(c) PROVE GuardInv'
  <2>1. /\ request' = [request EXCEPT ![c] = NoRequest]
        /\ UNCHANGED <<mounted, setup, second, known, withdrawn, vetted, asks>>
    BY <1>9 DEF Consume, RequestOver
  <2>2. RequestInv'
    BY <1>0, <1>1, <2>1, IdleOK, OnePassing
  <2>3. RateInv'
    BY <1>0, <1>9, ConsumeKeepsRate
  <2> QED BY <1>0, <1>1, <2>1, <2>2, <2>3, SameCache DEF GuardInv
<1>10. ASSUME NEW t \in Tokens, Withdraw(t) PROVE GuardInv'
  <2>1. /\ withdrawn' = withdrawn \cup {t}
        /\ UNCHANGED <<mounted, setup, second, known, vetted, request, asks, windows, taken, forgotten>>
    BY <1>10 DEF Withdraw
  <2> QED BY <1>0, <1>1, <2>1, SameRequests, SameCache, OthersKeepRate DEF GuardInv
<1>11. ASSUME SecondPasses PROVE GuardInv'
  <2>1. /\ second < LastSecond /\ second' = second + 1
        /\ UNCHANGED <<mounted, setup, known, withdrawn, vetted, request, asks, windows, taken, forgotten>>
    BY <1>11 DEF SecondPasses
  <2>2. second' \in Nat /\ second <= second' /\ second' \in 0..LastSecond
    BY <1>0, <2>1
  <2> QED BY <1>0, <1>1, <2>1, <2>2, SameRequests, SameCache, OthersKeepRate DEF GuardInv
<1>12. CASE UNCHANGED guardVars
  <2>1. UNCHANGED <<mounted, setup, second, known, withdrawn, vetted, request, asks, windows, taken, forgotten>>
    BY <1>12 DEF guardVars
  <2> QED BY <1>0, <1>1, <2>1, SameRequests, SameCache, OthersKeepRate DEF GuardInv
<1> QED BY <1>3, <1>4, <1>5, <1>6, <1>7, <1>8, <1>9, <1>10, <1>11, <1>12 DEF GuardNext

(* In every behaviour.                                                     *)
LEMMA GuardInductive == GuardSpec => []GuardInv
<1> QED BY GuardInitially, GuardStep, PTL DEF GuardSpec

(* The guards' state has its types: no more than MaxTokens tokens and      *)
(* MaxWindows windows are ever kept (opsAuth.ts, rateLimiter.ts).          *)
THEOREM GuardTypeCorrect == GuardSpec => []GuardTypeOK
<1>1. ASSUME GuardInv PROVE GuardTypeOK
  <2>1. setup \in Setups /\ mounted \subseteq Paths /\ second \in 0..LastSecond
        /\ withdrawn \subseteq Tokens /\ vetted \subseteq Tokens /\ asks \in 0..MaxAsks
    BY <1>1, GuardAssumption DEF GuardInv
  <2>2. known \in Seq(Tokens) /\ Len(known) <= MaxTokens
    BY <1>1 DEF GuardInv, TokenInv
  <2>3. request \in [Callers -> GuardRequests]
    BY <1>1 DEF GuardInv, RequestInv
  <2>4. /\ Len(windows) <= MaxWindows
        /\ \A i \in DOMAIN windows : windows[i].count \in 1..Limit
        /\ forgotten \subseteq {"voice", "upgrade"} \X Callers
    BY <1>1 DEF GuardInv, RateInv, LimiterKeys
  <2> QED BY <2>1, <2>2, <2>3, <2>4 DEF GuardTypeOK, GuardRequests
<1> QED BY <1>1, GuardInductive, PTL

(* Whatever the tokens, their expiry and revocation, the verifier's answers *)
(* and the windows: the three promises of the guards (opsAuth.ts           *)
(* authenticate and its token cache, rateLimiter.ts consume).              *)
THEOREM GuardsAlwaysHold == GuardSpec => []GuardsHold
<1>1. ASSUME GuardInv PROVE GuardsHold
  <2>1. IdentityAdmitted
    <3> SUFFICES ASSUME NEW c \in Callers, NEW r, r = request[c], r.at = "passed", r.path # "upgrade"
                 PROVE
      LET i == IF r.by = "static" THEN LocalIdentity ELSE Claims[r.token]
          ps == ToSet(Policies(r.path))
      IN IF r.by = "seed" THEN setup = "open" /\ \A p \in ps : p.seed
         ELSE /\ \A p \in ps : p.anyRole \/ i.role \in p.roles
              /\ r.tenant \in {"none", i.tenant}
              /\ r.by = "static" => r.token = "configured" /\ HasStatic
              /\ r.by = "verifier" =>
                   /\ WellFormed(i) /\ i.ours
                   /\ i.issued <= r.asked /\ i.from <= r.asked /\ r.asked < i.until
                   /\ r.token \in vetted
      BY DEF IdentityAdmitted
    <3>1. PassingOK(r, setup, vetted, second)
      BY <1>1 DEF GuardInv, RequestInv
    <3>2. AdmittedBy(r, setup, vetted)
      BY <3>1 DEF PassingOK
    <3> QED BY <3>2 DEF AdmittedBy, Admits, VouchedNow, HasStatic
  <2>2. CacheVetted
    <3>1. IsInjective(known) /\ \A n \in DOMAIN known : known[n] \in vetted
      BY <1>1 DEF GuardInv, TokenInv
    <3> QED BY <3>1 DEF CacheVetted, ToSet
  <2>3. RateBounded
    <3> SUFFICES ASSUME NEW t \in 0..second, NEW key \in LimiterKeys, key \notin forgotten
                 PROVE  Cardinality({i \in DOMAIN taken : taken[i].key = key /\ taken[i].at \in t..(t + Window - 1)})
                          < 2 * Limit
      BY DEF RateBounded, LimiterKeys
    <3>1. KeyOK(key) /\ taken \in Seq(Takings) /\ second \in Nat
      BY <1>1 DEF GuardInv, RateInv
    <3>2. t \in Nat /\ Window \in Nat
      BY <3>1, GuardAssumption
    <3>3. Cardinality(InSpan(taken, key, t, t + Window)) < 2 * Limit
      BY <3>1, <3>2 DEF KeyOK, SpansBounded
    <3>4. {i \in DOMAIN taken : taken[i].key = key /\ taken[i].at \in t..(t + Window - 1)}
            = InSpan(taken, key, t, t + Window)
      <4>1. \A i \in DOMAIN taken : taken[i].at \in Nat
        BY <3>1, Times
      <4>2. \A i \in DOMAIN taken :
              taken[i].at \in t..(t + Window - 1) <=> t <= taken[i].at /\ taken[i].at < t + Window
        BY <3>2, <4>1
      <4> QED BY <4>2 DEF InSpan
    <3> QED BY <3>3, <3>4
  <2> QED BY <2>1, <2>2, <2>3 DEF GuardsHold
<1> QED BY <1>1, GuardInductive, PTL

-----------------------------------------------------------------------------
(* THE PUBLIC FEEDS.  A request, field by field.                           *)
AllFeeds == Batches \cup Recordings \cup Proxied \cup {"overpass"}
Shaped(i) ==
  i = [feed |-> i.feed, box |-> i.box, least |-> i.least, state |-> i.state, fetches |-> i.fetches,
       pinned |-> i.pinned, held |-> i.held, query |-> i.query, reply |-> i.reply]
QueryOK(q) == q # <<>> /\ q[1].seconds \in 1..MostSeconds

(* What is known of a request whatever its state.                          *)
KnownOf(i) ==
  /\ Shaped(i)
  /\ i.feed \in AllFeeds \cup {"none"} /\ i.least \in Nat
  /\ i.state \in {"none", "replays", "resolves", "sent", "reads", "over"}
  /\ i.fetches \in 0..2 /\ i.held \in Seq(0..LastEdition)
  /\ i.feed \notin Batches \cup {"cctv", "radio"} => Unboxed(i)
  /\ i.fetches > 0 => i.pinned = "public" /\ ~Replayed(i.feed)
  /\ i.feed = "overpass" /\ (i.state \notin {"none", "over"} \/ i.fetches > 0) => QueryOK(i.query)
  /\ i.state # "over" => i.reply = NoReply

(* How many connections a request has open, and what it has fetched.       *)
Going(i, open) ==
  /\ i.state = "none" => i = NoInquiry /\ open = 0
  /\ i.state = "replays" => i.feed \in AllFeeds /\ Replayed(i.feed) /\ i.fetches = 0 /\ open = 0
  /\ i.state \in {"resolves", "sent", "reads"} =>
       i.feed \in AllFeeds /\ ~Replayed(i.feed) /\ open = i.fetches
  /\ i.state = "resolves" => Len(i.held) = i.fetches /\ (i.fetches = 0 \/ (i.fetches = 1 /\ i.feed = "gbfs"))
  /\ i.state = "sent" => Len(i.held) = i.fetches - 1 /\ (i.fetches = 1 \/ (i.fetches = 2 /\ i.feed = "gbfs"))
  /\ i.state = "reads" =>
       Len(i.held) = i.fetches /\ ((i.fetches = 1 /\ i.feed # "gbfs") \/ (i.fetches = 2 /\ i.feed = "gbfs"))

PublicInv ==
  /\ playback \in BOOLEAN /\ edition \in 0..LastEdition /\ agents \in 0..2 /\ quota \in -1..5
  /\ KnownOf(inquiry) /\ Going(inquiry, agents) /\ FeedsTrue

(* What an answer promises of its records.                                 *)
FeedSources == Recorded \cup UNION {Published[e] : e \in 0..LastEdition}
AnswerTrue(i, mode, records) ==
  /\ \A r \in records :
       /\ (~Unboxed(i) /\ ~(mode = "live" /\ i.feed \in {"ships", "firms"})) => r.at \in i.box.of
       /\ r.at # OffGlobe
       /\ i.feed = "quakes" => r.size >= i.least
       /\ \E s \in FeedSources : s.id = r.id
  /\ (Unboxed(i) /\ i.least = 0 /\ i.feed \in Batches) =>
       \A s \in (IF mode = "seed" THEN Recorded ELSE Published[i.held[1]]) :
         s.at \in Somewhere => \E r \in records : r.id = s.id

(* What the end of a request promises of the connections left open.        *)
LeftTrue(i, why, open) ==
  /\ open > 0 => \/ why \in {"http_error", "broken_off", "cut_off"}
                 \/ i.feed = "gbfs" /\ i.fetches + Len(i.held) > 1
  /\ why \in {"answered", "passed_on"} => open = 0

LEMMA EndsKnown ==
  ASSUME NEW i, KnownOf(i), NEW code, NEW why, NEW mode, NEW records, NEW time, Ends(i, code, why, mode, records, time)
  PROVE  /\ KnownOf(inquiry') /\ inquiry'.state = "over"
         /\ inquiry'.feed = i.feed /\ inquiry'.box = i.box /\ inquiry'.least = i.least
         /\ inquiry'.fetches = i.fetches /\ inquiry'.pinned = i.pinned /\ inquiry'.held = i.held
         /\ inquiry'.query = i.query /\ inquiry'.reply.code = code /\ inquiry'.reply.why = why
         /\ inquiry'.reply.mode = mode /\ inquiry'.reply.records = records
<1>1. PICK x, y : y = [code |-> code, why |-> why, mode |-> mode, records |-> records, time |-> time]
                  /\ x = [i EXCEPT !.state = "over", !.reply = y]
  OBVIOUS
<1>2. inquiry' = x
  BY <1>1 DEF Ends
<1>3. PICK f, b, l, s, n, p, h, q, r :
        i = [feed |-> f, box |-> b, least |-> l, state |-> s, fetches |-> n, pinned |-> p, held |-> h,
             query |-> q, reply |-> r]
  BY DEF KnownOf, Shaped
<1>4. x = [i EXCEPT !.state = "over", !.reply = y]
  BY ONLY <1>1
<1>5. x = [feed |-> f, box |-> b, least |-> l, state |-> "over", fetches |-> n, pinned |-> p, held |-> h,
           query |-> q, reply |-> y]
  BY ONLY <1>3, <1>4
<1>6. /\ x.feed = f /\ x.box = b /\ x.least = l /\ x.state = "over" /\ x.fetches = n /\ x.pinned = p
      /\ x.held = h /\ x.query = q /\ x.reply = y
  BY ONLY <1>5
<1>7. /\ i.feed = f /\ i.box = b /\ i.least = l /\ i.fetches = n /\ i.pinned = p /\ i.held = h /\ i.query = q
  BY ONLY <1>3
<1>8. y.code = code /\ y.why = why /\ y.mode = mode /\ y.records = records
  BY ONLY <1>1
<1>9. Shaped(x)
  BY <1>5, <1>6 DEF Shaped
<1>10. KnownOf(x)
  BY <1>6, <1>7, <1>9 DEF KnownOf, Unboxed
<1> QED BY <1>2, <1>6, <1>7, <1>8, <1>10

(* A request ends.                                                         *)
LEMMA EndsKeeps ==
  ASSUME PublicInv, NEW i, KnownOf(i), NEW code, NEW why, NEW mode \in {"none", "seed", "live"}, NEW records, NEW time,
         Ends(i, code, why, mode, records, time), NEW open \in 0..2, agents' = open, UNCHANGED <<playback, edition>>,
         quota' = quota, code = 200 => AnswerTrue(i, mode, records), LeftTrue(i, why, open),
         mode = "live" => i.held # <<>> /\ ~Replayed(i.feed)
  PROVE  PublicInv'
<1>1. PICK x : x = inquiry'
  OBVIOUS
<1>2. /\ KnownOf(x) /\ x.state = "over"
      /\ x.feed = i.feed /\ x.box = i.box /\ x.least = i.least /\ x.fetches = i.fetches /\ x.pinned = i.pinned
      /\ x.held = i.held /\ x.query = i.query /\ x.reply.code = code /\ x.reply.why = why
      /\ x.reply.mode = mode /\ x.reply.records = records
  BY <1>1, EndsKnown
<1>3. KnownOf(inquiry)'
  BY <1>1, <1>2 DEF KnownOf, Shaped, Replayed, Unboxed
<1>4. Going(inquiry, agents)'
  BY <1>1, <1>2 DEF Going
<1>5. AnswersAsked'
  BY <1>1, <1>2 DEF AnswersAsked, Says200, InquiryOver, AnswerTrue, Unboxed, FeedSources
<1>6. NothingLost'
  BY <1>1, <1>2 DEF NothingLost, Says200, InquiryOver, AnswerTrue, Unboxed
<1>7. ModesTrue'
  <2>1. x.fetches > 0 => ~Replayed(x.feed)
    BY <1>2 DEF KnownOf
  <2>2. x.fetches \in 0..2
    BY <1>2 DEF KnownOf
  <2> QED BY <1>1, <1>2, <2>1, <2>2 DEF ModesTrue, Says200, InquiryOver, Replayed
<1>8. ConnectionsKept'
  BY <1>1, <1>2 DEF ConnectionsKept, InquiryOver, LeftTrue, KnownOf
<1>9. QueriesBounded'
  BY <1>1, <1>2 DEF QueriesBounded, KnownOf, QueryOK
<1> QED BY <1>3, <1>4, <1>5, <1>6, <1>7, <1>8, <1>9 DEF PublicInv, FeedsTrue

(* A request goes on.                                                      *)
LEMMA GoesOnKeeps ==
  ASSUME PublicInv, NEW x, inquiry' = x, KnownOf(x), x.state # "over", NEW open \in 0..2, agents' = open,
         Going(x, open), UNCHANGED playback, edition' \in 0..LastEdition, quota' \in -1..5
  PROVE  PublicInv'
<1>1. KnownOf(inquiry)'
  BY DEF KnownOf, Shaped, Replayed, Unboxed
<1>2. Going(inquiry, agents)'
  BY DEF Going, Replayed
<1>3. x.reply.mode = "none" /\ x.fetches \in 0..2 /\ (x.fetches > 0 => x.pinned = "public" /\ ~Replayed(x.feed))
  BY DEF KnownOf, NoReply
<1>4. AnswersAsked' /\ NothingLost' /\ ConnectionsKept'
  BY <1>3 DEF AnswersAsked, NothingLost, ConnectionsKept, Says200, InquiryOver
<1>5. ModesTrue'
  BY <1>3 DEF ModesTrue, Says200, InquiryOver, Replayed
<1>6. QueriesBounded'
  BY <1>3 DEF QueriesBounded, KnownOf, QueryOK
<1> QED BY <1>1, <1>2, <1>4, <1>5, <1>6 DEF PublicInv, FeedsTrue

(* A request that fails says so, with nothing beside it.                   *)
LEMMA FailsKeeps ==
  ASSUME PublicInv, NEW i, KnownOf(i), i.feed \in AllFeeds, NEW why, Fails(i, why), NEW open \in 0..2,
         agents' = open, UNCHANGED <<playback, edition, quota>>, LeftTrue(i, why, open)
  PROVE  PublicInv'
<1>1. Ends(i, FailureCode(i.feed), why, "none", {}, 0)
  BY DEF Fails
<1>2. FailureCode(i.feed) = 200 => i.feed = "check"
  BY DEF FailureCode, AllFeeds, Batches, Recordings, Proxied
<1>3. FailureCode(i.feed) = 200 => AnswerTrue(i, "none", {})
  BY <1>2 DEF AnswerTrue, Batches
<1> QED BY <1>1, <1>3, EndsKeeps

-----------------------------------------------------------------------------
(* A request as its route makes it.                                        *)
NewInquiry(f, b, n, q) ==
  [feed |-> f, box |-> b, least |-> n, state |-> "none", fetches |-> 0, pinned |-> "none",
   held |-> <<>>, query |-> q, reply |-> NoReply]
NoBox == [given |-> "none", of |-> {}]

LEMMA FreshFields ==
  ASSUME NEW f, NEW b, NEW n, NEW q
  PROVE  LET i == NewInquiry(f, b, n, q)
         IN /\ i.feed = f /\ i.box = b /\ i.least = n /\ i.state = "none" /\ i.fetches = 0
            /\ i.pinned = "none" /\ i.held = <<>> /\ i.query = q /\ i.reply = NoReply /\ Shaped(i)
  BY DEF NewInquiry, Shaped

LEMMA FreshKnown ==
  ASSUME NEW f \in AllFeeds, NEW b, NEW n \in Nat, NEW q,
         f \notin Batches \cup {"cctv", "radio"} => b.given # "whole"
  PROVE  KnownOf(NewInquiry(f, b, n, q))
<1>1. PICK i : i = NewInquiry(f, b, n, q)
  OBVIOUS
<1>2. /\ i.feed = f /\ i.box = b /\ i.least = n /\ i.state = "none" /\ i.fetches = 0
      /\ i.pinned = "none" /\ i.held = <<>> /\ i.query = q /\ i.reply = NoReply /\ Shaped(i)
  BY <1>1, FreshFields
<1>3. i.held \in Seq(0..LastEdition)
  BY <1>2
<1> QED BY <1>1, <1>2, <1>3 DEF KnownOf, Unboxed

LEMMA BeginsKeeps ==
  ASSUME PublicInv, NEW f \in AllFeeds, NEW b, NEW n \in Nat, NEW q,
         f \notin Batches \cup {"cctv", "radio"} => b.given # "whole", f = "overpass" => QueryOK(q),
         Begins(NewInquiry(f, b, n, q))
  PROVE  PublicInv'
<1>1. PICK i, s : /\ i = NewInquiry(f, b, n, q) /\ s = IF Replayed(f) THEN "replays" ELSE "resolves"
  OBVIOUS
<1>2. /\ i.feed = f /\ i.box = b /\ i.least = n /\ i.state = "none" /\ i.fetches = 0
      /\ i.pinned = "none" /\ i.held = <<>> /\ i.query = q /\ i.reply = NoReply
  BY <1>1, FreshFields
<1>3. PICK x : x = [feed |-> f, box |-> b, least |-> n, state |-> s, fetches |-> 0, pinned |-> "none",
                    held |-> <<>>, query |-> q, reply |-> NoReply]
  OBVIOUS
<1>4. [NewInquiry(f, b, n, q) EXCEPT !.state = s] = x
  BY <1>3 DEF NewInquiry
<1>5. inquiry' = x /\ inquiry = NoInquiry /\ UNCHANGED <<playback, edition, agents, quota>>
  BY <1>1, <1>2, <1>4 DEF Begins
<1>6. /\ x.feed = f /\ x.box = b /\ x.least = n /\ x.state = s /\ x.fetches = 0 /\ x.pinned = "none"
      /\ x.held = <<>> /\ x.query = q /\ x.reply = NoReply
  BY ONLY <1>3
<1>7. Shaped(x)
  BY <1>3, <1>6 DEF Shaped
<1>8. x.held \in Seq(0..LastEdition) /\ Len(x.held) = 0
  BY <1>6
<1>9. KnownOf(x)
  BY <1>1, <1>6, <1>7, <1>8 DEF KnownOf, Unboxed
<1>10. inquiry.state = "none"
  BY <1>5 DEF NoInquiry
<1>11. agents = 0
  BY <1>10 DEF PublicInv, Going
<1>12. Going(x, 0)
  BY <1>1, <1>6, <1>8 DEF Going
<1> QED BY <1>1, <1>5, <1>6, <1>9, <1>11, <1>12, GoesOnKeeps DEF PublicInv

LEMMA RefusesKeeps ==
  ASSUME PublicInv, NEW f \in AllFeeds, NEW q, NEW b, b.given # "whole" \/ f = "flights", NEW code, NEW why,
         code = 200 => f = "check", Refuses(NewInquiry(f, b, 0, q), code, why)
  PROVE  PublicInv'
<1>1. PICK i : i = NewInquiry(f, b, 0, q)
  OBVIOUS
<1>2. KnownOf(i) /\ i.feed = f
  <2>1. f \notin Batches \cup {"cctv", "radio"} => b.given # "whole"
    BY DEF Batches
  <2>2. KnownOf(NewInquiry(f, b, 0, q))
    BY <2>1, FreshKnown
  <2> QED BY <1>1, <2>2, FreshFields
<1>3. Ends(i, code, why, "none", {}, 0) /\ inquiry = NoInquiry /\ UNCHANGED <<playback, edition, agents, quota>>
  BY <1>1 DEF Refuses
<1>4. inquiry.state = "none"
  BY <1>3 DEF NoInquiry
<1>5. agents = 0
  BY <1>4 DEF PublicInv, Going
<1>6. code = 200 => AnswerTrue(i, "none", {})
  BY <1>2 DEF AnswerTrue, Batches
<1>7. LeftTrue(i, why, 0)
  BY DEF LeftTrue
<1>8. agents' = 0 /\ quota' = quota /\ UNCHANGED <<playback, edition>> /\ 0 \in 0..2
  BY <1>3, <1>5
<1>9. PICK mode, records : mode = "none" /\ records = {}
  OBVIOUS
<1>10. mode \in {"none", "seed", "live"} /\ mode # "live"
  BY <1>9
<1>11. Ends(i, code, why, mode, records, 0) /\ (code = 200 => AnswerTrue(i, mode, records))
  BY <1>3, <1>6, <1>9
<1>12. PICK time, open : time = 0 /\ open = 0
  OBVIOUS
<1>13. Ends(i, code, why, mode, records, time) /\ LeftTrue(i, why, open) /\ agents' = open /\ open \in 0..2
  BY <1>7, <1>8, <1>11, <1>12
<1> QED BY ONLY PublicInv, <1>2, <1>8, <1>10, <1>11, <1>13, EndsKeeps

(* A route sets the fields of a request that it takes from the caller.     *)
LEMMA Plain == NoInquiry = NewInquiry("none", NoBox, 0, <<>>)
  BY DEF NoInquiry, NewInquiry, NoBox
LEMMA Makes ==
  ASSUME NEW f, NEW b, NEW n, NEW q
  PROVE  /\ [NoInquiry EXCEPT !.feed = f] = NewInquiry(f, NoBox, 0, <<>>)
         /\ [NoInquiry EXCEPT !.feed = f, !.box = b] = NewInquiry(f, b, 0, <<>>)
         /\ [NoInquiry EXCEPT !.feed = f, !.box = b, !.least = n] = NewInquiry(f, b, n, <<>>)
         /\ [NoInquiry EXCEPT !.feed = f, !.query = q] = NewInquiry(f, NoBox, 0, q)
<1>1. PICK d, e, r, w, i : d = NoBox /\ e = <<>> /\ r = NoReply /\ w = "none" /\ i = NoInquiry
  OBVIOUS
<1>2. i = [feed |-> w, box |-> d, least |-> 0, state |-> w, fetches |-> 0, pinned |-> w,
           held |-> e, query |-> e, reply |-> r]
  BY <1>1, Plain DEF NewInquiry
<1>3. PICK x1, x2, x3, x4 :
        /\ x1 = [i EXCEPT !.feed = f] /\ x2 = [i EXCEPT !.feed = f, !.box = b]
        /\ x3 = [i EXCEPT !.feed = f, !.box = b, !.least = n] /\ x4 = [i EXCEPT !.feed = f, !.query = q]
  OBVIOUS
<1>4. x1 = [feed |-> f, box |-> d, least |-> 0, state |-> w, fetches |-> 0, pinned |-> w,
            held |-> e, query |-> e, reply |-> r]
  BY ONLY <1>2, <1>3
<1>5. x2 = [feed |-> f, box |-> b, least |-> 0, state |-> w, fetches |-> 0, pinned |-> w,
            held |-> e, query |-> e, reply |-> r]
  BY ONLY <1>2, <1>3
<1>6. x3 = [feed |-> f, box |-> b, least |-> n, state |-> w, fetches |-> 0, pinned |-> w,
            held |-> e, query |-> e, reply |-> r]
  BY ONLY <1>2, <1>3
<1>7. x4 = [feed |-> f, box |-> d, least |-> 0, state |-> w, fetches |-> 0, pinned |-> w,
            held |-> e, query |-> q, reply |-> r]
  BY ONLY <1>2, <1>3
<1> QED BY <1>1, <1>3, <1>4, <1>5, <1>6, <1>7 DEF NewInquiry

(* What the routes do with the limits of a request.                        *)
LEMMA OrdinaryKeeps ==
  ASSUME PublicInv, NEW f \in Batches \cup {"cctv", "radio"}, NEW b, NEW n \in Nat, Begins(NewInquiry(f, b, n, <<>>))
  PROVE  PublicInv'
<1>1. f \in AllFeeds /\ f # "overpass"
  BY DEF AllFeeds, Batches, Recordings
<1> QED BY <1>1, BeginsKeeps

LEMMA AsksKeep ==
  ASSUME PublicInv, NEW b \in Boxings, NEW n \in 0..3
  PROVE  /\ AskFlights(b) \/ AskShips(b) \/ AskHotspots(b) \/ AskStations(b) => PublicInv'
         /\ AskQuakes(b, n) \/ AskCameras(b, n) \/ AskRadio(b, n) => PublicInv'
<1>1. AskFlights(b) => PublicInv'
  <2> SUFFICES ASSUME AskFlights(b) PROVE PublicInv'
    OBVIOUS
  <2>1. PICK i : i = [NoInquiry EXCEPT !.feed = "flights", !.box = b]
    OBVIOUS
  <2>2. i = NewInquiry("flights", b, 0, <<>>)
    BY <2>1, Makes
  <2>3. IF b.given \in {"half", "broken"} THEN Refuses(i, 400, "box") ELSE Begins(i)
    BY <2>1 DEF AskFlights
  <2>4. "flights" \in AllFeeds /\ "flights" \in Batches
    BY DEF AllFeeds, Batches
  <2>5. CASE b.given \in {"half", "broken"}
    <3>1. Refuses(NewInquiry("flights", b, 0, <<>>), 400, "box")
      BY <2>2, <2>3, <2>5
    <3> QED BY <2>4, <3>1, RefusesKeeps
  <2>6. CASE b.given \notin {"half", "broken"}
    BY <2>2, <2>3, <2>4, <2>6, OrdinaryKeeps
  <2> QED BY <2>5, <2>6
<1>2. AskShips(b) \/ AskHotspots(b) \/ AskStations(b) => \E f \in Batches : Begins(NewInquiry(f, b, 0, <<>>))
  <2>1. "ships" \in Batches /\ "firms" \in Batches /\ "gbfs" \in Batches
    BY DEF Batches
  <2>2. AskShips(b) => Begins(NewInquiry("ships", b, 0, <<>>))
    <3>1. PICK i : i = [NoInquiry EXCEPT !.feed = "ships", !.box = b]
      OBVIOUS
    <3>2. i = NewInquiry("ships", b, 0, <<>>)
      BY <3>1, Makes
    <3> QED BY <3>1, <3>2 DEF AskShips
  <2>3. AskHotspots(b) => Begins(NewInquiry("firms", b, 0, <<>>))
    <3>1. PICK i : i = [NoInquiry EXCEPT !.feed = "firms", !.box = b]
      OBVIOUS
    <3>2. i = NewInquiry("firms", b, 0, <<>>)
      BY <3>1, Makes
    <3> QED BY <3>1, <3>2 DEF AskHotspots
  <2>4. AskStations(b) => Begins(NewInquiry("gbfs", b, 0, <<>>))
    <3>1. PICK i : i = [NoInquiry EXCEPT !.feed = "gbfs", !.box = b]
      OBVIOUS
    <3>2. i = NewInquiry("gbfs", b, 0, <<>>)
      BY <3>1, Makes
    <3> QED BY <3>1, <3>2 DEF AskStations
  <2> QED BY <2>1, <2>2, <2>3, <2>4
<1>3. AskQuakes(b, n) \/ AskCameras(b, n) =>
        \E f \in Batches \cup {"cctv", "radio"} : Begins(NewInquiry(f, b, n, <<>>))
  <2>1. "quakes" \in Batches
    BY DEF Batches
  <2>2. AskQuakes(b, n) => Begins(NewInquiry("quakes", b, n, <<>>))
    <3>1. PICK i : i = [NoInquiry EXCEPT !.feed = "quakes", !.box = b, !.least = n]
      OBVIOUS
    <3>2. i = NewInquiry("quakes", b, n, <<>>)
      BY <3>1, Makes
    <3> QED BY <3>1, <3>2 DEF AskQuakes
  <2>3. AskCameras(b, n) => Begins(NewInquiry("cctv", b, n, <<>>))
    <3>1. PICK i : i = [NoInquiry EXCEPT !.feed = "cctv", !.box = b, !.least = n]
      OBVIOUS
    <3>2. i = NewInquiry("cctv", b, n, <<>>)
      BY <3>1, Makes
    <3> QED BY <3>1, <3>2 DEF AskCameras
  <2> QED BY <2>1, <2>2, <2>3
<1>4. AskRadio(b, n) => \E c \in Nat : Begins(NewInquiry("radio", b, c, <<>>))
  <2>1. PICK c \in Nat : c = IF n \in 1..2 THEN n ELSE 0
    OBVIOUS
  <2>2. PICK i : i = [NoInquiry EXCEPT !.feed = "radio", !.box = b, !.least = c]
    OBVIOUS
  <2>3. i = NewInquiry("radio", b, c, <<>>)
    BY <2>2, Makes
  <2> QED BY <2>1, <2>2, <2>3 DEF AskRadio
<1>5. "radio" \in Batches \cup {"cctv", "radio"} /\ 0 \in Nat /\ n \in Nat
  OBVIOUS
<1>6. \A f \in Batches \cup {"cctv", "radio"}, c \in Nat : Begins(NewInquiry(f, b, c, <<>>)) => PublicInv'
  BY OrdinaryKeeps
<1> QED BY <1>1, <1>2, <1>3, <1>4, <1>5, <1>6

LEMMA PlainAsksKeep == ASSUME PublicInv, AskLaunches \/ AskWeather PROVE PublicInv'
<1>1. PICK f \in {"launches", "weather"} : Begins([NoInquiry EXCEPT !.feed = f])
  BY DEF AskLaunches, AskWeather
<1>2. Begins(NewInquiry(f, NoBox, 0, <<>>))
  <2>1. PICK i : i = [NoInquiry EXCEPT !.feed = f]
    OBVIOUS
  <2>2. i = NewInquiry(f, NoBox, 0, <<>>)
    BY <2>1, Makes
  <2> QED BY <1>1, <2>1, <2>2
<1>3. f \in AllFeeds /\ f # "overpass" /\ NoBox.given # "whole"
  BY DEF AllFeeds, Recordings, NoBox
<1> QED BY <1>2, <1>3, BeginsKeeps

(* A map query that is let through is within bounds.                       *)
LEMMA SanitizedOK ==
  ASSUME NEW q \in MapQueries, Sanitized(q) # <<>>
  PROVE  QueryOK(Sanitized(q))
<1>1. PICK s, name : /\ s = (CASE q.seconds = 0 -> q.default
                               [] q.seconds > MostSeconds -> MostSeconds
                               [] OTHER -> q.seconds)
                     /\ Sanitized(q) = <<[box |-> name, seconds |-> s]>>
  BY DEF Sanitized
<1>2. MostSeconds \in Nat \ {0} /\ q.seconds \in Nat /\ q.default \in 1..MostSeconds
  BY PublicAssumption
<1>3. s \in 1..MostSeconds
  BY <1>1, <1>2
<1> QED BY <1>1, <1>3 DEF QueryOK

LEMMA MapQueryKeeps == ASSUME PublicInv, NEW q \in MapQueries, AskMapQuery(q) PROVE PublicInv'
<1>1. PICK s : s = Sanitized(q)
  OBVIOUS
<1>2. [NoInquiry EXCEPT !.feed = "overpass", !.query = s] = NewInquiry("overpass", NoBox, 0, s)
  BY Makes
<1>3. "overpass" \in AllFeeds /\ NoBox.given # "whole"
  BY DEF AllFeeds, NoBox
<1>4. PICK i : i = [NoInquiry EXCEPT !.feed = "overpass", !.query = s]
  OBVIOUS
<1>5. IF s = <<>> THEN Refuses(i, 400, "query") ELSE Begins(i)
  BY <1>1, <1>4 DEF AskMapQuery
<1>6. CASE s = <<>>
  BY <1>2, <1>3, <1>4, <1>5, <1>6, RefusesKeeps
<1>7. CASE s # <<>>
  <2>1. QueryOK(s)
    BY <1>1, <1>7, SanitizedOK
  <2>2. Begins(NewInquiry("overpass", NoBox, 0, s))
    BY <1>2, <1>4, <1>5, <1>7
  <2> QED BY <1>3, <2>1, <2>2, BeginsKeeps
<1> QED BY <1>6, <1>7

LEMMA ProxiesKeep ==
  ASSUME PublicInv, NEW listed \in BOOLEAN, NEW allowed \in BOOLEAN,
         AskSnapshot(listed, allowed) \/ AskStream(listed, allowed) \/ CheckHealth(allowed)
  PROVE  PublicInv'
<1>1. NoBox.given # "whole"
  BY DEF NoBox
<1>2. "snapshot" \in AllFeeds /\ "stream" \in AllFeeds /\ "check" \in AllFeeds
  BY DEF AllFeeds, Proxied
<1>3. /\ [NoInquiry EXCEPT !.feed = "snapshot"] = NewInquiry("snapshot", NoBox, 0, <<>>)
      /\ [NoInquiry EXCEPT !.feed = "stream"] = NewInquiry("stream", NoBox, 0, <<>>)
      /\ [NoInquiry EXCEPT !.feed = "check"] = NewInquiry("check", NoBox, 0, <<>>)
  BY Makes
<1>4. AskSnapshot(listed, allowed) => PublicInv'
  <2>1. AskSnapshot(listed, allowed) =>
          \/ Refuses(NewInquiry("snapshot", NoBox, 0, <<>>), 404, "unknown")
          \/ Refuses(NewInquiry("snapshot", NoBox, 0, <<>>), 502, "not_allowed")
          \/ Begins(NewInquiry("snapshot", NoBox, 0, <<>>))
    BY <1>3 DEF AskSnapshot
  <2> QED BY <1>1, <1>2, <2>1, RefusesKeeps, BeginsKeeps
<1>5. AskStream(listed, allowed) => PublicInv'
  <2>1. AskStream(listed, allowed) =>
          \/ Refuses(NewInquiry("stream", NoBox, 0, <<>>), 404, "unknown")
          \/ Refuses(NewInquiry("stream", NoBox, 0, <<>>), 502, "not_allowed")
          \/ Begins(NewInquiry("stream", NoBox, 0, <<>>))
    BY <1>3 DEF AskStream
  <2> QED BY <1>1, <1>2, <2>1, RefusesKeeps, BeginsKeeps
<1>6. CheckHealth(allowed) => PublicInv'
  <2>1. CheckHealth(allowed) => \/ Refuses(NewInquiry("check", NoBox, 0, <<>>), 200, "not_allowed")
                                \/ Begins(NewInquiry("check", NoBox, 0, <<>>))
    BY <1>3 DEF CheckHealth
  <2> QED BY <1>1, <1>2, <2>1, RefusesKeeps, BeginsKeeps
<1> QED BY <1>4, <1>5, <1>6

-----------------------------------------------------------------------------
(* What is kept of the records of a source is theirs, in the box and of    *)
(* the size asked for; without limits every one in bounds is kept.         *)
LEMMA KeptTrue ==
  ASSUME NEW i, KnownOf(i), NEW records, \A r \in records : r.size \in Nat, NEW live \in BOOLEAN,
         i.feed \in Batches \cup Recordings
  PROVE  /\ Kept(i, records, live) \subseteq records
         /\ \A r \in Kept(i, records, live) :
              /\ (~Unboxed(i) /\ ~(live /\ i.feed \in {"ships", "firms"})) => r.at \in i.box.of
              /\ i.feed = "flights" => r.at # OffGlobe
              /\ i.feed = "quakes" => r.size >= i.least
         /\ (Unboxed(i) /\ i.least = 0 /\ i.feed \in Batches) =>
              \A s \in records : s.at \in Somewhere => s \in Kept(i, records, live)
<1>1. i.feed \in {"launches", "weather"} => Unboxed(i)
  BY DEF KnownOf, Batches
<1>2. CASE i.feed = "flights"
  BY <1>2 DEF Kept, KeptFlights, InBox, Somewhere, OffGlobe
<1>3. CASE i.feed = "quakes"
  BY <1>3 DEF Kept, KeptQuakes, InBox
<1>4. CASE i.feed = "ships"
  BY <1>4 DEF Kept, KeptShips, InBox
<1>5. CASE i.feed = "firms"
  BY <1>5 DEF Kept, KeptHotspots, InBox, Somewhere, Nowhere
<1>6. CASE i.feed = "gbfs"
  BY <1>6 DEF Kept, InBox
<1>7. CASE i.feed = "cctv"
  BY <1>7 DEF Kept, KeptCameras, InBox, Batches
<1>8. CASE i.feed = "radio"
  BY <1>8 DEF Kept, KeptRadio, InBox, Batches
<1>9. CASE i.feed \in {"launches", "weather"}
  BY <1>1, <1>9 DEF Kept, Batches
<1> QED BY <1>2, <1>3, <1>4, <1>5, <1>6, <1>7, <1>8, <1>9 DEF Batches, Recordings

LEMMA ReplayKeeps == ASSUME PublicInv, NEW readable \in BOOLEAN, Replay(readable) PROVE PublicInv'
<1>1. PICK kept : kept = IF inquiry.feed \in {"check", "overpass"} THEN {} ELSE Kept(inquiry, Recorded, FALSE)
  OBVIOUS
<1>2. /\ inquiry.state = "replays" /\ UNCHANGED <<playback, edition, agents, quota>>
      /\ IF readable THEN Ends(inquiry, 200, "replayed", "seed", kept, 0) ELSE Fails(inquiry, "fixture")
  BY <1>1 DEF Replay
<1>3. KnownOf(inquiry) /\ Replayed(inquiry.feed) /\ agents = 0 /\ inquiry.feed \in AllFeeds \cup {"none"}
  BY <1>2 DEF PublicInv, Going, KnownOf
<1>4. LeftTrue(inquiry, "replayed", 0) /\ LeftTrue(inquiry, "fixture", 0)
  BY DEF LeftTrue
<1>5. inquiry.feed \in AllFeeds
  BY <1>2 DEF PublicInv, Going
<1>6. CASE ~readable
  <2>1. Fails(inquiry, "fixture") /\ agents' = 0 /\ 0 \in 0..2
    BY <1>2, <1>3, <1>6
  <2> QED BY <1>2, <1>3, <1>4, <1>5, <2>1, FailsKeeps
<1>7. CASE readable
  <2>1. Ends(inquiry, 200, "replayed", "seed", kept, 0) /\ agents' = 0 /\ 0 \in 0..2
    BY <1>2, <1>3, <1>7
  <2>2. AnswerTrue(inquiry, "seed", kept)
    <3>1. CASE inquiry.feed \in {"check", "overpass"}
      BY <1>1, <3>1 DEF AnswerTrue, Batches
    <3>2. CASE inquiry.feed \notin {"check", "overpass"}
      <4>1. inquiry.feed \in Batches \cup Recordings
        BY <1>3, <1>5, <3>2 DEF AllFeeds, Proxied, Replayed
      <4>2. \A r \in Recorded : r.size \in Nat /\ r.at # OffGlobe
        BY PublicAssumption
      <4>3. kept = Kept(inquiry, Recorded, FALSE) /\ kept \subseteq Recorded
        BY <1>1, <1>3, <3>2, <4>1, <4>2, KeptTrue
      <4>4. \A r \in kept : /\ ~Unboxed(inquiry) => r.at \in inquiry.box.of
                            /\ inquiry.feed = "quakes" => r.size >= inquiry.least
        BY <1>3, <4>1, <4>2, <4>3, KeptTrue
      <4>5. (Unboxed(inquiry) /\ inquiry.least = 0 /\ inquiry.feed \in Batches) =>
               \A s \in Recorded : s.at \in Somewhere => s \in kept
        BY <1>3, <4>1, <4>2, <4>3, KeptTrue
      <4> QED BY <4>2, <4>3, <4>4, <4>5 DEF AnswerTrue, FeedSources
    <3> QED BY <3>1, <3>2
  <2>3. UNCHANGED <<playback, edition>> /\ quota' = quota /\ "seed" \in {"none", "seed", "live"}
    BY <1>2
  <2>4. PICK i : i = inquiry
    OBVIOUS
  <2>5. /\ KnownOf(i) /\ Ends(i, 200, "replayed", "seed", kept, 0) /\ LeftTrue(i, "replayed", 0)
        /\ AnswerTrue(i, "seed", kept)
    BY <1>3, <1>4, <2>1, <2>2, <2>4
  <2> QED BY ONLY PublicInv, <2>1, <2>3, <2>5, EndsKeeps
<1> QED BY <1>6, <1>7

-----------------------------------------------------------------------------
(* A live request: its host, its response and its body.                    *)
LEMMA ResolveKeeps ==
  ASSUME PublicInv, NEW found \in SUBSET {"public", "private"}, ResolveHost(found)
  PROVE  PublicInv'
<1>1. /\ inquiry.state = "resolves" /\ KnownOf(inquiry) /\ inquiry.feed \in AllFeeds /\ ~Replayed(inquiry.feed)
      /\ agents = inquiry.fetches /\ Len(inquiry.held) = inquiry.fetches
      /\ inquiry.fetches = 0 \/ (inquiry.fetches = 1 /\ inquiry.feed = "gbfs")
      /\ agents \in 0..2 /\ UNCHANGED <<playback, edition, quota>>
  BY DEF ResolveHost, PublicInv, Going
<1>2. CASE ~Valid(found)
  <2>1. Fails(inquiry, "address") /\ agents' = agents
    BY <1>2 DEF ResolveHost
  <2>2. LeftTrue(inquiry, "address", agents)
    BY <1>1 DEF LeftTrue
  <2> QED BY <1>1, <2>1, <2>2, FailsKeeps
<1>3. CASE Valid(found)
  <2>1. /\ inquiry' = [inquiry EXCEPT !.state = "sent", !.pinned = "public", !.fetches = @ + 1]
        /\ agents' = agents + 1
    BY <1>3 DEF ResolveHost, Valid
  <2>2. PICK x, n : n = inquiry.fetches + 1
                    /\ x = [inquiry EXCEPT !.state = "sent", !.pinned = "public", !.fetches = n]
    OBVIOUS
  <2>3. inquiry' = x
    BY <2>1, <2>2
  <2>4. PICK f, b, l, s, m, p, h, q, r :
          inquiry = [feed |-> f, box |-> b, least |-> l, state |-> s, fetches |-> m, pinned |-> p, held |-> h,
                     query |-> q, reply |-> r]
    BY <1>1 DEF KnownOf, Shaped
  <2>5. x = [feed |-> f, box |-> b, least |-> l, state |-> "sent", fetches |-> n, pinned |-> "public", held |-> h,
             query |-> q, reply |-> r]
    BY ONLY <2>2, <2>4
  <2>6. /\ x.feed = f /\ x.box = b /\ x.least = l /\ x.state = "sent" /\ x.fetches = n /\ x.pinned = "public"
        /\ x.held = h /\ x.query = q /\ x.reply = r
    BY ONLY <2>5
  <2>7. /\ inquiry.feed = f /\ inquiry.box = b /\ inquiry.least = l /\ inquiry.fetches = m /\ inquiry.held = h
        /\ inquiry.query = q /\ inquiry.reply = r
    BY ONLY <2>4
  <2>8. Shaped(x)
    BY <2>5, <2>6 DEF Shaped
  <2>9. m \in 0..1 /\ n = m + 1
    BY <1>1, <2>2, <2>7
  <2>10. KnownOf(x)
    BY <1>1, <2>6, <2>7, <2>8, <2>9 DEF KnownOf, Unboxed
  <2>11. Going(x, agents + 1) /\ agents + 1 \in 0..2
    BY <1>1, <2>6, <2>7, <2>9 DEF Going
  <2> QED BY <1>1, <2>1, <2>3, <2>6, <2>10, <2>11, GoesOnKeeps DEF PublicInv
<1> QED BY <1>2, <1>3

LEMMA NotFetchedKeeps ==
  ASSUME PublicInv, NEW why \in {"timeout", "redirect", "length"}, NotFetched(why)
  PROVE  PublicInv'
<1>1. /\ KnownOf(inquiry) /\ inquiry.feed \in AllFeeds /\ agents = inquiry.fetches
      /\ Len(inquiry.held) = inquiry.fetches - 1
      /\ inquiry.fetches = 1 \/ (inquiry.fetches = 2 /\ inquiry.feed = "gbfs")
      /\ Fails(inquiry, why) /\ agents' = agents - 1 /\ UNCHANGED <<playback, edition, quota>>
  BY DEF NotFetched, PublicInv, Going
<1>2. agents - 1 \in 0..2 /\ LeftTrue(inquiry, why, agents - 1)
  BY <1>1 DEF LeftTrue
<1> QED BY <1>1, <1>2, FailsKeeps

LEMMA StatusNotOkKeeps ==
  ASSUME PublicInv, NEW hasBody \in BOOLEAN, StatusNotOk(hasBody)
  PROVE  PublicInv'
<1>1. /\ KnownOf(inquiry) /\ inquiry.feed \in AllFeeds /\ agents \in 1..2
      /\ Fails(inquiry, "http_error") /\ UNCHANGED <<playback, edition, quota>>
  BY DEF StatusNotOk, PublicInv, Going
<1>2. PICK open \in 0..2 : agents' = open
  BY <1>1 DEF StatusNotOk
<1>3. LeftTrue(inquiry, "http_error", open)
  BY DEF LeftTrue
<1> QED BY <1>1, <1>2, <1>3, FailsKeeps

LEMMA HeadKeeps ==
  ASSUME PublicInv, NEW remaining \in {-1, 5}, HeadArrives(remaining)
  PROVE  PublicInv'
<1>1. /\ KnownOf(inquiry) /\ inquiry.feed \in AllFeeds /\ ~Replayed(inquiry.feed) /\ agents = inquiry.fetches
      /\ Len(inquiry.held) = inquiry.fetches - 1 /\ inquiry.held \in Seq(0..LastEdition)
      /\ inquiry.fetches = 1 \/ (inquiry.fetches = 2 /\ inquiry.feed = "gbfs")
      /\ edition \in 0..LastEdition /\ quota \in -1..5 /\ UNCHANGED <<playback, edition, agents>>
      /\ inquiry.state = "sent"
  BY DEF HeadArrives, PublicInv, Going, KnownOf
<1>2. PICK held, s, x :
        /\ held = Append(inquiry.held, edition)
        /\ s = IF inquiry.feed = "gbfs" /\ Len(held) = 1 THEN "resolves" ELSE "reads"
        /\ x = [inquiry EXCEPT !.held = held, !.state = s]
  OBVIOUS
<1>3. inquiry' = x /\ quota' \in -1..5
  BY <1>1, <1>2 DEF HeadArrives
<1>4. held \in Seq(0..LastEdition) /\ Len(held) = inquiry.fetches
  BY <1>1, <1>2
<1>5. PICK f, b, l, t, m, p, h, q, r :
        inquiry = [feed |-> f, box |-> b, least |-> l, state |-> t, fetches |-> m, pinned |-> p, held |-> h,
                   query |-> q, reply |-> r]
  BY <1>1 DEF KnownOf, Shaped
<1>6. x = [inquiry EXCEPT !.held = held, !.state = s]
  BY ONLY <1>2
<1>7. x = [feed |-> f, box |-> b, least |-> l, state |-> s, fetches |-> m, pinned |-> p, held |-> held,
           query |-> q, reply |-> r]
  BY ONLY <1>5, <1>6
<1>8. /\ x.feed = f /\ x.box = b /\ x.least = l /\ x.state = s /\ x.fetches = m /\ x.pinned = p
      /\ x.held = held /\ x.query = q /\ x.reply = r
  BY ONLY <1>7
<1>9. /\ inquiry.feed = f /\ inquiry.box = b /\ inquiry.least = l /\ inquiry.fetches = m /\ inquiry.pinned = p
      /\ inquiry.query = q /\ inquiry.reply = r
  BY ONLY <1>5
<1>10. Shaped(x)
  BY <1>7, <1>8 DEF Shaped
<1>11. KnownOf(x)
  BY <1>1, <1>2, <1>4, <1>8, <1>9, <1>10 DEF KnownOf, Unboxed
<1>12. Going(x, agents)
  BY <1>1, <1>2, <1>4, <1>8, <1>9 DEF Going
<1>13. x.state # "over" /\ agents \in 0..2 /\ agents' = agents /\ edition' \in 0..LastEdition /\ UNCHANGED playback
  BY <1>1, <1>2, <1>8 DEF PublicInv
<1> QED BY <1>3, <1>11, <1>12, <1>13, GoesOnKeeps

LEMMA PublishesKeeps == ASSUME PublicInv, Publishes PROVE PublicInv'
<1>1. PICK x : x = inquiry
  OBVIOUS
<1>2. /\ x.state \in {"sent", "resolves", "reads"} /\ edition' \in 0..LastEdition
      /\ UNCHANGED <<playback, agents, quota>> /\ inquiry' = x
  BY <1>1, PublicAssumption DEF Publishes, PublicInv
<1>3. KnownOf(x) /\ Going(x, agents) /\ agents \in 0..2 /\ quota \in -1..5
  BY <1>1 DEF PublicInv
<1> QED BY <1>2, <1>3, GoesOnKeeps

(* A reply that no schema refuses is answered with what it says.           *)
LEMMA AnswerIsTrue ==
  ASSUME NEW i, KnownOf(i), i.feed \in Batches, NEW first \in 0..LastEdition, first = i.held[1], NEW whole,
         Published[first] \subseteq whole, ~RefusedReply(i.feed, whole), NEW records,
         \/ i.feed # "gbfs" /\ records = Published[first]
         \/ i.feed = "gbfs" /\ records = Joined(Published[first], Published[i.held[Len(i.held)]]),
         \A r \in records : r.size \in Nat,
         NEW kept, kept = Kept(i, records, TRUE), ~RefusedAnswer(i.feed, kept)
  PROVE  AnswerTrue(i, "live", kept)
<1>1. /\ kept \subseteq records
      /\ \A r \in kept : /\ (~Unboxed(i) /\ ~(TRUE /\ i.feed \in {"ships", "firms"})) => r.at \in i.box.of
                         /\ i.feed = "flights" => r.at # OffGlobe
                         /\ i.feed = "quakes" => r.size >= i.least
      /\ (Unboxed(i) /\ i.least = 0 /\ i.feed \in Batches) =>
           \A s \in records : s.at \in Somewhere => s \in kept
  BY KeptTrue
<1>2. \A r \in records : \E s \in Published[first] : s.id = r.id /\ s.at = r.at
  BY DEF Joined
<1>3. \A s \in Published[first] : \E r \in records : r.id = s.id /\ r.at = s.at
  <2>1. CASE i.feed # "gbfs"
    BY <2>1
  <2>2. CASE i.feed = "gbfs"
    <3>1. PICK counts : counts = Published[i.held[Len(i.held)]]
      OBVIOUS
    <3> SUFFICES ASSUME NEW s \in Published[first] PROVE \E r \in records : r.id = s.id /\ r.at = s.at
      OBVIOUS
    <3>2. PICK n : n = IF \E c \in counts : c.id = s.id THEN (CHOOSE c \in counts : c.id = s.id).size ELSE 0
      OBVIOUS
    <3>3. [id |-> s.id, at |-> s.at, size |-> n] \in Joined(Published[first], counts)
      BY <3>2 DEF Joined
    <3>4. [id |-> s.id, at |-> s.at, size |-> n] \in records
      BY <2>2, <3>1, <3>3
    <3> QED BY <3>4
  <2> QED BY <2>1, <2>2
<1>4. \A s \in Published[first] : s \in FeedSources /\ s \in whole
  BY DEF FeedSources
<1>5. \A r \in kept : r.at # OffGlobe
  <2> SUFFICES ASSUME NEW r \in kept PROVE r.at # OffGlobe
    OBVIOUS
  <2>1. CASE i.feed = "flights"
    BY <1>1, <2>1
  <2>2. CASE i.feed \in {"quakes", "firms"}
    BY <2>2 DEF RefusedAnswer
  <2>3. CASE i.feed \in {"gbfs", "ships"}
    <3>1. PICK s \in Published[first] : s.at = r.at
      BY <1>1, <1>2
    <3> QED BY <1>4, <2>3, <3>1 DEF RefusedReply, Somewhere, OffGlobe
  <2> QED BY <2>1, <2>2, <2>3 DEF Batches
<1>6. \A r \in kept : \E s \in FeedSources : s.id = r.id
  BY <1>1, <1>2, <1>4
<1>7. (Unboxed(i) /\ i.least = 0) => \A s \in Published[first] : s.at \in Somewhere => \E r \in kept : r.id = s.id
  BY <1>1, <1>3
<1> QED BY <1>1, <1>5, <1>6, <1>7 DEF AnswerTrue

(* A live request is answered.                                             *)
LEMMA LiveAnswerKeeps ==
  ASSUME PublicInv, NEW i, KnownOf(i), ~Replayed(i.feed), i.held # <<>>, NEW why, NEW records, NEW time,
         Ends(i, 200, why, "live", records, time), NEW open \in 0..2, agents' = open,
         LeftTrue(i, why, open), UNCHANGED <<playback, edition, quota>>, AnswerTrue(i, "live", records)
  PROVE  PublicInv'
<1>1. PICK code, mode : code = 200 /\ mode = "live"
  OBVIOUS
<1>2. /\ Ends(i, code, why, mode, records, time) /\ agents' = open /\ open \in 0..2
      /\ mode \in {"none", "seed", "live"} /\ AnswerTrue(i, mode, records)
      /\ UNCHANGED <<playback, edition>> /\ quota' = quota
  BY <1>1
<1> QED BY ONLY PublicInv, KnownOf(i), ~Replayed(i.feed), i.held # <<>>, LeftTrue(i, why, open), <1>2, EndsKeeps

LEMMA BodyReadKeeps == ASSUME PublicInv, BodyRead PROVE PublicInv'
<1>1. PICK i : i = inquiry
  OBVIOUS
<1>2. /\ i.state = "reads" /\ KnownOf(i) /\ i.feed \in AllFeeds /\ ~Replayed(i.feed) /\ agents = i.fetches
      /\ i.held \in Seq(0..LastEdition) /\ Len(i.held) = i.fetches /\ i.fetches \in 1..2
      /\ AnswerFrom(i) /\ agents' = agents - i.fetches /\ UNCHANGED <<playback, edition, quota>>
  BY <1>1 DEF BodyRead, PublicInv, Going, KnownOf
<1>3. PICK first, last, whole, records, kept :
        /\ first = i.held[1] /\ last = i.held[Len(i.held)] /\ whole = Published[first] \cup Published[last]
        /\ records = IF i.feed = "gbfs" THEN Joined(Published[first], Published[last]) ELSE Published[first]
        /\ kept = Kept(i, records, TRUE)
  OBVIOUS
<1>4. /\ first \in 0..LastEdition /\ last \in 0..LastEdition /\ i.held # <<>>
  <2>1. \A k \in 1..Len(i.held) : i.held[k] \in 0..LastEdition
    <3>1. i.held \in Seq(0..LastEdition)
      BY <1>2
    <3> QED BY ONLY <3>1, ElementOfSeq
  <2>2. i.fetches \in 1..2 /\ Len(i.held) = i.fetches
    BY <1>2
  <2>3. 1 \in 1..Len(i.held) /\ Len(i.held) \in 1..Len(i.held)
    BY ONLY <2>2
  <2> QED BY <1>2, <1>3, <2>1, <2>3
<1>5. LeftTrue(i, "refused", 0) /\ LeftTrue(i, "passed_on", 0) /\ LeftTrue(i, "answered", 0)
  BY DEF LeftTrue
<1>6. agents' = 0 /\ 0 \in 0..2 /\ UNCHANGED <<playback, edition, quota>>
  BY <1>2
<1>7. CASE i.feed \in Proxied \cup {"overpass"}
  <2>1. Ends(i, 200, "passed_on", "live", {}, first)
    BY <1>2, <1>3, <1>7 DEF AnswerFrom, Batches, Proxied
  <2>2. AnswerTrue(i, "live", {})
    BY <1>7 DEF AnswerTrue, Proxied, Batches
  <2> QED BY <1>2, <1>4, <1>5, <1>6, <2>1, <2>2, LiveAnswerKeeps
<1>8. CASE i.feed \notin Proxied \cup {"overpass"}
  <2>1. i.feed \in Batches
    BY <1>2, <1>8 DEF AllFeeds, Replayed
  <2>2. CASE RefusedReply(i.feed, whole) \/ RefusedAnswer(i.feed, kept)
    <3>1. Fails(i, "refused")
      BY <1>2, <1>3, <1>8, <2>1, <2>2 DEF AnswerFrom
    <3> QED BY <1>2, <1>5, <1>6, <3>1, FailsKeeps
  <2>3. CASE ~RefusedReply(i.feed, whole) /\ ~RefusedAnswer(i.feed, kept)
    <3>1. Ends(i, 200, "answered", "live", kept, Newer(first, last))
      BY <1>2, <1>3, <1>8, <2>1, <2>3 DEF AnswerFrom
    <3>2. \A r \in Published[first] \cup Published[last] : r.size \in Nat
      BY <1>4, PublicAssumption
    <3>3. \A r \in records : r.size \in Nat
      <4>1. CASE i.feed # "gbfs"
        BY <1>3, <3>2, <4>1
      <4>2. CASE i.feed = "gbfs"
        <5>1. \A r \in Joined(Published[first], Published[last]) : r.size \in Nat
          BY <3>2 DEF Joined
        <5> QED BY <1>3, <4>2, <5>1
      <4> QED BY <4>1, <4>2
    <3>4. Published[first] \subseteq whole
      BY <1>3
    <3>5. AnswerTrue(i, "live", kept)
      BY <1>2, <1>3, <1>4, <2>1, <2>3, <3>3, <3>4, AnswerIsTrue
    <3> QED BY <1>2, <1>4, <1>5, <1>6, <3>1, <3>5, LiveAnswerKeeps
  <2> QED BY <2>2, <2>3
<1> QED BY <1>7, <1>8

LEMMA BodyFailsKeeps ==
  ASSUME PublicInv, NEW tooLarge \in BOOLEAN, NEW before \in 0..1, BodyFails(tooLarge, before)
  PROVE  PublicInv'
<1>1. PICK i : i = inquiry
  OBVIOUS
<1>2. /\ i.state = "reads" /\ KnownOf(i) /\ i.feed \in AllFeeds /\ ~Replayed(i.feed) /\ agents = i.fetches
      /\ i.held \in Seq(0..LastEdition) /\ Len(i.held) = i.fetches /\ before < i.fetches
      /\ (i.fetches = 1 /\ i.feed # "gbfs") \/ (i.fetches = 2 /\ i.feed = "gbfs")
      /\ UNCHANGED <<playback, edition, quota>>
  BY <1>1 DEF BodyFails, PublicInv, Going, KnownOf
<1>3. PICK open, why :
        /\ open \in 0..2
        /\ open = agents - before - (IF tooLarge THEN 1 ELSE 0)
        /\ why = IF tooLarge THEN "too_large" ELSE "broken_off"
  BY <1>2
<1>4. /\ agents' = open
      /\ IF i.feed = "stream" THEN Ends(i, 200, "cut_off", "live", {}, i.held[1]) ELSE Fails(i, why)
  BY <1>1, <1>3 DEF BodyFails
<1>5. LeftTrue(i, "cut_off", open) /\ LeftTrue(i, why, open)
  BY <1>2, <1>3 DEF LeftTrue
<1>6. CASE i.feed = "stream"
  <2>1. AnswerTrue(i, "live", {})
    BY <1>6 DEF AnswerTrue, Batches
  <2>2. Ends(i, 200, "cut_off", "live", {}, i.held[1]) /\ i.held # <<>>
    BY <1>2, <1>4, <1>6
  <2>3. agents' = open /\ open \in 0..2 /\ UNCHANGED <<playback, edition, quota>>
    BY <1>2, <1>3, <1>4
  <2>4. KnownOf(i) /\ ~Replayed(i.feed) /\ LeftTrue(i, "cut_off", open)
    BY <1>2, <1>5
  <2> QED BY <2>1, <2>2, <2>3, <2>4, LiveAnswerKeeps
<1>7. CASE i.feed # "stream"
  <2>1. Fails(i, why) /\ agents' = open /\ open \in 0..2 /\ LeftTrue(i, why, open)
    BY <1>3, <1>4, <1>5, <1>7
  <2>2. KnownOf(i) /\ i.feed \in AllFeeds /\ UNCHANGED <<playback, edition, quota>>
    BY <1>2
  <2> QED BY ONLY PublicInv, <2>1, <2>2, FailsKeeps
<1> QED BY <1>6, <1>7

-----------------------------------------------------------------------------
LEMMA PublicStart == ASSUME PublicInit PROVE PublicInv
<1>1. inquiry = NoInquiry /\ playback \in BOOLEAN /\ edition = 0 /\ agents = 0 /\ quota = -1
  BY DEF PublicInit
<1>2. PICK i : i = NewInquiry("none", NoBox, 0, <<>>)
  OBVIOUS
<1>3. inquiry = i
  BY <1>1, <1>2, Plain
<1>4. /\ i.feed = "none" /\ i.box = NoBox /\ i.least = 0 /\ i.state = "none" /\ i.fetches = 0
      /\ i.pinned = "none" /\ i.held = <<>> /\ i.query = <<>> /\ i.reply = NoReply /\ Shaped(i)
  BY <1>2, FreshFields
<1>5. i.held \in Seq(0..LastEdition) /\ Unboxed(i)
  BY <1>4 DEF Unboxed, NoBox
<1>6. KnownOf(i)
  BY <1>4, <1>5 DEF KnownOf
<1>7. Going(i, 0)
  BY <1>1, <1>3, <1>4 DEF Going
<1>8. AnswersAsked /\ NothingLost /\ ModesTrue /\ ConnectionsKept /\ QueriesBounded
  BY <1>1, <1>3, <1>4 DEF AnswersAsked, NothingLost, ModesTrue, ConnectionsKept, QueriesBounded, Says200, InquiryOver,
     Recordings, NoReply
<1>9. edition \in 0..LastEdition /\ agents \in 0..2 /\ quota \in -1..5
  BY <1>1, PublicAssumption
<1> QED BY <1>1, <1>3, <1>6, <1>7, <1>8, <1>9 DEF PublicInv, FeedsTrue

LEMMA PublicStep == ASSUME PublicInv, [PublicNext]_publicVars PROVE PublicInv'
<1>1. CASE PublicNext
  <2>1. \A b \in Boxings : AskFlights(b) \/ AskShips(b) \/ AskHotspots(b) \/ AskStations(b) => PublicInv'
    BY AsksKeep
  <2>2. \A b \in Boxings, n \in 0..3 : AskQuakes(b, n) \/ AskCameras(b, n) \/ AskRadio(b, n) => PublicInv'
    BY AsksKeep
  <2>3. 0..2 \subseteq 0..3
    OBVIOUS
  <2> QED BY <1>1, <2>1, <2>2, <2>3, PlainAsksKeep, MapQueryKeeps, ProxiesKeep, ReplayKeeps, ResolveKeeps,
             NotFetchedKeeps, StatusNotOkKeeps, HeadKeeps, BodyReadKeeps, BodyFailsKeeps, PublishesKeeps
          DEF PublicNext
<1>2. CASE UNCHANGED publicVars
  <2>1. UNCHANGED <<playback, edition, inquiry, agents, quota>>
    BY <1>2 DEF publicVars
  <2> QED BY <2>1 DEF PublicInv, KnownOf, Going, Shaped, Replayed, Unboxed, FeedsTrue, AnswersAsked, NothingLost, ModesTrue,
             ConnectionsKept, QueriesBounded, Says200, InquiryOver, QueryOK
<1> QED BY <1>1, <1>2

LEMMA PublicInductive == PublicSpec => []PublicInv
  BY PublicStart, PublicStep, PTL DEF PublicSpec

(* The types of the public feeds.                                          *)
THEOREM PublicTypeCorrect == PublicSpec => []PublicTypeOK
<1>1. PublicInv => PublicTypeOK
  BY DEF PublicInv, KnownOf, PublicTypeOK
<1> QED BY <1>1, PublicInductive, PTL

(* What is answered is what was asked for: of the source, inside the box   *)
(* and nothing in bounds left out; what says live was fetched, and a seed  *)
(* deployment fetches nothing; every connection was to a public address    *)
(* and the ones left open are of a body that was not read; a map query     *)
(* that is sent is within bounds.  However often the source publishes      *)
(* while the request is under way.                                         *)
THEOREM FeedsAlwaysTrue == PublicSpec => []FeedsTrue
<1>1. PublicInv => FeedsTrue
  BY DEF PublicInv
<1> QED BY <1>1, PublicInductive, PTL

-----------------------------------------------------------------------------
(* THE VOICE SESSION, for any number of attempts and tool calls: one       *)
(* socket, and a machine that shows what there is.                         *)

(* The socket being opened is the pending adapter's and belongs to the     *)
(* latest attempt; the open one is the adapter's in use.                   *)
SocketsKnown ==
  /\ pending # None => current = pending
  /\ \A n \in Attempts : (link[n] = "opening" <=> pending = n) /\ (link[n] = "open" <=> adapter = n)

(* The inductive invariant.                                                *)
VoiceInv == VoiceTypeOK /\ SocketsKnown /\ VoiceInSync

-----------------------------------------------------------------------------
(* There is no attempt and no socket at first.                             *)
LEMMA VoiceInitial == VoiceInit => VoiceInv
BY VoiceAssumption
DEF VoiceInit, VoiceInv, VoiceTypeOK, SocketsKnown, VoiceInSync, Attempts, ToolCalls, None, Connected

(* Attempts that were begun are attempts, and no attempt is None.          *)
LEMMA AttemptNumbers ==
  ASSUME VoiceInv
  PROVE  /\ {adapter, pending, current} \subseteq Attempts \cup {None}
         /\ None \notin Attempts
         /\ adapter # None => pending = None
BY VoiceAssumption DEF VoiceInv, VoiceTypeOK, Attempts, None

(* What disconnecting leaves: no socket is open or being opened.           *)
LEMMA Dropping ==
  ASSUME VoiceInv
  PROVE  /\ Dropped(link) \in [Attempts -> {"none", "fetching", "opening", "open", "shut"}]
         /\ \A n \in Attempts : Dropped(link)[n] \notin {"opening", "open"}
<1>1. CASE adapter # None
  BY <1>1, AttemptNumbers DEF Dropped, VoiceInv, VoiceTypeOK, SocketsKnown
<1>2. CASE adapter = None /\ pending # None
  BY <1>2, AttemptNumbers DEF Dropped, VoiceInv, VoiceTypeOK, SocketsKnown
<1>3. CASE adapter = None /\ pending = None
  BY <1>3, AttemptNumbers DEF Dropped, VoiceInv, VoiceTypeOK, SocketsKnown
<1> QED BY <1>1, <1>2, <1>3

(* connect drops what there was and begins the next attempt.               *)
LEMMA ConnectKeeps ==
  ASSUME VoiceInv, NEW kind \in {"mock", "openai-realtime"}, NEW text \in BOOLEAN,
         Connect(kind, text)
  PROVE  VoiceInv'
<1> DEFINE n == begun + 1
           mock == kind = "mock"
<1>1. /\ begun \in 0..MaxAttempts /\ begun < MaxAttempts
      /\ n \in Attempts /\ n # None /\ begun' = n /\ current' = n
      /\ adapter' = (IF mock THEN n ELSE None) /\ pending' = None
      /\ link' = [Dropped(link) EXCEPT ![n] = IF mock THEN "open" ELSE "fetching"]
      /\ provider' = [provider EXCEPT ![n] = kind]
      /\ texting' = IF text THEN texting \cup {n} ELSE texting
      /\ voice' = IF mock THEN Ready(text) ELSE "connecting"
      /\ activeTool' = None /\ running' = running
  BY VoiceAssumption DEF Connect, VoiceInv, VoiceTypeOK, Attempts, None
<1>2. /\ link' \in [Attempts -> {"none", "fetching", "opening", "open", "shut"}]
      /\ link'[n] = IF mock THEN "open" ELSE "fetching"
      /\ \A m \in Attempts \ {n} : link'[m] \notin {"opening", "open"}
  BY <1>1, Dropping
<1>3. Ready(text) \in {"processing", "listening"}
  BY DEF Ready
<1>4. VoiceTypeOK'
  BY <1>1, <1>2, <1>3, VoiceAssumption DEF VoiceInv, VoiceTypeOK, Connected, None, Attempts
<1>5. SocketsKnown'
  BY <1>1, <1>2, AttemptNumbers DEF SocketsKnown
<1>6. VoiceInSync'
  BY <1>1, <1>2, <1>3 DEF VoiceInSync, Connected
<1> QED BY <1>4, <1>5, <1>6 DEF VoiceInv

(* The token request ends: only the latest attempt goes on to a socket.    *)
LEMMA FetchedKeeps ==
  ASSUME VoiceInv, NEW n \in Attempts, NEW ok \in BOOLEAN, Fetched(n, ok)
  PROVE  VoiceInv'
<1>1. link[n] = "fetching" /\ UNCHANGED <<begun, current, adapter, provider, texting, activeTool, running>>
  BY DEF Fetched
<1>2. CASE ok /\ current = n
  <2>1. link' = [link EXCEPT ![n] = "opening"] /\ pending' = n /\ voice' = voice
    BY <1>2 DEF Fetched
  <2>2. adapter = None /\ pending = None /\ n # None /\ n \in 0..begun
    BY <1>1, <1>2, AttemptNumbers DEF VoiceInv, VoiceTypeOK, VoiceInSync, SocketsKnown
  <2>3. VoiceTypeOK' /\ SocketsKnown'
    BY <1>1, <1>2, <2>1, <2>2 DEF VoiceInv, VoiceTypeOK, SocketsKnown
  <2>4. VoiceInSync'
    BY <1>1, <1>2, <2>1, <2>2 DEF VoiceInv, VoiceTypeOK, VoiceInSync
  <2> QED BY <2>3, <2>4 DEF VoiceInv
<1>3. CASE ~(ok /\ current = n)
  <2>1. /\ link' = [link EXCEPT ![n] = "none"] /\ pending' = pending
        /\ voice' = IF current = n THEN "error" ELSE voice
    BY <1>3 DEF Fetched
  <2>2. current = n => adapter = None /\ voice = "connecting"
    BY <1>1, AttemptNumbers DEF VoiceInv, VoiceInSync
  <2>3. VoiceTypeOK' /\ SocketsKnown'
    BY <1>1, <2>1 DEF VoiceInv, VoiceTypeOK, SocketsKnown
  <2>4. VoiceInSync'
    BY <1>1, <2>1, <2>2, AttemptNumbers DEF VoiceInv, VoiceTypeOK, VoiceInSync, Connected
  <2> QED BY <2>3, <2>4 DEF VoiceInv
<1> QED BY <1>2, <1>3

(* A socket opens for the attempt it was opened for, or is closed.         *)
LEMMA SocketKeeps ==
  ASSUME VoiceInv, NEW n \in Attempts, SocketOpens(n) \/ SocketFails(n)
  PROVE  VoiceInv'
<1>1. /\ link[n] = "opening" /\ pending = n /\ current = n /\ n # None
      /\ adapter = None /\ voice = "connecting"
  BY AttemptNumbers DEF SocketOpens, SocketFails, VoiceInv, VoiceInSync, SocketsKnown
<1>2. CASE SocketOpens(n)
  <2>1. /\ pending' = None /\ adapter' = n /\ link' = [link EXCEPT ![n] = "open"]
        /\ voice' \in {"listening", "processing"}
        /\ UNCHANGED <<begun, current, provider, texting, activeTool, running>>
    BY <1>1, <1>2 DEF SocketOpens, Ready
  <2>2. VoiceTypeOK' /\ SocketsKnown'
    BY <1>1, <2>1, VoiceAssumption, AttemptNumbers DEF VoiceInv, VoiceTypeOK, SocketsKnown, Connected, None
  <2>3. VoiceInSync'
    BY <1>1, <2>1 DEF VoiceInv, VoiceTypeOK, VoiceInSync, Connected
  <2> QED BY <2>2, <2>3 DEF VoiceInv
<1>3. CASE SocketFails(n)
  <2>1. /\ pending' = None /\ adapter' = None /\ link' = [link EXCEPT ![n] = "shut"]
        /\ voice' = "error"
        /\ UNCHANGED <<begun, current, provider, texting, activeTool, running>>
    BY <1>1, <1>3 DEF SocketFails
  <2>2. VoiceTypeOK' /\ SocketsKnown'
    BY <1>1, <2>1, VoiceAssumption, AttemptNumbers DEF VoiceInv, VoiceTypeOK, SocketsKnown, Connected, None
  <2>3. VoiceInSync'
    BY <1>1, <2>1 DEF VoiceInv, VoiceTypeOK, VoiceInSync, Connected
  <2> QED BY <2>2, <2>3 DEF VoiceInv
<1> QED BY <1>2, <1>3

(* Disconnecting and failing leave no socket, no adapter and no tool.      *)
LEMMA GoneKeeps ==
  ASSUME VoiceInv,
         current' = None, adapter' = None, pending' = None, voice' = "idle", activeTool' = None,
         UNCHANGED <<begun, provider, texting>>, running' \subseteq running,
         link' \in [Attempts -> {"none", "fetching", "opening", "open", "shut"}],
         \A n \in Attempts : link'[n] \notin {"opening", "open"}
  PROVE  VoiceInv'
<1>1. VoiceTypeOK'
  BY VoiceAssumption DEF VoiceInv, VoiceTypeOK, None
<1>2. SocketsKnown' /\ VoiceInSync'
  BY AttemptNumbers DEF SocketsKnown, VoiceInSync, Connected
<1> QED BY <1>1, <1>2 DEF VoiceInv

(* The operator disconnects.                                               *)
LEMMA DisconnectKeeps ==
  ASSUME VoiceInv, Disconnect
  PROVE  VoiceInv'
BY Dropping, GoneKeeps DEF Disconnect

(* The session in use fails: its socket is shut and it is let go.          *)
LEMMA FailKeeps ==
  ASSUME VoiceInv, NEW n \in Attempts, adapter = n, Fail(n), running' \subseteq running
  PROVE  VoiceInv'
<1>1. link' = [link EXCEPT ![n] = "shut"] /\ pending = None
  BY AttemptNumbers DEF Fail
<1>2. /\ link' \in [Attempts -> {"none", "fetching", "opening", "open", "shut"}]
      /\ \A m \in Attempts : link'[m] \notin {"opening", "open"}
  BY <1>1, AttemptNumbers DEF VoiceInv, VoiceTypeOK, SocketsKnown
<1> QED BY <1>2, GoneKeeps DEF Fail

(* In a session the machine goes from one connected state to another; only *)
(* a tool's call brings it to executing_tool.                              *)
LEMMA TurnKeeps ==
  ASSUME VoiceInv, adapter # None, voice' \in {"listening", "processing", "speaking"},
         activeTool' \in {activeTool, None}, running' \subseteq running,
         UNCHANGED <<begun, current, adapter, pending, link, provider, texting>>
  PROVE  VoiceInv'
<1>1. VoiceTypeOK'
  BY VoiceAssumption DEF VoiceInv, VoiceTypeOK, Connected, None
<1>2. SocketsKnown'
  BY DEF VoiceInv, SocketsKnown
<1>3. VoiceInSync'
  BY DEF VoiceInv, VoiceInSync, Connected
<1> QED BY <1>1, <1>2, <1>3 DEF VoiceInv

(* The machine shows another turn of the conversation.                     *)
LEMMA BecomesKeeps ==
  ASSUME VoiceInv, adapter # None, NEW v \in {"listening", "processing", "speaking"}, Becomes(v)
  PROVE  VoiceInv'
BY TurnKeeps DEF Becomes

(* The provider asks for a tool, and the call ends.                        *)
LEMMA ToolCallKeeps ==
  ASSUME VoiceInv, NEW n \in Attempts, NEW c \in ToolCalls, ToolCall(n, c)
  PROVE  VoiceInv'
<1>1. /\ adapter = n /\ n # None /\ running' = running \cup {<<n, c>>}
      /\ UNCHANGED <<begun, current, adapter, pending, link, provider, texting>>
      /\ \/ voice' = "executing_tool" /\ activeTool' = c
         \/ UNCHANGED <<voice, activeTool>>
  BY AttemptNumbers DEF ToolCall, Active
<1>2. VoiceTypeOK'
  BY <1>1, VoiceAssumption DEF VoiceInv, VoiceTypeOK, ToolCalls, Connected
<1>3. SocketsKnown'
  BY <1>1 DEF VoiceInv, SocketsKnown
<1>4. VoiceInSync'
  BY <1>1 DEF VoiceInv, VoiceInSync, Connected
<1> QED BY <1>2, <1>3, <1>4 DEF VoiceInv

(* A tool call ends, whether its result is sent or not.                    *)
LEMMA ToolEndsKeeps ==
  ASSUME VoiceInv, NEW k \in running, NEW submitted \in BOOLEAN, ToolEnds(k, submitted)
  PROVE  VoiceInv'
<1>1. /\ running' = running \ {k}
      /\ k[1] \in Attempts /\ k = <<k[1], k[2]>>
  BY DEF ToolEnds, VoiceInv, VoiceTypeOK
<1>2. CASE Active(k[1]) /\ ~submitted
  BY <1>1, <1>2, FailKeeps DEF ToolEnds, Active
<1>3. CASE ~(Active(k[1]) /\ ~submitted) /\ Active(k[1]) /\ voice = "executing_tool"
  <2>1. /\ voice' = "processing" /\ activeTool' = None /\ adapter # None
        /\ UNCHANGED <<begun, current, adapter, pending, link, provider, texting>>
    BY <1>1, <1>3, AttemptNumbers DEF ToolEnds, Active
  <2> QED BY <1>1, <2>1, TurnKeeps
<1>4. CASE ~(Active(k[1]) /\ ~submitted) /\ ~(Active(k[1]) /\ voice = "executing_tool")
  <2>1. UNCHANGED <<begun, current, adapter, pending, link, provider, texting, voice, activeTool>>
    BY <1>4 DEF ToolEnds
  <2>2. voice = "executing_tool" => k # <<adapter, activeTool>>
    BY <1>1, <1>4 DEF Active, VoiceInv, VoiceInSync, Connected
  <2>3. VoiceTypeOK' /\ SocketsKnown'
    BY <1>1, <2>1 DEF VoiceInv, VoiceTypeOK, SocketsKnown
  <2>4. VoiceInSync'
    BY <1>1, <2>1, <2>2 DEF VoiceInv, VoiceInSync
  <2> QED BY <2>3, <2>4 DEF VoiceInv
<1> QED BY <1>2, <1>3, <1>4

(* What the operator does: connect, disconnect, type, barge in.            *)
LEMMA OperatorKeeps ==
  ASSUME VoiceInv, Operator
  PROVE  VoiceInv'
<1>1. CASE SendText
  BY <1>1, AttemptNumbers, BecomesKeeps, FailKeeps DEF SendText
<1>2. CASE BargeIn
  <2>1. adapter # None
    BY <1>2 DEF BargeIn, VoiceInv, VoiceInSync
  <2> QED BY <1>2, <2>1, BecomesKeeps DEF BargeIn
<1> QED BY <1>1, <1>2, ConnectKeeps, DisconnectKeeps DEF Operator

(* What the transport of an attempt does.                                  *)
LEMMA TransportKeeps ==
  ASSUME VoiceInv, NEW n \in Attempts, Transport(n)
  PROVE  VoiceInv'
<1>1. CASE TransportLost(n)
  BY <1>1, FailKeeps DEF TransportLost, Active
<1>2. ASSUME NEW from, NEW to \in {"listening", "processing", "speaking"}, Frame(n, from, to)
      PROVE  VoiceInv'
  <2>1. adapter # None /\ Becomes(to)
    BY <1>2, AttemptNumbers DEF Frame, Active
  <2> QED BY <2>1, BecomesKeeps
<1> QED BY <1>1, <1>2, FetchedKeeps, SocketKeeps, ToolCallKeeps DEF Transport

(* Every step of the operator, a transport or a tool preserves VoiceInv.   *)
LEMMA VoiceInductive == VoiceInv /\ [VoiceNext]_voiceVars => VoiceInv'
<1> SUFFICES ASSUME VoiceInv, [VoiceNext]_voiceVars PROVE VoiceInv'
  OBVIOUS
<1>1. CASE UNCHANGED voiceVars
  BY <1>1 DEF voiceVars, VoiceInv, VoiceTypeOK, SocketsKnown, VoiceInSync
<1>2. CASE VoiceNext
  BY <1>2, OperatorKeeps, TransportKeeps, ToolEndsKeeps DEF VoiceNext
<1> QED BY <1>1, <1>2

(* The invariant holds in every state of the session.                      *)
LEMMA VoiceInvariant == VoiceSpec => []VoiceInv
BY VoiceInitial, VoiceInductive, PTL DEF VoiceSpec

-----------------------------------------------------------------------------
(* Attempts, sockets, machine and tool calls keep their types.             *)
THEOREM VoiceTypeCorrect == VoiceSpec => []VoiceTypeOK
<1>1. VoiceInv => VoiceTypeOK
  BY DEF VoiceInv
<1> QED BY <1>1, VoiceInvariant, PTL

(* However connects, disconnects, late tokens and late sockets overlap, no *)
(* socket of a dropped attempt stays open (connect, disconnect).           *)
THEOREM VoiceOneSession == VoiceSpec => []OneVoiceSession
<1>1. VoiceInv => OneVoiceSession
  BY DEF VoiceInv, SocketsKnown, OneVoiceSession
<1> QED BY <1>1, VoiceInvariant, PTL

(* The machine's state is that of the session, and a tool is shown only    *)
(* while it runs for it (isActive).                                        *)
THEOREM VoiceShowsSession == VoiceSpec => []VoiceInSync
<1>1. VoiceInv => VoiceInSync
  BY DEF VoiceInv
<1> QED BY <1>1, VoiceInvariant, PTL

-----------------------------------------------------------------------------
(* FEEDS ON THE GLOBE, for every set of items: what is drawn is current,   *)
(* and a locked layer is hidden.                                           *)

(* At most one snapshot waits, and then a frame is requested.              *)
OneWaits == waiting = {} \/ \E s \in Snapshots : waiting = {s}

(* The inductive invariant of a feed.                                      *)
FeedInv ==
  /\ feed \in {"flights", "alerts", "satellites"}
  /\ visible \in BOOLEAN /\ accessLock \in BOOLEAN
  /\ load \in {"none", "fetching", "reading"}
  /\ drawn \subseteq Items /\ raw \subseteq Items
  /\ lastDrawn \in Snapshots
  /\ frame \in BOOLEAN /\ (frame <=> waiting # {})
  /\ OneWaits
  /\ DrawnCurrent
  /\ LockedHidden

(* The invariant entails the types.                                        *)
LEMMA FeedTypes == FeedInv => FeedTypeOK
<1> SUFFICES ASSUME FeedInv PROVE FeedTypeOK
  OBVIOUS
<1>1. Cardinality(waiting) <= 1
  <2>1. CASE waiting = {}
    BY <2>1, FS_EmptySet
  <2>2. ASSUME NEW s \in Snapshots, waiting = {s} PROVE Cardinality(waiting) <= 1
    BY <2>2, FS_Singleton
  <2> QED BY <2>1, <2>2 DEF FeedInv, OneWaits
<1> QED BY <1>1 DEF FeedInv, FeedTypeOK, OneWaits

(* Comparing counts is enough: whatever was drawn before, every item of    *)
(* the snapshot that can be placed is there, and if all can, nothing else. *)
LEMMA ReconciledItems ==
  ASSUME NEW old \in SUBSET Items, NEW s \in Snapshots
  PROVE  /\ Reconciled(old, s) \in SUBSET Items
         /\ s.placed \subseteq Reconciled(old, s)
         /\ s.bare = {} => Reconciled(old, s) = s.placed
<1> DEFINE placed == old \cup s.placed
<1>1. s.placed \subseteq Items /\ s.bare \subseteq Items /\ s.placed \subseteq Ids(s)
  BY DEF Snapshots, Ids
<1>2. s.bare = {} => Ids(s) = s.placed
  BY DEF Ids
<1>3. CASE Cardinality(placed) # Cardinality(old) \/ Cardinality(Ids(s)) # Cardinality(old)
  BY <1>1, <1>2, <1>3 DEF Reconciled
<1>4. CASE Cardinality(placed) = Cardinality(old) /\ Cardinality(Ids(s)) = Cardinality(old)
  <2>1. IsFiniteSet(placed) /\ old \subseteq placed
    BY <1>1, FS_Subset, FeedAssumption
  <2>2. old = placed
    BY <1>4, <2>1, FS_Subset
  <2>3. s.placed \subseteq old /\ IsFiniteSet(old)
    BY <2>1, <2>2
  <2>4. Ids(s) = s.placed => s.placed = old
    BY <1>4, <2>3, FS_Subset
  <2>5. Reconciled(old, s) = placed
    BY <1>4 DEF Reconciled
  <2> QED BY <1>1, <1>2, <2>2, <2>4, <2>5
<1> QED BY <1>3, <1>4

(* The empty snapshot is one of any feed.                                  *)
LEMMA NothingIsSnapshot == Nothing \in Snapshots /\ Ids(Nothing) = {}
BY DEF Nothing, Snapshots, Ids

(* A failed load keeps the invariant, whatever it does to the poll.        *)
LEMMA LoadFailedKeeps ==
  ASSUME FeedInv, NEW code \in BOOLEAN, LoadFailed(code),
         UNCHANGED feed, load' \in {"none", "fetching", "reading"}
  PROVE  FeedInv'
<1> DEFINE locks == feed = "satellites" /\ code
<1>1. /\ accessLock' = (accessLock \/ locks)
      /\ visible' = (visible /\ ~locks)
      /\ raw' = IF locks \/ feed = "alerts" THEN {} ELSE raw
  BY DEF LoadFailed
<1>2. Snapshots' = Snapshots
  BY DEF Snapshots
<1>3. CASE feed = "alerts"
  <2>1. waiting' = {Nothing} /\ frame' = TRUE /\ UNCHANGED <<drawn, lastDrawn>> /\ raw' = {}
    BY <1>1, <1>3 DEF LoadFailed, Enqueue
  <2> QED BY <1>1, <1>2, <1>3, <2>1, NothingIsSnapshot DEF FeedInv, OneWaits, DrawnCurrent, LockedHidden
<1>4. CASE feed # "alerts"
  <2>1. UNCHANGED sceneVars /\ raw' \in {raw, {}}
    BY <1>1, <1>4 DEF LoadFailed
  <2>2. DrawnCurrent'
    BY <2>1 DEF FeedInv, DrawnCurrent, sceneVars, Ids
  <2>3. LockedHidden'
    BY <1>1, <1>4 DEF FeedInv, LockedHidden
  <2> QED BY <1>1, <1>2, <1>4, <2>1, <2>2, <2>3 DEF FeedInv, OneWaits, sceneVars
<1> QED BY <1>3, <1>4

(* Nothing is fetched, waiting or drawn at first.                          *)
LEMMA FeedInitial == FeedInit => FeedInv
<1> SUFFICES ASSUME FeedInit PROVE FeedInv
  OBVIOUS
<1>1. lastDrawn \in Snapshots /\ Ids(lastDrawn) = {} /\ lastDrawn.placed = {} /\ drawn = {} /\ raw = {}
  BY NothingIsSnapshot DEF FeedInit, Nothing
<1>2. DrawnCurrent
  BY <1>1 DEF DrawnCurrent
<1>3. OneWaits /\ LockedHidden
  BY DEF FeedInit, OneWaits, LockedHidden
<1> QED BY <1>1, <1>2, <1>3 DEF FeedInit, FeedInv

(* Every step preserves it.                                                *)
LEMMA FeedInvStep == FeedInv /\ [FeedNext]_feedVars => FeedInv'
<1> SUFFICES ASSUME FeedInv, [FeedNext]_feedVars PROVE FeedInv'
  OBVIOUS
<1>0. UNCHANGED feed /\ Snapshots' = Snapshots
  BY DEF FeedNext, Poll, Loaded, ErrorStatus, Failed, Drain, SetLayer, feedVars, Snapshots
<1>1. CASE Poll
  <2>1. CASE load = "reading"
    BY <1>1, <2>1, LoadFailedKeeps DEF Poll
  <2>2. CASE load # "reading"
    BY <1>0, <1>1, <2>2 DEF Poll, FeedInv, OneWaits, DrawnCurrent, LockedHidden, storeVars, sceneVars, Ids
  <2> QED BY <2>1, <2>2
<1>2. ASSUME NEW s \in Snapshots, Loaded(s) PROVE FeedInv'
  <2>1. /\ waiting' = {s} /\ frame' = TRUE /\ UNCHANGED <<drawn, lastDrawn, feed, visible>>
        /\ raw' = Ids(s) /\ accessLock' = FALSE /\ load' = "none"
    BY <1>2 DEF Loaded, Enqueue
  <2>2. Ids(s) \subseteq Items
    BY DEF Ids, Snapshots
  <2>3. DrawnCurrent'
    BY <2>1 DEF FeedInv, DrawnCurrent, Ids
  <2> QED BY <1>0, <2>1, <2>2, <2>3 DEF FeedInv, OneWaits, LockedHidden
<1>3. CASE ErrorStatus
  BY <1>0, <1>3 DEF ErrorStatus, FeedInv, OneWaits, DrawnCurrent, LockedHidden, storeVars, sceneVars, Ids
<1>4. ASSUME NEW code \in BOOLEAN, Failed(code) PROVE FeedInv'
  BY <1>4, LoadFailedKeeps DEF Failed
<1>5. CASE Drain
  <2>1. PICK s \in Snapshots : waiting = {s}
    BY <1>5 DEF Drain, FeedInv, OneWaits
  <2>2. /\ drawn' = Reconciled(drawn, s) /\ lastDrawn' = s /\ waiting' = {} /\ frame' = FALSE
        /\ UNCHANGED <<feed, load, visible, accessLock, raw>>
    BY <1>5, <2>1 DEF Drain, storeVars
  <2>3. /\ drawn' \in SUBSET Items /\ s.placed \subseteq drawn' /\ (s.bare = {} => drawn' = s.placed)
    BY <2>2, ReconciledItems DEF FeedInv
  <2>4. DrawnCurrent'
    BY <2>1, <2>2, <2>3 DEF FeedInv, DrawnCurrent, Ids
  <2> QED BY <1>0, <2>2, <2>3, <2>4 DEF FeedInv, OneWaits, LockedHidden
<1>6. ASSUME NEW enabled \in BOOLEAN, SetLayer(enabled) PROVE FeedInv'
  BY <1>0, <1>6 DEF SetLayer, FeedInv, OneWaits, DrawnCurrent, LockedHidden, sceneVars, Ids
<1>7. CASE UNCHANGED feedVars
  BY <1>0, <1>7 DEF feedVars, FeedInv, OneWaits, DrawnCurrent, LockedHidden, Ids
<1> QED BY <1>1, <1>2, <1>3, <1>4, <1>5, <1>6, <1>7 DEF FeedNext

(* The invariant holds in every state of a feed and its layer.             *)
THEOREM FeedInvariant == FeedSpec => []FeedInv
BY FeedInitial, FeedInvStep, PTL DEF FeedSpec

(* The feed, its layer and what the renderer holds keep their types.       *)
THEOREM FeedTypeCorrect == FeedSpec => []FeedTypeOK
BY FeedInvariant, FeedTypes, PTL

(* What is drawn is the latest snapshot the renderer drained, although it  *)
(* compares by counts alone, and the raw rows are those of the snapshot    *)
(* that waits or is drawn, however polls, frames and the switch interleave *)
(* (drainQueue, loadFeed).                                                 *)
THEOREM DrawnAlwaysCurrent == FeedSpec => []DrawnCurrent
BY FeedInvariant, PTL DEF FeedInv

(* While the satellites are locked nothing shows them, whatever is toggled *)
(* and whichever poll answers late (setSatelliteAccessLock, toggleLayer,   *)
(* loadFeed).                                                              *)
THEOREM LockedAlwaysHidden == FeedSpec => []LockedHidden
BY FeedInvariant, PTL DEF FeedInv

-----------------------------------------------------------------------------
(* COLLABORATION, for every set of sessions, rooms and edits: rooms        *)
(* converge.                                                               *)

SessionRecords ==
  [pc : {"out", "joined", "attached", "open", "left", "closed"}, room : Rooms \cup {NoRoom},
   role : {"viewer", "operator"}, doc : SUBSET Updates, edits : 0..MaxEdits, sent : SUBSET Updates]

Mine(s) == {u \in session[s].doc : u[1] = s}

(* A session's own document: it has all its edits, which are numbered,     *)
(* what it sent is among them, and it sends nothing before its socket is   *)
(* open.                                                                   *)
OwnEdits(s) ==
  /\ \A u \in Mine(s) : u[2] <= session[s].edits
  /\ \A n \in 1..session[s].edits : <<s, n>> \in session[s].doc
  /\ session[s].sent \subseteq Mine(s)
  /\ session[s].pc \in {"out", "joined", "attached"} => session[s].sent = {} /\ session[s].doc = Mine(s) 
  /\ session[s].pc = "out" => session[s].doc = {}
  /\ session[s].pc \in {"joined", "attached", "open", "left"} => session[s].room \in Rooms

(* Frames travel while there is a socket; what a session sent it has.      *)
Frames(s) ==
  /\ toServer[s] # <<>> => session[s].pc \in {"open", "left"}
  /\ toClient[s] # <<>> => session[s].pc \in {"attached", "open"}
  /\ Range(toServer[s]) \subseteq session[s].sent

(* A room's document is made of the updates its operators sent.            *)
FromOperators(r) ==
  table[r] # NoRoom =>
    \A u \in table[r] : /\ u[1] \in Sessions /\ session[u[1]].room = r
                        /\ session[u[1]].role # "viewer" /\ u \in session[u[1]].sent

(* What a peer knows of its room, what is on its way to it, and what is on *)
(* its way from it.                                                        *)
UpToDate(s) ==
  session[s].pc \in {"attached", "open"} =>
    LET r == session[s].room IN
    /\ table[r] \subseteq session[s].doc \cup UNION Range(toClient[s])
    /\ UNION Range(toClient[s]) \subseteq table[r]
    /\ session[s].doc \subseteq table[r] \cup Mine(s)
    /\ session[s].role # "viewer" => session[s].sent \subseteq table[r] \cup Range(toServer[s])

PeersLimited(r) == IsFiniteSet(Peers(r)) /\ Cardinality(Peers(r)) <= MaxPeers
LiveRooms == {r \in Rooms : table[r] # NoRoom}

CollabInv ==
  /\ table \in [Rooms -> (SUBSET Updates) \cup {NoRoom}]
  /\ session \in [Sessions -> SessionRecords]
  /\ toServer \in [Sessions -> Seq(Updates)]
  /\ toClient \in [Sessions -> Seq(SUBSET Updates)]
  /\ IsFiniteSet(LiveRooms) /\ Cardinality(LiveRooms) <= MaxRooms
  /\ \A r \in Rooms : PeersLimited(r) /\ FromOperators(r) /\ (Peers(r) # {} => table[r] # NoRoom)
  /\ \A s \in Sessions : OwnEdits(s) /\ Frames(s) /\ UpToDate(s)

(* A settled room has converged.                                           *)
LEMMA CollabImplies == CollabInv => RoomConverges
<1> SUFFICES ASSUME CollabInv, NEW r \in Rooms, Peers(r) # {}
    PROVE  /\ table[r] # NoRoom
           /\ Settled(r) => \A s \in Peers(r) :
                /\ table[r] \subseteq session[s].doc
                /\ Shown(table[r]) \subseteq Shown(session[s].doc)
                /\ Shown(session[s].doc) \ Shown(table[r]) = Unshared(s)
  BY DEF RoomConverges
<1>1. table[r] # NoRoom /\ FromOperators(r)
  BY DEF CollabInv
<1>2. ASSUME Settled(r), NEW s \in Peers(r)
      PROVE  /\ table[r] \subseteq session[s].doc
             /\ Shown(table[r]) \subseteq Shown(session[s].doc)
             /\ Shown(session[s].doc) \ Shown(table[r]) = Unshared(s)
  <2>1. /\ s \in Sessions /\ session[s].room = r /\ session[s].pc = "open"
        /\ toServer[s] = <<>> /\ toClient[s] = <<>>
    BY <1>2 DEF Settled, Peers
  <2>2. Range(<<>>) = {}
    BY DEF Range
  <2>3. /\ table[r] \subseteq session[s].doc /\ session[s].doc \subseteq table[r] \cup Mine(s)
        /\ session[s].role # "viewer" => session[s].sent \subseteq table[r]
    BY <2>1, <2>2 DEF CollabInv, UpToDate
  <2>4. \A u \in table[r] : u[1] = s => session[s].role # "viewer" /\ u \in session[s].sent
    BY <1>1 DEF FromOperators
  <2>5. /\ \A u \in session[s].doc : u \in Updates /\ u[2] \in Nat
        /\ \A u \in session[s].doc : u[1] # s => u \in table[r]
        /\ session[s].sent \subseteq session[s].doc
    BY <2>1, <2>3 DEF CollabInv, OwnEdits, SessionRecords, Updates, Mine
  <2>6. \A u \in session[s].doc : u[1] = s => \A n \in 1..u[2] : <<s, n>> \in session[s].doc
    <3>1. ASSUME NEW u \in session[s].doc, u[1] = s, NEW n \in 1..u[2] PROVE <<s, n>> \in session[s].doc
      <4>1. u[2] <= session[s].edits /\ session[s].edits \in Nat /\ u[2] \in Nat
        BY <2>1, <2>5, <3>1 DEF CollabInv, OwnEdits, SessionRecords, Mine
      <4>2. n \in 1..session[s].edits
        BY <3>1, <4>1
      <4> QED BY <2>1, <4>2 DEF CollabInv, OwnEdits
    <3> QED BY <3>1
  <2>7. \A u \in session[s].doc, n \in Nat : u[1] # s /\ <<u[1], n>> \in session[s].doc => <<u[1], n>> \in table[r]
    BY <2>5
  <2>8. ASSUME NEW u \in Shown(session[s].doc), u \notin Unshared(s) PROVE u \in Shown(table[r])
    <3>1. u \in session[s].doc /\ \A n \in 1..u[2] : <<u[1], n>> \in session[s].doc
      BY <2>8 DEF Shown
    <3>2. CASE u[1] # s
      BY <2>5, <3>1, <3>2 DEF Shown
    <3>3. CASE u[1] = s
      <4>1. session[s].role # "viewer" /\ \A n \in 1..u[2] : <<s, n>> \in session[s].sent
        BY <2>8, <3>1, <3>3 DEF Unshared
      <4>2. \A n \in 1..u[2] : <<s, n>> \in table[r]
        BY <2>3, <4>1
      <4>3. u = <<s, u[2]>> /\ u[2] \in 1..u[2]
        BY <2>5, <3>1, <3>3 DEF Updates
      <4> QED BY <3>3, <4>2, <4>3 DEF Shown
    <3> QED BY <3>2, <3>3
  <2>9. Unshared(s) \subseteq Shown(session[s].doc)
    BY <2>6 DEF Unshared, Shown
  <2>10. ASSUME NEW u \in Unshared(s), u \in Shown(table[r]) PROVE FALSE
    <3>1. u \in session[s].doc /\ u[1] = s /\ u \in table[r] /\ \A n \in 1..u[2] : <<s, n>> \in table[r]
      BY <2>10 DEF Unshared, Shown
    <3>2. session[s].role # "viewer" /\ \A n \in 1..u[2] : <<s, n>> \in session[s].sent
      <4>1. session[s].role # "viewer"
        BY <2>4, <3>1
      <4>2. \A n \in 1..u[2] : <<s, n>>[1] = s
        OBVIOUS
      <4> QED BY <2>4, <3>1, <4>1, <4>2
    <3> QED BY <2>10, <3>2 DEF Unshared
  <2>11. Shown(table[r]) \subseteq Shown(session[s].doc)
    BY <2>3 DEF Shown
  <2> QED BY <2>3, <2>8, <2>9, <2>10, <2>11
<1> QED BY <1>1, <1>2

-----------------------------------------------------------------------------
(* What is in a queue after a frame is added or taken.                     *)
LEMMA RangeAppend ==
  ASSUME NEW S, NEW q \in Seq(S), NEW x \in S
  PROVE  Append(q, x) \in Seq(S) /\ Range(Append(q, x)) = Range(q) \cup {x}
<1>1. DOMAIN q = 1..Len(q) /\ DOMAIN Append(q, x) = 1..(Len(q) + 1) /\ Len(q) \in Nat
  OBVIOUS
<1>2. /\ \A i \in 1..Len(q) : Append(q, x)[i] = q[i]
      /\ Append(q, x)[Len(q) + 1] = x
  OBVIOUS
<1>3. 1..(Len(q) + 1) = (1..Len(q)) \cup {Len(q) + 1}
  BY <1>1
<1> QED BY <1>1, <1>2, <1>3 DEF Range

(* A queue's first frame and the rest.                                     *)
LEMMA RangeTail ==
  ASSUME NEW S, NEW q \in Seq(S), q # <<>>
  PROVE  Head(q) \in S /\ Tail(q) \in Seq(S) /\ Range(q) = {Head(q)} \cup Range(Tail(q))
<1>1. /\ Len(q) \in Nat \ {0} /\ DOMAIN q = 1..Len(q) /\ DOMAIN Tail(q) = 1..(Len(q) - 1)
      /\ Head(q) = q[1] /\ Head(q) \in S /\ Tail(q) \in Seq(S)
  OBVIOUS
<1>2. \A i \in 1..(Len(q) - 1) : Tail(q)[i] = q[i + 1]
  OBVIOUS
<1>3. \A i \in 1..Len(q) : i = 1 \/ (i - 1 \in 1..(Len(q) - 1) /\ (i - 1) + 1 = i)
  BY <1>1
<1>4. \A i \in 1..(Len(q) - 1) : i + 1 \in 1..Len(q)
  BY <1>1
<1>5. ASSUME NEW y \in Range(q) PROVE y \in {Head(q)} \cup Range(Tail(q))
  <2>1. PICK i \in 1..Len(q) : y = q[i]
    BY <1>1, <1>5 DEF Range
  <2>2. CASE i = 1
    BY <1>1, <2>1, <2>2
  <2>3. CASE i # 1
    <3>1. i - 1 \in 1..(Len(q) - 1) /\ Tail(q)[i - 1] = q[i]
      BY <1>2, <1>3, <2>3
    <3> QED BY <1>1, <2>1, <3>1 DEF Range
  <2> QED BY <2>2, <2>3
<1>6. 1 \in DOMAIN q /\ Range(Tail(q)) \subseteq Range(q)
  BY <1>1, <1>2, <1>4 DEF Range
<1>7. Head(q) \in Range(q)
  BY <1>1, <1>6 DEF Range
<1> QED BY <1>1, <1>5, <1>6, <1>7

(* The fields that a session keeps when only its place changes.            *)
LEMMA Moved ==
  ASSUME CollabInv, NEW s \in Sessions, NEW pc \in {"attached", "open", "left", "closed"}, Goto(s, pc)
  PROVE  /\ session' \in [Sessions -> SessionRecords]
         /\ session'[s].pc = pc
         /\ \A x \in Sessions : /\ session'[x].room = session[x].room /\ session'[x].role = session[x].role
                                /\ session'[x].doc = session[x].doc /\ session'[x].edits = session[x].edits
                                /\ session'[x].sent = session[x].sent
                                /\ x # s => session'[x] = session[x]
BY DEF Goto, CollabInv, SessionRecords

(* A session nobody touched stays in order, if its room does.              *)
LEMMA Untouched ==
  ASSUME CollabInv, NEW s \in Sessions,
         session'[s] = session[s], toServer'[s] = toServer[s], toClient'[s] = toClient[s],
         session[s].pc \in {"attached", "open"} => table'[session[s].room] = table[session[s].room]
  PROVE  (OwnEdits(s) /\ Frames(s) /\ UpToDate(s))'
BY DEF CollabInv, OwnEdits, Frames, UpToDate, Mine

(* The updates of a room keep their authors.                               *)
LEMMA AuthorsKept ==
  ASSUME CollabInv, NEW r \in Rooms, table'[r] \in {table[r], {}, NoRoom},
         \A s \in Sessions : /\ session[s].sent # {} =>
                                  session'[s].room = session[s].room /\ session'[s].role = session[s].role
                             /\ session[s].sent \subseteq session'[s].sent
  PROVE  FromOperators(r)'
BY DEF CollabInv, FromOperators

(* getOrCreateRoom touches no room with peers, makes the room asked for    *)
(* and keeps to the limit.                                                 *)
LEMMA RoomTabled ==
  ASSUME CollabInv, NEW r \in Rooms, NEW t \in WithRoom(r)
  PROVE  /\ t \in [Rooms -> (SUBSET Updates) \cup {NoRoom}]
         /\ t[r] # NoRoom
         /\ \A q \in Rooms : t[q] = table[q] \/ (Peers(q) = {} /\ t[q] \in {{}, NoRoom})
         /\ IsFiniteSet({q \in Rooms : t[q] # NoRoom})
         /\ Cardinality({q \in Rooms : t[q] # NoRoom}) <= MaxRooms
<1> DEFINE live == {q \in Rooms : t[q] # NoRoom}
<1>0. {} # NoRoom /\ NoRoom \notin Rooms
  BY CollabAssumption
<1>1. /\ table \in [Rooms -> (SUBSET Updates) \cup {NoRoom}] /\ IsFiniteSet(LiveRooms)
      /\ Cardinality(LiveRooms) <= MaxRooms /\ Cardinality(LiveRooms) \in Nat /\ MaxRooms \in Nat
  BY FS_CardinalityType, CollabAssumption DEF CollabInv
<1>2. r \notin LiveRooms => Peers(r) = {}
  BY DEF LiveRooms, CollabInv
<1>3. CASE r \in LiveRooms
  <2>1. t = table
    BY <1>3 DEF WithRoom, LiveRooms
  <2> QED BY <1>1, <1>3, <2>1 DEF LiveRooms
<1>4. CASE r \notin LiveRooms /\ Cardinality(LiveRooms) < MaxRooms
  <2>1. t = [table EXCEPT ![r] = {}]
    BY <1>4 DEF WithRoom, LiveRooms
  <2>2. live = LiveRooms \cup {r}
    BY <1>0, <1>1, <2>1 DEF LiveRooms
  <2>3. IsFiniteSet(live) /\ Cardinality(live) = Cardinality(LiveRooms) + 1
    BY <1>1, <1>4, <2>2, FS_AddElement
  <2> QED BY <1>0, <1>1, <1>2, <1>4, <2>1, <2>3
<1>5. CASE r \notin LiveRooms /\ ~(Cardinality(LiveRooms) < MaxRooms)
  <2>1. PICK old \in Evictable : t = [table EXCEPT ![r] = {}, ![old] = NoRoom]
    BY <1>5 DEF WithRoom, LiveRooms
  <2>2. old \in LiveRooms /\ old \in Rooms /\ Peers(old) = {} /\ old # r
    BY <1>5 DEF Evictable, LiveRooms
  <2>3. live = (LiveRooms \ {old}) \cup {r}
    BY <1>0, <1>1, <2>1, <2>2 DEF LiveRooms
  <2>4. IsFiniteSet(LiveRooms \ {old}) /\ Cardinality(LiveRooms \ {old}) = Cardinality(LiveRooms) - 1
    BY <1>1, <2>2, FS_RemoveElement
  <2>5. IsFiniteSet(live) /\ Cardinality(live) = Cardinality(LiveRooms)
    <3>1. r \notin LiveRooms \ {old} /\ Cardinality(LiveRooms) - 1 + 1 = Cardinality(LiveRooms)
      BY <1>1, <1>5
    <3>2. IsFiniteSet(live) /\ Cardinality(live) = Cardinality(LiveRooms \ {old}) + 1
      BY <2>3, <2>4, <3>1, FS_AddElement
    <3> QED BY <2>4, <3>1, <3>2
  <2> QED BY <1>0, <1>1, <1>2, <1>5, <2>1, <2>2, <2>5
<1> QED BY <1>3, <1>4, <1>5

(* A room table that a join or an upgrade leaves behind, once the sessions *)
(* other than s are as they were.                                          *)
LEMMA RoomsKept ==
  ASSUME CollabInv, table' \in [Rooms -> (SUBSET Updates) \cup {NoRoom}],
         \A q \in Rooms : table'[q] = table[q] \/ (Peers(q) = {} /\ table'[q] \in {{}, NoRoom}),
         NEW s \in Sessions, \A x \in Sessions \ {s} : session'[x] = session[x] /\ UNCHANGED <<toServer[x], toClient[x]>>,
         session[s].sent = {}
  PROVE  /\ \A q \in Rooms : FromOperators(q)'
         /\ \A x \in Sessions \ {s} : (OwnEdits(x) /\ Frames(x) /\ UpToDate(x))'
<1>1. ASSUME NEW q \in Rooms PROVE FromOperators(q)'
  BY <1>1, AuthorsKept
<1>2. ASSUME NEW x \in Sessions \ {s} PROVE (OwnEdits(x) /\ Frames(x) /\ UpToDate(x))'
  <2>1. session[x].pc \in {"attached", "open"} => x \in Peers(session[x].room) /\ session[x].room \in Rooms
    BY DEF CollabInv, OwnEdits, Peers
  <2>2. session[x].pc \in {"attached", "open"} => table'[session[x].room] = table[session[x].room]
    BY <2>1
  <2> QED BY <1>2, <2>2, Untouched
<1> QED BY <1>1, <1>2

(* A session joins a room, which is made if there is none.                 *)
LEMMA JoinKeeps ==
  ASSUME CollabInv, NEW s \in Sessions, NEW r \in Rooms, NEW role \in {"viewer", "operator"}, Join(s, r, role)
  PROVE  CollabInv'
<1>1. session[s].pc = "out" /\ UNCHANGED <<toServer, toClient>>
  BY DEF Join
<1>2. /\ session[s].sent = {} /\ session[s].doc = {} /\ toServer[s] = <<>> /\ toClient[s] = <<>>
      /\ session[s] \in SessionRecords
  BY <1>1 DEF CollabInv, OwnEdits, Frames
<1>3. /\ session' \in [Sessions -> SessionRecords]
      /\ \A x \in Sessions \ {s} : session'[x] = session[x]
      /\ session'[s].pc \in {"joined", "closed"} /\ session'[s].sent = {} /\ session'[s].doc = {}
      /\ session'[s].pc = "joined" => session'[s].room \in Rooms
      /\ \A n \in 1..session'[s].edits : FALSE
  <2>1. CASE session' = [session EXCEPT ![s] = [Outside EXCEPT !.pc = "joined", !.room = r, !.role = role]]
    <3>1. 0 \in 0..MaxEdits
      BY CollabAssumption
    <3>2. session'[s].edits = 0 /\ \A n \in 1..0 : FALSE
      BY <2>1 DEF Outside, CollabInv
    <3>3. \A n \in 1..session'[s].edits : FALSE
      BY <3>2
    <3>4. /\ session' \in [Sessions -> SessionRecords]
          /\ \A x \in Sessions \ {s} : session'[x] = session[x]
          /\ session'[s].pc \in {"joined", "closed"} /\ session'[s].sent = {} /\ session'[s].doc = {}
          /\ session'[s].pc = "joined" => session'[s].room \in Rooms
      BY <2>1, <3>1 DEF Outside, SessionRecords, CollabInv
    <3> QED BY <3>3, <3>4
  <2>2. CASE Goto(s, "closed")
    <3>1. \A n \in 1..session[s].edits : FALSE
      BY <1>2 DEF CollabInv, OwnEdits
    <3> QED BY <1>2, <2>2, <3>1, Moved
  <2> QED BY <2>1, <2>2 DEF Join
<1>4. /\ table' \in [Rooms -> (SUBSET Updates) \cup {NoRoom}]
      /\ \A q \in Rooms : table'[q] = table[q] \/ (Peers(q) = {} /\ table'[q] \in {{}, NoRoom})
      /\ IsFiniteSet(LiveRooms') /\ Cardinality(LiveRooms') <= MaxRooms
  <2>1. CASE table' \in WithRoom(r)
    BY <2>1, RoomTabled DEF LiveRooms
  <2>2. CASE UNCHANGED table
    BY <2>2 DEF CollabInv, LiveRooms
  <2> QED BY <2>1, <2>2 DEF Join
<1>5. \A q \in Rooms : Peers(q)' = Peers(q)
  BY <1>1, <1>3 DEF Peers
<1>6. \A q \in Rooms : (PeersLimited(q) /\ (Peers(q) # {} => table[q] # NoRoom))'
  BY <1>4, <1>5 DEF CollabInv, PeersLimited
<1>7. /\ \A q \in Rooms : FromOperators(q)'
      /\ \A x \in Sessions \ {s} : (OwnEdits(x) /\ Frames(x) /\ UpToDate(x))'
  BY <1>1, <1>2, <1>3, <1>4, RoomsKept
<1>8. (OwnEdits(s) /\ Frames(s) /\ UpToDate(s))'
  <2>1. Range(<<>>) = {}
    BY DEF Range
  <2>2. OwnEdits(s)'
    BY <1>3 DEF OwnEdits, Mine
  <2> QED BY <1>1, <1>2, <1>3, <2>1, <2>2 DEF Frames, UpToDate
<1>9. toServer' \in [Sessions -> Seq(Updates)] /\ toClient' \in [Sessions -> Seq(SUBSET Updates)]
  BY <1>1 DEF CollabInv, Updates
<1>10. \A x \in Sessions : (OwnEdits(x) /\ Frames(x) /\ UpToDate(x))'
  BY <1>7, <1>8
<1> QED BY <1>3, <1>4, <1>6, <1>7, <1>9, <1>10 DEF CollabInv, SessionRecords, Updates

(* The upgraded socket is sent the room's document.                        *)
LEMMA AttachKeeps ==
  ASSUME CollabInv, NEW s \in Sessions, Attach(s)
  PROVE  CollabInv'
<1>0. session[s].pc = "joined" /\ session[s].room \in Rooms /\ UNCHANGED toServer
  BY DEF Attach, CollabInv, OwnEdits
<1>1. PICK r \in Rooms : r = session[s].room /\ session[s].pc = "joined" /\ UNCHANGED toServer
  BY <1>0
<1>2. session[s].sent = {} /\ session[s].doc = Mine(s) /\ toServer[s] = <<>> /\ toClient[s] = <<>>
  BY <1>1 DEF CollabInv, OwnEdits, Frames
<1>3. /\ table' \in WithRoom(r)
      /\ \/ Goto(s, "closed") /\ UNCHANGED toClient
         \/ /\ ~(Cardinality(Peers(r)) >= MaxPeers)
            /\ Goto(s, "attached") /\ toClient' = [toClient EXCEPT ![s] = <<table'[r]>>]
  BY <1>1 DEF Attach
<1>4. /\ table' \in [Rooms -> (SUBSET Updates) \cup {NoRoom}] /\ table'[r] # NoRoom
      /\ \A q \in Rooms : table'[q] = table[q] \/ (Peers(q) = {} /\ table'[q] \in {{}, NoRoom})
      /\ IsFiniteSet(LiveRooms') /\ Cardinality(LiveRooms') <= MaxRooms
  <2>1. table' \in WithRoom(r)
    BY <1>3
  <2>2. LiveRooms' = {q \in Rooms : table'[q] # NoRoom}
    BY DEF LiveRooms
  <2> QED BY <2>1, <2>2, RoomTabled
<1>5. /\ session' \in [Sessions -> SessionRecords]
      /\ \A x \in Sessions \ {s} : session'[x] = session[x] /\ UNCHANGED <<toServer[x], toClient[x]>>
      /\ session'[s].pc \in {"attached", "closed"} /\ session'[s].sent = {}
      /\ session'[s].doc = session[s].doc /\ session'[s].room = r /\ session'[s].edits = session[s].edits
  BY <1>1, <1>2, <1>3, Moved DEF CollabInv
<1>6. /\ \A q \in Rooms : FromOperators(q)'
      /\ \A x \in Sessions \ {s} : (OwnEdits(x) /\ Frames(x) /\ UpToDate(x))'
  BY <1>2, <1>4, <1>5, RoomsKept
<1>7. OwnEdits(s)'
  BY <1>1, <1>2, <1>5 DEF OwnEdits, Mine, CollabInv
<1>8. Range(<<>>) = {} /\ Range(<<table'[r]>>) = {table'[r]}
  BY DEF Range
<1>9. CASE Goto(s, "closed") /\ UNCHANGED toClient
  <2>1. session'[s].pc = "closed"
    BY <1>9, Moved
  <2>2. (Frames(s) /\ UpToDate(s))'
    BY <1>1, <1>2, <1>5, <1>8, <1>9, <2>1 DEF Frames, UpToDate
  <2>3. \A q \in Rooms : Peers(q)' = Peers(q)
    BY <1>1, <1>5, <2>1 DEF Peers
  <2>4. \A q \in Rooms : (PeersLimited(q) /\ (Peers(q) # {} => table[q] # NoRoom))'
    BY <1>4, <2>3 DEF CollabInv, PeersLimited
  <2>5. toServer' \in [Sessions -> Seq(Updates)] /\ toClient' \in [Sessions -> Seq(SUBSET Updates)]
    BY <1>1, <1>9 DEF CollabInv
  <2> QED BY <1>4, <1>5, <1>6, <1>7, <2>2, <2>4, <2>5 DEF CollabInv, SessionRecords, Updates
<1>10. CASE /\ ~(Cardinality(Peers(r)) >= MaxPeers)
            /\ Goto(s, "attached") /\ toClient' = [toClient EXCEPT ![s] = <<table'[r]>>]
  <2>1. session'[s].pc = "attached"
    BY <1>10, Moved
  <2>2. toClient'[s] = <<table'[r]>> /\ table'[r] \in SUBSET Updates
        /\ toServer' \in [Sessions -> Seq(Updates)] /\ toClient' \in [Sessions -> Seq(SUBSET Updates)]
    BY <1>1, <1>4, <1>10 DEF CollabInv
  <2>3. Frames(s)'
    BY <1>1, <1>2, <1>5, <1>8, <2>1 DEF Frames
  <2>4. UpToDate(s)'
    BY <1>2, <1>5, <1>8, <2>1, <2>2 DEF UpToDate, Mine
  <2>5. /\ Peers(r)' = Peers(r) \cup {s} /\ s \notin Peers(r)
        /\ \A q \in Rooms \ {r} : Peers(q)' = Peers(q)
    BY <1>1, <1>5, <2>1 DEF Peers
  <2>6. PeersLimited(r)'
    <3>1. IsFiniteSet(Peers(r)) /\ Cardinality(Peers(r)) \in Nat /\ MaxPeers \in Nat
      BY <1>1, FS_CardinalityType, CollabAssumption DEF CollabInv, PeersLimited
    <3>2. IsFiniteSet(Peers(r) \cup {s}) /\ Cardinality(Peers(r) \cup {s}) = Cardinality(Peers(r)) + 1
      BY <2>5, <3>1, FS_AddElement
    <3>3. Cardinality(Peers(r) \cup {s}) <= MaxPeers
      BY <1>10, <3>1, <3>2
    <3> QED BY <2>5, <3>2, <3>3 DEF PeersLimited
  <2>7. \A q \in Rooms : (PeersLimited(q) /\ (Peers(q) # {} => table[q] # NoRoom))'
    BY <1>4, <2>5, <2>6 DEF CollabInv, PeersLimited
  <2> QED BY <1>4, <1>5, <1>6, <1>7, <2>2, <2>3, <2>4, <2>7 DEF CollabInv, SessionRecords, Updates
<1> QED BY <1>3, <1>9, <1>10

(* Steps that neither open nor close a room and keep who is where.         *)
LEMMA StaysKeep ==
  ASSUME CollabInv,
         table' \in [Rooms -> (SUBSET Updates) \cup {NoRoom}],
         \A q \in Rooms : table'[q] # NoRoom <=> table[q] # NoRoom,
         session' \in [Sessions -> SessionRecords],
         toServer' \in [Sessions -> Seq(Updates)], toClient' \in [Sessions -> Seq(SUBSET Updates)],
         \A x \in Sessions : session'[x].room = session[x].room,
         \A q \in Rooms : Peers(q)' = Peers(q),
         \A q \in Rooms : FromOperators(q)',
         \A x \in Sessions : (OwnEdits(x) /\ Frames(x) /\ UpToDate(x))'
  PROVE  CollabInv'
<1>1. LiveRooms' = LiveRooms
  BY DEF LiveRooms
<1>2. \A q \in Rooms : (PeersLimited(q) /\ (Peers(q) # {} => table[q] # NoRoom))'
  BY DEF CollabInv, PeersLimited
<1>3. IsFiniteSet(LiveRooms') /\ Cardinality(LiveRooms') <= MaxRooms
  BY <1>1 DEF CollabInv
<1> QED BY <1>2, <1>3 DEF CollabInv, SessionRecords, Updates

(* The client's socket opens.                                              *)
LEMMA ClientOpensKeeps ==
  ASSUME CollabInv, NEW s \in Sessions, ClientOpens(s)
  PROVE  CollabInv'
<1>1. session[s].pc = "attached" /\ Goto(s, "open") /\ UNCHANGED <<table, toServer, toClient>>
  BY DEF ClientOpens
<1>2. /\ session' \in [Sessions -> SessionRecords] /\ session'[s].pc = "open"
      /\ \A x \in Sessions : /\ session'[x].room = session[x].room /\ session'[x].role = session[x].role
                             /\ session'[x].doc = session[x].doc /\ session'[x].edits = session[x].edits
                             /\ session'[x].sent = session[x].sent
                             /\ x # s => session'[x] = session[x]
  BY <1>1, Moved
<1>3. \A q \in Rooms : Peers(q)' = Peers(q)
  BY <1>1, <1>2 DEF Peers
<1>4. \A q \in Rooms : FromOperators(q)'
  BY <1>1, <1>2, AuthorsKept
<1>5. \A x \in Sessions \ {s} : (OwnEdits(x) /\ Frames(x) /\ UpToDate(x))'
  BY <1>1, <1>2, Untouched
<1>6. (OwnEdits(s) /\ Frames(s) /\ UpToDate(s))'
  BY <1>1, <1>2 DEF CollabInv, OwnEdits, Frames, UpToDate, Mine
<1>7. /\ table' \in [Rooms -> (SUBSET Updates) \cup {NoRoom}]
      /\ toServer' \in [Sessions -> Seq(Updates)] /\ toClient' \in [Sessions -> Seq(SUBSET Updates)]
      /\ \A q \in Rooms : table'[q] # NoRoom <=> table[q] # NoRoom
  BY <1>1 DEF CollabInv
<1> QED BY <1>2, <1>3, <1>4, <1>5, <1>6, <1>7, StaysKeep

(* An edit is applied locally, and sent when the socket is open.           *)
LEMMA EditKeeps ==
  ASSUME CollabInv, NEW s \in Sessions, Edit(s)
  PROVE  CollabInv'
<1>1. PICK n \in 1..MaxEdits : n = session[s].edits + 1
  <2>1. session[s].edits \in 0..MaxEdits /\ session[s].edits < MaxEdits /\ MaxEdits \in Nat
    BY CollabAssumption DEF Edit, CollabInv, SessionRecords
  <2> QED BY <2>1
<1> DEFINE u == <<s, n>>
           open == session[s].pc = "open"
<1>2. /\ session[s].pc \in {"joined", "attached", "open"} /\ u \in Updates /\ u[1] = s /\ u[2] = n
      /\ UNCHANGED <<table, toClient>> /\ session[s] \in SessionRecords
  BY DEF Edit, Updates, CollabInv
<1>3. /\ session' = [session EXCEPT ![s].edits = n, ![s].doc = @ \cup {u},
                                    ![s].sent = IF open THEN @ \cup {u} ELSE @]
      /\ toServer' = IF open THEN [toServer EXCEPT ![s] = Append(@, u)] ELSE toServer
  BY <1>1 DEF Edit
<1>4. /\ session' \in [Sessions -> SessionRecords]
      /\ \A x \in Sessions : /\ session'[x].room = session[x].room /\ session'[x].role = session[x].role
                             /\ session'[x].pc = session[x].pc /\ session[x].sent \subseteq session'[x].sent
                             /\ x # s => session'[x] = session[x]
      /\ session'[s].doc = session[s].doc \cup {u} /\ session'[s].edits = n
      /\ session'[s].sent = IF open THEN session[s].sent \cup {u} ELSE session[s].sent
  <2> DEFINE new == [session[s] EXCEPT !.edits = n, !.doc = @ \cup {u},
                                       !.sent = IF open THEN @ \cup {u} ELSE @]
  <2>1. /\ new \in SessionRecords /\ new.room = session[s].room /\ new.role = session[s].role
        /\ new.pc = session[s].pc /\ new.edits = n /\ new.doc = session[s].doc \cup {u}
        /\ new.sent = IF open THEN session[s].sent \cup {u} ELSE session[s].sent
    <3>1. n \in 0..MaxEdits
      OBVIOUS
    <3> QED BY <1>2, <3>1 DEF SessionRecords
  <2>2. session' = [session EXCEPT ![s] = new]
    BY <1>3 DEF CollabInv
  <2> HIDE DEF new
  <2> QED BY <2>1, <2>2 DEF CollabInv
<1>5. /\ toServer' \in [Sessions -> Seq(Updates)]
      /\ \A x \in Sessions \ {s} : toServer'[x] = toServer[x]
      /\ Range(toServer'[s]) = IF open THEN Range(toServer[s]) \cup {u} ELSE Range(toServer[s])
      /\ toServer'[s] # <<>> => open \/ toServer[s] # <<>>
  <2>1. toServer[s] \in Seq(Updates)
    BY DEF CollabInv
  <2>2. Append(toServer[s], u) \in Seq(Updates) /\ Range(Append(toServer[s], u)) = Range(toServer[s]) \cup {u}
    BY <1>2, <2>1, RangeAppend
  <2> QED BY <1>3, <2>2 DEF CollabInv
<1> HIDE DEF u
<1>6. \A q \in Rooms : Peers(q)' = Peers(q)
  BY <1>4 DEF Peers
<1>7. \A q \in Rooms : FromOperators(q)'
  BY <1>2, <1>4, AuthorsKept
<1>8. \A x \in Sessions \ {s} : (OwnEdits(x) /\ Frames(x) /\ UpToDate(x))'
  BY <1>2, <1>4, <1>5, Untouched
<1>9. Mine(s)' = Mine(s) \cup {u}
  BY <1>2, <1>4 DEF Mine
<1>10. OwnEdits(s)'
  <2>0. OwnEdits(s)
    BY DEF CollabInv
  <2>1. /\ \A e \in Mine(s) : e[2] <= session[s].edits
        /\ session[s].edits < n /\ session[s].edits \in Nat /\ n \in Nat
        /\ \A e \in Mine(s) : e[2] \in Nat
    <3>1. \A e \in Mine(s) : e[2] <= session[s].edits
      BY <2>0 DEF OwnEdits
    <3>2. session[s].edits < n /\ session[s].edits \in Nat /\ n \in Nat
      BY <1>1, <1>2 DEF SessionRecords
    <3>3. \A e \in Mine(s) : e[2] \in Nat
      BY <1>2 DEF SessionRecords, Updates, Mine
    <3> QED BY <3>1, <3>2, <3>3
  <2>2. \A e \in Mine(s)' : e[2] <= session'[s].edits
    BY <1>2, <1>4, <1>9, <2>1
  <2>3. \A i \in 1..n : <<s, i>> \in session'[s].doc
    <3>1. \A i \in 1..n : i = n \/ i \in 1..session[s].edits
      BY <1>1, <2>1
    <3>2. \A i \in 1..session[s].edits : <<s, i>> \in session[s].doc
      BY DEF CollabInv, OwnEdits
    <3>3. u = <<s, n>>
      BY <1>2 DEF Updates
    <3> QED BY <1>4, <3>1, <3>2, <3>3
  <2>4. session'[s].sent \subseteq Mine(s)'
    BY <1>4, <1>9, <2>0 DEF OwnEdits
  <2>5. session'[s].pc \in {"joined", "attached"} => session'[s].sent = {} /\ session'[s].doc = Mine(s)'
    BY <1>2, <1>4, <1>9, <2>0 DEF OwnEdits
  <2>6. session'[s].pc \in {"joined", "attached", "open"} /\ session'[s].room \in Rooms
    BY <1>2, <1>4, <2>0 DEF OwnEdits
  <2> QED BY <1>4, <2>2, <2>3, <2>4, <2>5, <2>6 DEF OwnEdits
<1>11. Frames(s)'
  BY <1>2, <1>4, <1>5 DEF CollabInv, Frames
<1>12. UpToDate(s)'
  <2>1. CASE session[s].pc = "joined"
    BY <1>4, <2>1 DEF UpToDate
  <2>2. CASE session[s].pc \in {"attached", "open"}
    <3>1. /\ table[session[s].room] \subseteq session[s].doc \cup UNION Range(toClient[s])
          /\ UNION Range(toClient[s]) \subseteq table[session[s].room]
          /\ session[s].doc \subseteq table[session[s].room] \cup Mine(s)
          /\ session[s].role # "viewer" => session[s].sent \subseteq table[session[s].room] \cup Range(toServer[s])
      BY <2>2 DEF CollabInv, UpToDate
    <3>2. session'[s].role # "viewer" => session'[s].sent \subseteq table[session[s].room] \cup Range(toServer'[s])
      BY <1>4, <1>5, <3>1
    <3>3. session'[s].doc \subseteq table[session[s].room] \cup Mine(s)'
      BY <1>4, <1>9, <3>1
    <3> QED BY <1>2, <1>4, <3>1, <3>2, <3>3 DEF UpToDate
  <2> QED BY <1>2, <2>1, <2>2
<1>13. /\ table' \in [Rooms -> (SUBSET Updates) \cup {NoRoom}] /\ toClient' \in [Sessions -> Seq(SUBSET Updates)]
       /\ \A q \in Rooms : table'[q] # NoRoom <=> table[q] # NoRoom
  BY <1>2 DEF CollabInv
<1> QED BY <1>4, <1>5, <1>6, <1>7, <1>8, <1>10, <1>11, <1>12, <1>13, StaysKeep

-----------------------------------------------------------------------------
(* No session is in a room at first.                                       *)
LEMMA CollabInitial == CollabInit => CollabInv
<1> SUFFICES ASSUME CollabInit PROVE CollabInv
  OBVIOUS
<1>0. 0 \in 0..MaxEdits /\ MaxRooms \in Nat /\ MaxPeers \in Nat
  BY CollabAssumption
<1>1. \A s \in Sessions : session[s] = Outside /\ toServer[s] = <<>> /\ toClient[s] = <<>>
  BY DEF CollabInit
<1>2. \A r \in Rooms : table[r] = NoRoom /\ Peers(r) = {}
  BY <1>1 DEF CollabInit, Peers, Outside
<1>3. /\ table \in [Rooms -> (SUBSET Updates) \cup {NoRoom}]
      /\ toServer \in [Sessions -> Seq(Updates)] /\ toClient \in [Sessions -> Seq(SUBSET Updates)]
  BY DEF CollabInit
<1>4. session \in [Sessions -> SessionRecords]
  BY <1>0 DEF CollabInit, Outside, SessionRecords
<1>5. LiveRooms = {} /\ IsFiniteSet(LiveRooms) /\ Cardinality(LiveRooms) <= MaxRooms
  <2>1. LiveRooms = {}
    BY <1>2 DEF LiveRooms
  <2> QED BY <1>0, <2>1, FS_EmptySet
<1>6. \A r \in Rooms : PeersLimited(r) /\ FromOperators(r) /\ (Peers(r) # {} => table[r] # NoRoom)
  BY <1>0, <1>2, FS_EmptySet DEF PeersLimited, FromOperators
<1>7. \A s \in Sessions : OwnEdits(s) /\ Frames(s) /\ UpToDate(s)
  BY <1>1 DEF OwnEdits, Frames, UpToDate, Mine, Outside, Range
<1> QED BY <1>3, <1>4, <1>5, <1>6, <1>7 DEF CollabInv

(* An update arrives at the server: it is applied and broadcast, unless a  *)
(* viewer sent it.                                                         *)
LEMMA ServerReceivesKeeps ==
  ASSUME CollabInv, NEW s \in Sessions, ServerReceives(s)
  PROVE  CollabInv'
<1>0. /\ toServer[s] # <<>> /\ UNCHANGED session
      /\ toServer' = [toServer EXCEPT ![s] = Tail(@)]
      /\ toServer[s] \in Seq(Updates) /\ session[s] \in SessionRecords
      /\ session[s].pc \in {"open", "left"} /\ session[s].room \in Rooms
  BY DEF ServerReceives, CollabInv, Frames, OwnEdits
<1>1. PICK r \in Rooms, u \in Updates : r = session[s].room /\ u = Head(toServer[s])
  BY <1>0, RangeTail
<1>2. Range(toServer[s]) = {u} \cup Range(Tail(toServer[s])) /\ Tail(toServer[s]) \in Seq(Updates)
  BY <1>0, <1>1, RangeTail
<1>3. u \in session[s].sent /\ u \in session[s].doc /\ u[1] = s
  BY <1>2 DEF CollabInv, Frames, OwnEdits, Mine
<1>4. /\ toServer' \in [Sessions -> Seq(Updates)]
      /\ Range(toServer'[s]) \subseteq Range(toServer[s])
      /\ Range(toServer[s]) = {u} \cup Range(toServer'[s])
      /\ \A x \in Sessions \ {s} : toServer'[x] = toServer[x]
  BY <1>0, <1>2 DEF CollabInv
<1>5. \A q \in Rooms : Peers(q)' = Peers(q)
  BY <1>0 DEF Peers
<1>6. CASE session[s].role = "viewer" /\ UNCHANGED <<table, toClient>>
  <2>1. \A q \in Rooms : FromOperators(q)'
    BY <1>0, <1>6, AuthorsKept
  <2>2. \A x \in Sessions \ {s} : (OwnEdits(x) /\ Frames(x) /\ UpToDate(x))'
    BY <1>0, <1>4, <1>6, Untouched
  <2>3. (OwnEdits(s) /\ Frames(s) /\ UpToDate(s))'
    BY <1>0, <1>4, <1>6 DEF CollabInv, OwnEdits, Frames, UpToDate, Mine
  <2>4. /\ table' \in [Rooms -> (SUBSET Updates) \cup {NoRoom}] /\ session' \in [Sessions -> SessionRecords]
        /\ toClient' \in [Sessions -> Seq(SUBSET Updates)]
        /\ \A q \in Rooms : table'[q] # NoRoom <=> table[q] # NoRoom
        /\ \A x \in Sessions : session'[x].room = session[x].room
    BY <1>0, <1>6 DEF CollabInv
  <2> QED BY <1>4, <1>5, <2>1, <2>2, <2>3, <2>4, StaysKeep
<1>7. CASE /\ session[s].role # "viewer" /\ table' = [table EXCEPT ![r] = @ \cup {u}]
           /\ toClient' = [p \in Sessions |->
                IF p \in Reachable(r) \ {s} THEN Append(toClient[p], {u}) ELSE toClient[p]]
  <2>1. s \in Peers(r) /\ table[r] # NoRoom /\ table[r] \in SUBSET Updates
    BY <1>0, <1>1 DEF Peers, CollabInv
  <2>2. /\ table' \in [Rooms -> (SUBSET Updates) \cup {NoRoom}] /\ table'[r] = table[r] \cup {u}
        /\ \A q \in Rooms \ {r} : table'[q] = table[q]
        /\ \A q \in Rooms : table'[q] # NoRoom <=> table[q] # NoRoom
    <3>1. table[r] \cup {u} \in SUBSET Updates /\ table[r] \cup {u} # NoRoom
      BY <2>1, CollabAssumption DEF Updates
    <3> QED BY <1>7, <2>1, <3>1 DEF CollabInv
  <2>3. \A p \in Sessions : /\ Append(toClient[p], {u}) \in Seq(SUBSET Updates)
                            /\ Range(Append(toClient[p], {u})) = Range(toClient[p]) \cup {{u}}
    <3>1. \A p \in Sessions : toClient[p] \in Seq(SUBSET Updates)
      BY DEF CollabInv
    <3>2. {u} \in SUBSET Updates
      OBVIOUS
    <3> QED BY <3>1, <3>2, RangeAppend
  <2>4. toClient' \in [Sessions -> Seq(SUBSET Updates)]
    BY <1>7, <2>3 DEF CollabInv
  <2>5. \A q \in Rooms : FromOperators(q)'
    <3>1. ASSUME NEW q \in Rooms, table'[q] # NoRoom, NEW e \in table'[q]
          PROVE  /\ e[1] \in Sessions /\ session[e[1]].room = q
                 /\ session[e[1]].role # "viewer" /\ e \in session[e[1]].sent
      <4>1. CASE e \in table[q]
        <5>1. table[q] # NoRoom
          BY <2>2, <3>1
        <5> QED BY <4>1, <5>1 DEF CollabInv, FromOperators
      <4>2. CASE q = r /\ e = u
        BY <1>1, <1>3, <1>7, <4>2
      <4> QED BY <2>2, <3>1, <4>1, <4>2
    <3> QED BY <1>0, <3>1 DEF FromOperators
  <2>6. ASSUME NEW x \in Sessions PROVE (OwnEdits(x) /\ Frames(x) /\ UpToDate(x))'
    <3>1. OwnEdits(x)'
      BY <1>0 DEF CollabInv, OwnEdits, Mine
    <3>2. Frames(x)'
      <4>1. toClient'[x] # <<>> => toClient[x] # <<>> \/ session[x].pc \in {"attached", "open"}
        BY <1>7 DEF Reachable, Peers
      <4>2. toServer'[x] # <<>> => session[x].pc \in {"open", "left"}
        <5>1. toServer[x] # <<>> => session[x].pc \in {"open", "left"}
          BY DEF CollabInv, Frames
        <5> QED BY <1>0, <1>4, <5>1
      <4>3. Range(toServer'[x]) \subseteq session[x].sent
        BY <1>4 DEF CollabInv, Frames
      <4> QED BY <1>0, <4>1, <4>2, <4>3 DEF CollabInv, Frames
    <3>3. UpToDate(x)'
      <4> SUFFICES ASSUME session[x].pc \in {"attached", "open"} PROVE UpToDate(x)'
        BY <1>0 DEF UpToDate
      <4>0. session[x].room \in Rooms
        BY DEF CollabInv, OwnEdits
      <4>1. PICK q \in Rooms : q = session[x].room
        BY <4>0
      <4>2. /\ table[q] \subseteq session[x].doc \cup UNION Range(toClient[x])
            /\ UNION Range(toClient[x]) \subseteq table[q]
            /\ session[x].doc \subseteq table[q] \cup Mine(x)
            /\ session[x].role # "viewer" => session[x].sent \subseteq table[q] \cup Range(toServer[x])
        BY <4>1 DEF CollabInv, UpToDate
      <4>3. /\ table'[q] \subseteq session[x].doc \cup UNION Range(toClient'[x])
            /\ UNION Range(toClient'[x]) \subseteq table'[q]
            /\ session[x].doc \subseteq table'[q] \cup Mine(x)
            /\ session[x].role # "viewer" => session[x].sent \subseteq table'[q] \cup Range(toServer'[x])
        <5>1. CASE q # r
          <6>1. toClient'[x] = toClient[x] /\ table'[q] = table[q] /\ x # s
            BY <1>1, <1>7, <2>2, <4>1, <5>1 DEF Reachable, Peers
          <6> QED BY <1>4, <4>2, <6>1
        <5>2. CASE q = r /\ x = s
          <6>1. toClient'[x] = toClient[x]
            BY <1>7, <5>2
          <6> QED BY <1>3, <1>4, <2>2, <4>2, <5>2, <6>1
        <5>3. CASE q = r /\ x # s
          <6>1. x \in Reachable(r)
            BY <4>1, <5>3 DEF Reachable, Peers
          <6>2. Range(toClient'[x]) = Range(toClient[x]) \cup {{u}}
            BY <1>7, <2>3, <5>3, <6>1
          <6>3. UNION Range(toClient'[x]) = (UNION Range(toClient[x])) \cup {u}
            BY <6>2
          <6> QED BY <1>4, <2>2, <4>2, <5>3, <6>3
        <5> QED BY <5>1, <5>2, <5>3
      <4> QED BY <1>0, <4>1, <4>3 DEF UpToDate, Mine
    <3> QED BY <3>1, <3>2, <3>3
  <2>7. session' \in [Sessions -> SessionRecords] /\ \A x \in Sessions : session'[x].room = session[x].room
    BY <1>0 DEF CollabInv
  <2> QED BY <1>4, <1>5, <2>2, <2>4, <2>5, <2>6, <2>7, StaysKeep
<1> QED BY <1>1, <1>6, <1>7 DEF ServerReceives

-----------------------------------------------------------------------------
(* A frame arrives at a client and is applied.                             *)
LEMMA ClientReceivesKeeps ==
  ASSUME CollabInv, NEW s \in Sessions, ClientReceives(s)
  PROVE  CollabInv'
<1>0. /\ session[s].pc = "open" /\ toClient[s] # <<>> /\ UNCHANGED <<table, toServer>>
      /\ session[s] \in SessionRecords /\ toClient[s] \in Seq(SUBSET Updates) /\ session[s].room \in Rooms
      /\ toClient' = [toClient EXCEPT ![s] = Tail(@)]
      /\ session' = [session EXCEPT ![s].doc = @ \cup Head(toClient[s])]
  BY DEF ClientReceives, CollabInv, OwnEdits
<1>1. PICK r \in Rooms, h \in SUBSET Updates : r = session[s].room /\ h = Head(toClient[s])
  BY <1>0, RangeTail
<1>2. /\ Range(toClient[s]) = {h} \cup Range(Tail(toClient[s])) /\ Tail(toClient[s]) \in Seq(SUBSET Updates)
  BY <1>0, <1>1, RangeTail
<1>3. /\ toClient' \in [Sessions -> Seq(SUBSET Updates)]
      /\ Range(toClient[s]) = {h} \cup Range(toClient'[s])
      /\ \A x \in Sessions \ {s} : toClient'[x] = toClient[x]
  BY <1>0, <1>2 DEF CollabInv
<1>4. /\ session' \in [Sessions -> SessionRecords]
      /\ session'[s].doc = session[s].doc \cup h
      /\ \A x \in Sessions : /\ session'[x].room = session[x].room /\ session'[x].role = session[x].role
                             /\ session'[x].pc = session[x].pc /\ session'[x].edits = session[x].edits
                             /\ session'[x].sent = session[x].sent
                             /\ x # s => session'[x] = session[x]
  BY <1>0, <1>1 DEF CollabInv, SessionRecords
<1>5. \A q \in Rooms : Peers(q)' = Peers(q)
  BY <1>4 DEF Peers
<1>6. \A q \in Rooms : FromOperators(q)'
  BY <1>0, <1>4, AuthorsKept
<1>7. \A x \in Sessions \ {s} : (OwnEdits(x) /\ Frames(x) /\ UpToDate(x))'
  BY <1>0, <1>3, <1>4, Untouched
<1>8. /\ table[r] \subseteq session[s].doc \cup UNION Range(toClient[s])
      /\ UNION Range(toClient[s]) \subseteq table[r]
      /\ session[s].doc \subseteq table[r] \cup Mine(s)
      /\ session[s].role # "viewer" => session[s].sent \subseteq table[r] \cup Range(toServer[s])
  BY <1>0, <1>1 DEF CollabInv, UpToDate
<1>9. h \subseteq table[r] /\ UNION Range(toClient[s]) = h \cup UNION Range(toClient'[s])
  BY <1>3, <1>8
<1>10. Mine(s)' = Mine(s)
  <2>1. table[r] # NoRoom
    BY <1>0, <1>1 DEF CollabInv, Peers
  <2>2. \A u \in h : u[1] = s => u \in session[s].sent
    BY <1>9, <2>1 DEF CollabInv, FromOperators
  <2>3. \A u \in h : u[1] = s => u \in session[s].doc
    BY <2>2 DEF CollabInv, OwnEdits, Mine
  <2> QED BY <1>4, <2>3 DEF Mine
<1>11. OwnEdits(s)'
  <2>1. OwnEdits(s)
    BY DEF CollabInv
  <2> QED BY <1>0, <1>4, <1>10, <2>1 DEF OwnEdits
<1>12. Frames(s)'
  BY <1>0, <1>4 DEF CollabInv, Frames
<1>13. UpToDate(s)'
  <2>1. /\ table[r] \subseteq session'[s].doc \cup UNION Range(toClient'[s])
        /\ UNION Range(toClient'[s]) \subseteq table[r]
        /\ session'[s].doc \subseteq table[r] \cup Mine(s)
    BY <1>4, <1>8, <1>9
  <2> QED BY <1>0, <1>1, <1>4, <1>8, <1>10, <2>1 DEF UpToDate
<1>14. /\ table' \in [Rooms -> (SUBSET Updates) \cup {NoRoom}] /\ toServer' \in [Sessions -> Seq(Updates)]
       /\ \A q \in Rooms : table'[q] # NoRoom <=> table[q] # NoRoom
  BY <1>0 DEF CollabInv
<1> QED BY <1>3, <1>4, <1>5, <1>6, <1>7, <1>11, <1>12, <1>13, <1>14, StaysKeep

(* The client closes its socket.                                           *)
LEMMA ClientLeavesKeeps ==
  ASSUME CollabInv, NEW s \in Sessions, ClientLeaves(s)
  PROVE  CollabInv'
<1>1. /\ session[s].pc \in {"attached", "open"} /\ Goto(s, "left") /\ UNCHANGED <<table, toServer>>
      /\ toClient' = [toClient EXCEPT ![s] = <<>>]
  BY DEF ClientLeaves
<1>2. /\ session' \in [Sessions -> SessionRecords] /\ session'[s].pc = "left"
      /\ \A x \in Sessions : /\ session'[x].room = session[x].room /\ session'[x].role = session[x].role
                             /\ session'[x].doc = session[x].doc /\ session'[x].edits = session[x].edits
                             /\ session'[x].sent = session[x].sent
                             /\ x # s => session'[x] = session[x]
  BY <1>1, Moved
<1>3. \A q \in Rooms : Peers(q)' = Peers(q)
  BY <1>1, <1>2 DEF Peers
<1>4. \A q \in Rooms : FromOperators(q)'
  BY <1>1, <1>2, AuthorsKept
<1>5. /\ toClient' \in [Sessions -> Seq(SUBSET Updates)] /\ toClient'[s] = <<>>
      /\ \A x \in Sessions \ {s} : toClient'[x] = toClient[x]
  BY <1>1 DEF CollabInv
<1>6. \A x \in Sessions \ {s} : (OwnEdits(x) /\ Frames(x) /\ UpToDate(x))'
  BY <1>1, <1>2, <1>5, Untouched
<1>7. (OwnEdits(s) /\ Frames(s) /\ UpToDate(s))'
  BY <1>1, <1>2, <1>5 DEF CollabInv, OwnEdits, Frames, UpToDate, Mine
<1>8. /\ table' \in [Rooms -> (SUBSET Updates) \cup {NoRoom}] /\ toServer' \in [Sessions -> Seq(Updates)]
      /\ \A q \in Rooms : table'[q] # NoRoom <=> table[q] # NoRoom
  BY <1>1 DEF CollabInv
<1> QED BY <1>2, <1>3, <1>4, <1>5, <1>6, <1>7, <1>8, StaysKeep

(* The server refuses a frame and closes the socket.                       *)
LEMMA ServerRejectsKeeps ==
  ASSUME CollabInv, NEW s \in Sessions, ServerRejects(s)
  PROVE  CollabInv'
<1>1. /\ toServer[s] # <<>> /\ session[s].pc \in {"open", "left"} /\ Goto(s, "left") /\ UNCHANGED table
      /\ toServer' = [toServer EXCEPT ![s] = Tail(@)]
      /\ toClient' = [toClient EXCEPT ![s] = <<>>]
  BY DEF ServerRejects, CollabInv, Frames
<1>2. /\ session' \in [Sessions -> SessionRecords] /\ session'[s].pc = "left"
      /\ \A x \in Sessions : /\ session'[x].room = session[x].room /\ session'[x].role = session[x].role
                             /\ session'[x].doc = session[x].doc /\ session'[x].edits = session[x].edits
                             /\ session'[x].sent = session[x].sent
                             /\ x # s => session'[x] = session[x]
  BY <1>1, Moved
<1>3. \A q \in Rooms : Peers(q)' = Peers(q)
  BY <1>1, <1>2 DEF Peers
<1>4. \A q \in Rooms : FromOperators(q)'
  BY <1>1, <1>2, AuthorsKept
<1>5. /\ toClient' \in [Sessions -> Seq(SUBSET Updates)] /\ toClient'[s] = <<>>
      /\ \A x \in Sessions \ {s} : toClient'[x] = toClient[x]
  BY <1>1 DEF CollabInv
<1>6. /\ toServer' \in [Sessions -> Seq(Updates)] /\ Range(toServer'[s]) \subseteq Range(toServer[s])
      /\ \A x \in Sessions \ {s} : toServer'[x] = toServer[x]
  <2>1. toServer[s] \in Seq(Updates)
    BY DEF CollabInv
  <2>2. /\ Range(toServer[s]) = {Head(toServer[s])} \cup Range(Tail(toServer[s]))
        /\ Tail(toServer[s]) \in Seq(Updates)
    BY <1>1, <2>1, RangeTail
  <2> QED BY <1>1, <2>2 DEF CollabInv
<1>7. \A x \in Sessions \ {s} : (OwnEdits(x) /\ Frames(x) /\ UpToDate(x))'
  BY <1>1, <1>2, <1>5, <1>6, Untouched
<1>8. (OwnEdits(s) /\ Frames(s) /\ UpToDate(s))'
  BY <1>1, <1>2, <1>5, <1>6 DEF CollabInv, OwnEdits, Frames, UpToDate, Mine
<1>9. /\ table' \in [Rooms -> (SUBSET Updates) \cup {NoRoom}]
      /\ \A q \in Rooms : table'[q] # NoRoom <=> table[q] # NoRoom
  BY <1>1 DEF CollabInv
<1> QED BY <1>2, <1>3, <1>4, <1>5, <1>6, <1>7, <1>8, <1>9, StaysKeep

(* A room whose peers only became fewer keeps to its limit.                *)
LEMMA FewerPeers ==
  ASSUME CollabInv, NEW r \in Rooms, Peers(r)' \subseteq Peers(r),
         Peers(r)' # {} => table'[r] = table[r]
  PROVE  (PeersLimited(r) /\ (Peers(r) # {} => table[r] # NoRoom))'
<1>1. IsFiniteSet(Peers(r)) /\ Cardinality(Peers(r)) <= MaxPeers /\ (Peers(r) # {} => table[r] # NoRoom)
  BY DEF CollabInv, PeersLimited
<1>2. IsFiniteSet(Peers(r)') /\ Cardinality(Peers(r)') <= Cardinality(Peers(r))
  BY <1>1, FS_Subset
<1>3. Cardinality(Peers(r)) \in Nat /\ Cardinality(Peers(r)') \in Nat /\ MaxPeers \in Nat
  BY <1>1, <1>2, FS_CardinalityType, CollabAssumption
<1>4. IsFiniteSet(Peers(r)') /\ Cardinality(Peers(r)') <= MaxPeers
  BY <1>1, <1>2, <1>3
<1> QED BY <1>1, <1>4 DEF PeersLimited

(* The server sees a socket closed.                                        *)
LEMMA ServerSeesCloseKeeps ==
  ASSUME CollabInv, NEW s \in Sessions, ServerSeesClose(s)
  PROVE  CollabInv'
<1>1. /\ session[s].pc = "left" /\ Goto(s, "closed") /\ UNCHANGED <<table, toClient>>
      /\ toServer' = [toServer EXCEPT ![s] = <<>>]
  BY DEF ServerSeesClose
<1>2. /\ session' \in [Sessions -> SessionRecords] /\ session'[s].pc = "closed"
      /\ \A x \in Sessions : /\ session'[x].room = session[x].room /\ session'[x].role = session[x].role
                             /\ session'[x].doc = session[x].doc /\ session'[x].edits = session[x].edits
                             /\ session'[x].sent = session[x].sent
                             /\ x # s => session'[x] = session[x]
  BY <1>1, Moved
<1>3. \A q \in Rooms : Peers(q)' \subseteq Peers(q)
  BY <1>2 DEF Peers
<1>4. \A q \in Rooms : (PeersLimited(q) /\ (Peers(q) # {} => table[q] # NoRoom))'
  BY <1>1, <1>3, FewerPeers
<1>5. \A q \in Rooms : FromOperators(q)'
  BY <1>1, <1>2, AuthorsKept
<1>6. /\ toServer' \in [Sessions -> Seq(Updates)] /\ toServer'[s] = <<>>
      /\ \A x \in Sessions \ {s} : toServer'[x] = toServer[x]
  BY <1>1 DEF CollabInv
<1>7. \A x \in Sessions \ {s} : (OwnEdits(x) /\ Frames(x) /\ UpToDate(x))'
  BY <1>1, <1>2, <1>6, Untouched
<1>8. (OwnEdits(s) /\ Frames(s) /\ UpToDate(s))'
  <2>1. Range(<<>>) = {}
    BY DEF Range
  <2>2. OwnEdits(s)'
    BY <1>1, <1>2 DEF CollabInv, OwnEdits, Mine
  <2>3. toClient'[s] = <<>>
    BY <1>1 DEF CollabInv, Frames
  <2> QED BY <1>2, <1>6, <2>1, <2>2, <2>3 DEF Frames, UpToDate
<1>9. IsFiniteSet(LiveRooms') /\ Cardinality(LiveRooms') <= MaxRooms
  BY <1>1 DEF CollabInv, LiveRooms
<1>10. /\ table' \in [Rooms -> (SUBSET Updates) \cup {NoRoom}]
       /\ toClient' \in [Sessions -> Seq(SUBSET Updates)]
  BY <1>1 DEF CollabInv
<1>11. \A x \in Sessions : (OwnEdits(x) /\ Frames(x) /\ UpToDate(x))'
  BY <1>7, <1>8
<1> QED BY <1>2, <1>4, <1>5, <1>6, <1>9, <1>10, <1>11 DEF CollabInv, SessionRecords, Updates

(* Fewer rooms keep to the limit too.                                      *)
LEMMA FewerRooms ==
  ASSUME CollabInv, LiveRooms' \subseteq LiveRooms
  PROVE  IsFiniteSet(LiveRooms') /\ Cardinality(LiveRooms') <= MaxRooms
<1>1. IsFiniteSet(LiveRooms) /\ Cardinality(LiveRooms) <= MaxRooms
  BY DEF CollabInv
<1>2. IsFiniteSet(LiveRooms') /\ Cardinality(LiveRooms') <= Cardinality(LiveRooms)
  BY <1>1, FS_Subset
<1>3. Cardinality(LiveRooms) \in Nat /\ Cardinality(LiveRooms') \in Nat /\ MaxRooms \in Nat
  BY <1>1, <1>2, FS_CardinalityType, CollabAssumption
<1> QED BY <1>1, <1>2, <1>3

(* A session that is closed is in order, whatever it was before.           *)
LEMMA ClosedInOrder ==
  ASSUME CollabInv, NEW s \in Sessions, session'[s] = [session[s] EXCEPT !.pc = "closed"],
         toServer'[s] = <<>>, toClient'[s] = <<>>
  PROVE  (OwnEdits(s) /\ Frames(s) /\ UpToDate(s))' /\ session'[s] \in SessionRecords
<1>1. /\ session[s] \in SessionRecords /\ OwnEdits(s)
  BY DEF CollabInv
<1>2. /\ session'[s] \in SessionRecords /\ session'[s].pc = "closed"
      /\ session'[s].doc = session[s].doc /\ session'[s].edits = session[s].edits
      /\ session'[s].sent = session[s].sent
  BY <1>1 DEF SessionRecords
<1>3. Range(<<>>) = {}
  BY DEF Range
<1> QED BY <1>1, <1>2, <1>3 DEF OwnEdits, Frames, UpToDate, Mine

(* A room without peers is evicted.                                        *)
LEMMA CleanupKeeps ==
  ASSUME CollabInv, NEW r \in Rooms, CleanupIdleRoom(r)
  PROVE  CollabInv'
<1>1. /\ Peers(r) = {} /\ table' = [table EXCEPT ![r] = NoRoom] /\ UNCHANGED <<toServer, toClient>>
      /\ session' = [s \in Sessions |->
           IF session[s].room = r /\ session[s].pc = "joined"
           THEN [session[s] EXCEPT !.pc = "closed"] ELSE session[s]]
  BY DEF CleanupIdleRoom, Evictable
<1>2. ASSUME NEW s \in Sessions
      PROVE  /\ session'[s] \in SessionRecords /\ session'[s].room = session[s].room
             /\ session'[s].role = session[s].role /\ session'[s].sent = session[s].sent
             /\ session'[s].pc = session[s].pc \/ (session[s].pc = "joined" /\ session'[s].pc = "closed")
  BY <1>1 DEF CollabInv, SessionRecords
<1>3. /\ table' \in [Rooms -> (SUBSET Updates) \cup {NoRoom}] /\ table'[r] = NoRoom
      /\ \A q \in Rooms \ {r} : table'[q] = table[q]
  BY <1>1 DEF CollabInv
<1>4. \A q \in Rooms : Peers(q)' = Peers(q)
  BY <1>2 DEF Peers
<1>5. \A q \in Rooms : (PeersLimited(q) /\ (Peers(q) # {} => table[q] # NoRoom))'
  BY <1>1, <1>3, <1>4, FewerPeers
<1>6. \A q \in Rooms : FromOperators(q)'
  BY <1>2, <1>3, AuthorsKept
<1>7. ASSUME NEW s \in Sessions PROVE (OwnEdits(s) /\ Frames(s) /\ UpToDate(s))'
  <2>1. CASE session[s].room = r /\ session[s].pc = "joined"
    <3>1. session'[s] = [session[s] EXCEPT !.pc = "closed"]
      BY <1>1, <2>1
    <3>2. toServer'[s] = <<>> /\ toClient'[s] = <<>>
      BY <1>1, <2>1 DEF CollabInv, Frames
    <3> QED BY <3>1, <3>2, ClosedInOrder
  <2>2. CASE ~(session[s].room = r /\ session[s].pc = "joined")
    <3>1. session'[s] = session[s] /\ toServer'[s] = toServer[s] /\ toClient'[s] = toClient[s]
      BY <1>1, <2>2
    <3>2. session[s].pc \in {"attached", "open"} => session[s].room \in Rooms /\ s \in Peers(session[s].room)
      BY DEF CollabInv, OwnEdits, Peers
    <3>3. session[s].pc \in {"attached", "open"} => table'[session[s].room] = table[session[s].room]
      BY <1>1, <1>3, <3>2
    <3> QED BY <3>1, <3>3, Untouched
  <2> QED BY <2>1, <2>2
<1>8. IsFiniteSet(LiveRooms') /\ Cardinality(LiveRooms') <= MaxRooms
  <2>1. LiveRooms' \subseteq LiveRooms
    BY <1>3 DEF LiveRooms
  <2> QED BY <2>1, FewerRooms
<1>9. session' \in [Sessions -> SessionRecords]
  BY <1>1, <1>2
<1>10. toServer' \in [Sessions -> Seq(Updates)] /\ toClient' \in [Sessions -> Seq(SUBSET Updates)]
  BY <1>1 DEF CollabInv
<1> QED BY <1>3, <1>5, <1>6, <1>7, <1>8, <1>9, <1>10 DEF CollabInv, SessionRecords, Updates

(* The crash of an upgrade ends every session and room.                    *)
LEMMA UpgradeThrowsKeeps ==
  ASSUME CollabInv, UpgradeThrows
  PROVE  CollabInv'
<1>1. /\ table' = [r \in Rooms |-> NoRoom]
      /\ toServer' = [s \in Sessions |-> <<>>] /\ toClient' = [s \in Sessions |-> <<>>]
  BY DEF UpgradeThrows
<1>2. PICK spared \in {{"out"}, {"out", "joined"}} :
        session' = [s \in Sessions |->
          IF session[s].pc \in spared THEN session[s] ELSE [session[s] EXCEPT !.pc = "closed"]]
  BY DEF UpgradeThrows
<1>3. ASSUME NEW s \in Sessions
      PROVE  /\ session'[s] \in SessionRecords /\ session'[s].pc \in {"out", "joined", "closed"}
             /\ (OwnEdits(s) /\ Frames(s) /\ UpToDate(s))'
  <2>1. CASE session[s].pc \in spared
    <3>1. session'[s] = session[s] /\ session[s].pc \in {"out", "joined"}
      BY <1>2, <2>1
    <3>2. toServer'[s] = toServer[s] /\ toClient'[s] = toClient[s]
      BY <1>1, <3>1 DEF CollabInv, Frames
    <3>3. (OwnEdits(s) /\ Frames(s) /\ UpToDate(s))'
      BY <3>1, <3>2, Untouched
    <3> QED BY <3>1, <3>3 DEF CollabInv
  <2>2. CASE session[s].pc \notin spared
    <3>1. session'[s] = [session[s] EXCEPT !.pc = "closed"]
      BY <1>2, <2>2
    <3>2. toServer'[s] = <<>> /\ toClient'[s] = <<>>
      BY <1>1
    <3>3. session'[s].pc = "closed"
      BY <3>1 DEF CollabInv, SessionRecords
    <3> QED BY <3>1, <3>2, <3>3, ClosedInOrder
  <2> QED BY <2>1, <2>2
<1>4. \A q \in Rooms : Peers(q)' = {} /\ table'[q] = NoRoom
  BY <1>1, <1>3 DEF Peers
<1>5. \A q \in Rooms : (PeersLimited(q) /\ (Peers(q) # {} => table[q] # NoRoom))'
  BY <1>4, FewerPeers
<1>6. \A q \in Rooms : FromOperators(q)'
  BY <1>4 DEF FromOperators
<1>7. IsFiniteSet(LiveRooms') /\ Cardinality(LiveRooms') <= MaxRooms
  <2>1. LiveRooms' \subseteq LiveRooms
    BY <1>4 DEF LiveRooms
  <2> QED BY <2>1, FewerRooms
<1>8. /\ session' \in [Sessions -> SessionRecords] /\ table' \in [Rooms -> (SUBSET Updates) \cup {NoRoom}]
      /\ toServer' \in [Sessions -> Seq(Updates)] /\ toClient' \in [Sessions -> Seq(SUBSET Updates)]
  <2>1. session' \in [Sessions -> SessionRecords]
    BY <1>2, <1>3
  <2>2. table' \in [Rooms -> (SUBSET Updates) \cup {NoRoom}]
    BY <1>1
  <2>3. toServer' \in [Sessions -> Seq(Updates)] /\ toClient' \in [Sessions -> Seq(SUBSET Updates)]
    BY <1>1
  <2> QED BY <2>1, <2>2, <2>3
<1> QED BY <1>3, <1>5, <1>6, <1>7, <1>8 DEF CollabInv, SessionRecords, Updates

-----------------------------------------------------------------------------
(* Every step of a session, an eviction or a crash preserves CollabInv.    *)
LEMMA CollabStep == CollabInv /\ [CollabNext]_collabVars => CollabInv'
<1> SUFFICES ASSUME CollabInv, [CollabNext]_collabVars PROVE CollabInv'
  OBVIOUS
<1>1. ASSUME NEW s \in Sessions, SessionStep(s) PROVE CollabInv'
  BY <1>1, JoinKeeps, AttachKeeps, ClientOpensKeeps, EditKeeps, ServerReceivesKeeps,
     ServerRejectsKeeps, ClientReceivesKeeps, ClientLeavesKeeps, ServerSeesCloseKeeps DEF SessionStep
<1>2. ASSUME NEW r \in Rooms, CleanupIdleRoom(r) PROVE CollabInv'
  BY <1>2, CleanupKeeps
<1>3. CASE UpgradeThrows
  BY <1>3, UpgradeThrowsKeeps
<1>4. CASE UNCHANGED collabVars
  <2>1. UNCHANGED <<table, session, toServer, toClient>>
    BY <1>4 DEF collabVars
  <2>2. /\ session' \in [Sessions -> SessionRecords] /\ table' \in [Rooms -> (SUBSET Updates) \cup {NoRoom}]
        /\ toServer' \in [Sessions -> Seq(Updates)] /\ toClient' \in [Sessions -> Seq(SUBSET Updates)]
    BY <2>1 DEF CollabInv
  <2>3. \A q \in Rooms : Peers(q)' = Peers(q) /\ FromOperators(q)'
    BY <2>1, AuthorsKept DEF Peers
  <2>4. \A x \in Sessions : (OwnEdits(x) /\ Frames(x) /\ UpToDate(x))'
    BY <2>1, Untouched
  <2> QED BY <2>1, <2>2, <2>3, <2>4, StaysKeep
<1> QED BY <1>1, <1>2, <1>3, <1>4 DEF CollabNext

(* The invariant holds in every state of the rooms.                        *)
THEOREM CollabInvariant == CollabSpec => []CollabInv
BY CollabInitial, CollabStep, PTL DEF CollabSpec

(* The map of rooms, the sessions and their documents keep their types,    *)
(* and neither rooms nor the peers of one exceed their limits.             *)
THEOREM CollabTypeCorrect == CollabSpec => []CollabTypeOK
<1>1. CollabInv => CollabTypeOK
  BY DEF CollabInv, CollabTypeOK, SessionRecords, PeersLimited, LiveRooms
<1> QED BY <1>1, CollabInvariant, PTL

(* Rooms converge: whatever order the joins, edits, frames, evictions,     *)
(* closes and the crash of an upgrade come in, a room with peers is in the *)
(* map, and once its frames have arrived every peer shows its document.    *)
THEOREM RoomsConverge == CollabSpec => []RoomConverges
BY CollabInvariant, CollabImplies, PTL

=============================================================================
