--------------------------- MODULE CountingLemmas ---------------------------
(***************************************************************************)
(* What is counted, ranked and selected.  Sums of a function over a finite *)
(* set (SumFunctionOnSet) are the form in which totals are stated: what a  *)
(* ledger has spent, how many features a map shows.  Induction is over a   *)
(* set of subsets rather than over a predicate: a set is finite, so a      *)
(* minimal exception exists.                                               *)
(***************************************************************************)
EXTENDS Integers, Sequences, FiniteSets, Functions, Selections, FiniteSetTheorems, TLAPS

(* A family of subsets of S that holds a set as soon as it holds every set *)
(* with one element less holds them all.                                   *)
LEMMA SubsetInduction ==
  ASSUME NEW S, IsFiniteSet(S), NEW P, {} \in P,
         \A A \in SUBSET S : A # {} /\ (\A x \in A : A \ {x} \in P) => A \in P
  PROVE  \A A \in SUBSET S : A \in P
<1> DEFINE Out == (SUBSET S) \ P
<1>1. SUFFICES ASSUME Out # {} PROVE FALSE
  OBVIOUS
<1>2. IsWellFoundedOn(StrictSubsetOrdering(S), SUBSET S)
  BY FS_StrictSubsetOrderingWellFounded, FS_FiniteSubsetsOfFinite
<1>3. PICK A \in Out : \A B \in Out : <<B, A>> \notin StrictSubsetOrdering(S)
  <2> HIDE DEF Out
  <2>1. Out \subseteq SUBSET S
    BY DEF Out
  <2> QED BY <1>1, <1>2, <2>1, WFMin
<1>4. \A x \in A : A \ {x} \in P
  <2> SUFFICES ASSUME NEW x \in A PROVE A \ {x} \in P
    OBVIOUS
  <2>1. A \ {x} \subseteq A /\ A \ {x} # A /\ A \ {x} \in SUBSET S
    OBVIOUS
  <2>2. <<A \ {x}, A>> \in StrictSubsetOrdering(S)
    BY <2>1 DEF StrictSubsetOrdering
  <2> QED BY <1>3, <2>1, <2>2
<1> QED BY <1>3, <1>4

-----------------------------------------------------------------------------
(* The recursion that SumFunctionOnSet unfolds to.                         *)
Pick(A) == CHOOSE x \in A : TRUE
Unfold(f, g, A) == IF A = {} THEN 0 ELSE f[Pick(A)] + g[A \ {Pick(A)}]
Iter(f, S) == CHOOSE g : g = [A \in SUBSET S |-> Unfold(f, g, A)]

(* The library's sum is that recursion applied to the whole set.           *)
LEMMA SumIter ==
  ASSUME NEW f, NEW S
  PROVE  SumFunctionOnSet(f, S) = Iter(f, S)[S]
  BY DEF SumFunctionOnSet, FoldFunctionOnSet, MapThenFoldSet, Iter, Unfold, Pick

(* The recursion is satisfied at S when the sums of the smaller sets       *)
(* satisfy it.                                                             *)
LEMMA SumExtends ==
  ASSUME NEW f, NEW S, IsFiniteSet(S), 
         \A A \in SUBSET S : A # S /\ A # {} => SumFunctionOnSet(f, A) = f[Pick(A)] + SumFunctionOnSet(f, A \ {Pick(A)}),
         S # {} => SumFunctionOnSet(f, {}) = 0
  PROVE  /\ S = {} => SumFunctionOnSet(f, S) = 0
         /\ S # {} => SumFunctionOnSet(f, S) = f[Pick(S)] + SumFunctionOnSet(f, S \ {Pick(S)})
<1> DEFINE low == [A \in SUBSET S |-> SumFunctionOnSet(f, A)]
           g == [A \in SUBSET S |-> IF A = S THEN Unfold(f, low, S) ELSE SumFunctionOnSet(f, A)]
<1>0. \A A \in SUBSET S : A # {} => Pick(A) \in A
  BY DEF Pick
<1>1. g = [A \in SUBSET S |-> Unfold(f, g, A)]
  <2>1. ASSUME NEW A \in SUBSET S PROVE g[A] = Unfold(f, g, A)
    <3>1. CASE A = {}
      BY <3>1 DEF Unfold
    <3>2. CASE A # {}
      <4>1. Pick(A) \in A /\ A \ {Pick(A)} \in SUBSET S /\ A \ {Pick(A)} # S
        BY <1>0, <3>2
      <4>2. g[A \ {Pick(A)}] = SumFunctionOnSet(f, A \ {Pick(A)}) /\ low[A \ {Pick(A)}] = SumFunctionOnSet(f, A \ {Pick(A)})
        BY <4>1
      <4>3. Unfold(f, g, A) = f[Pick(A)] + SumFunctionOnSet(f, A \ {Pick(A)})
        BY <3>2, <4>2 DEF Unfold
      <4>4. CASE A = S
        <5>1. g[A] = Unfold(f, low, S)
          BY <4>4
        <5> QED BY <3>2, <4>2, <4>3, <4>4, <5>1 DEF Unfold
      <4>5. CASE A # S
        BY <3>2, <4>3, <4>5
      <4> QED BY <4>4, <4>5
    <3> QED BY <3>1, <3>2
  <2> QED BY <2>1
<1>2. Iter(f, S) = [A \in SUBSET S |-> Unfold(f, Iter(f, S), A)]
  <2> HIDE DEF g
  <2> QED BY <1>1 DEF Iter
<1> DEFINE i == Iter(f, S)
<1>3. \A A \in SUBSET S : i[A] = Unfold(f, i, A)
  <2> HIDE DEF i
  <2>1. i = [A \in SUBSET S |-> Unfold(f, i, A)]
    BY <1>2 DEF i
  <2> QED BY <2>1
<1> HIDE DEF g, low, i
<1>4. CASE S = {}
  BY <1>3, <1>4, SumIter DEF Unfold, i
<1>5. CASE S # {}
  <2> DEFINE B == S \ {Pick(S)}
             P == {A \in SUBSET B : i[A] = SumFunctionOnSet(f, A)}
  <2>1. IsFiniteSet(B) /\ B \in SUBSET S /\ B # S
    BY <1>0, <1>5, FS_Subset
  <2> HIDE DEF B
  <2>2. {} \in P
    BY <1>3, <1>5, <2>1 DEF Unfold
  <2>3. \A A \in SUBSET B : A # {} /\ (\A x \in A : A \ {x} \in P) => A \in P
    <3> SUFFICES ASSUME NEW A \in SUBSET B, A # {}, \A x \in A : A \ {x} \in P PROVE A \in P
      OBVIOUS
    <3>1. A \in SUBSET S /\ A # S /\ Pick(A) \in A
      BY <1>0, <2>1
    <3>2. i[A] = f[Pick(A)] + i[A \ {Pick(A)}]
      BY <1>3, <3>1 DEF Unfold
    <3>3. i[A \ {Pick(A)}] = SumFunctionOnSet(f, A \ {Pick(A)})
      BY <3>1
    <3> QED BY <3>1, <3>2, <3>3
  <2>4. B \in P
    <3> HIDE DEF P
    <3>1. \A A \in SUBSET B : A \in P
      BY <2>1, <2>2, <2>3, SubsetInduction
    <3> QED BY <3>1
  <2>5. i[S] = f[Pick(S)] + i[B]
    BY <1>3, <1>5 DEF Unfold, B
  <2> QED BY <1>5, <2>4, <2>5, SumIter DEF i, B
<1> QED BY <1>4, <1>5

(* A sum over a finite set: 0 when it is empty, else the chosen element's  *)
(* value and the sum of the rest.                                          *)
LEMMA SumUnfolds ==
  ASSUME NEW f, NEW S, IsFiniteSet(S)
  PROVE  /\ SumFunctionOnSet(f, {}) = 0
         /\ S # {} => SumFunctionOnSet(f, S) = f[Pick(S)] + SumFunctionOnSet(f, S \ {Pick(S)})
<1>1. SumFunctionOnSet(f, {}) = 0
  <2>1. \A A \in SUBSET {} : A = {}
    OBVIOUS
  <2> QED BY <2>1, FS_EmptySet, SumExtends
<1> DEFINE Right(A) == A # {} => SumFunctionOnSet(f, A) = f[Pick(A)] + SumFunctionOnSet(f, A \ {Pick(A)})
           P == {A \in SUBSET S : \A B \in SUBSET A : Right(B)}
<1>2. {} \in P
  OBVIOUS
<1>3. \A A \in SUBSET S : A # {} /\ (\A x \in A : A \ {x} \in P) => A \in P
  <2> SUFFICES ASSUME NEW A \in SUBSET S, A # {}, \A x \in A : A \ {x} \in P PROVE A \in P
    OBVIOUS
  <2>1. ASSUME NEW B \in SUBSET A, B # A PROVE Right(B)
    <3>1. PICK x \in A : x \notin B
      BY <2>1
    <3>2. A \ {x} \in P /\ B \in SUBSET (A \ {x})
      BY <3>1
    <3> QED BY <3>2
  <2>2. IsFiniteSet(A)
    BY FS_Subset
  <2>3. Right(A)
    <3>1. \A B \in SUBSET A : B # A /\ B # {} =>
            SumFunctionOnSet(f, B) = f[Pick(B)] + SumFunctionOnSet(f, B \ {Pick(B)})
      BY <2>1
    <3> QED BY <1>1, <2>2, <3>1, SumExtends
  <2> HIDE DEF Right
  <2> QED BY <2>1, <2>3
<1>4. S \in P
  <2> HIDE DEF P
  <2>1. \A A \in SUBSET S : A \in P
    BY <1>2, <1>3, SubsetInduction
  <2> QED BY <2>1
<1>5. Right(S)
  BY <1>4
<1> QED BY <1>1, <1>5

-----------------------------------------------------------------------------
(* What a proof about totals cites.                                        *)

(* The sum of natural numbers is one.                                      *)
LEMMA SumType ==
  ASSUME NEW f, NEW S, IsFiniteSet(S), \A x \in S : f[x] \in Nat
  PROVE  SumFunctionOnSet(f, S) \in Nat
<1> DEFINE P == {A \in SUBSET S : SumFunctionOnSet(f, A) \in Nat}
<1>0. \A u : SumFunctionOnSet(u, {}) = 0
  BY FS_EmptySet, SumUnfolds
<1>1. {} \in P
  BY <1>0
<1>2. \A A \in SUBSET S : A # {} /\ (\A x \in A : A \ {x} \in P) => A \in P
  <2> SUFFICES ASSUME NEW A \in SUBSET S, A # {}, \A x \in A : A \ {x} \in P PROVE A \in P
    OBVIOUS
  <2>1. IsFiniteSet(A) /\ Pick(A) \in A
    BY FS_Subset DEF Pick
  <2>2. SumFunctionOnSet(f, A) = f[Pick(A)] + SumFunctionOnSet(f, A \ {Pick(A)})
    BY <2>1, SumUnfolds
  <2> QED BY <2>1, <2>2
<1>3. S \in P
  <2> HIDE DEF P
  <2>1. \A A \in SUBSET S : A \in P
    BY <1>1, <1>2, SubsetInduction
  <2> QED BY <2>1
<1> QED BY <1>3

(* Any element may be taken out first.                                     *)
LEMMA SumRemove ==
  ASSUME NEW f, NEW S, IsFiniteSet(S), \A x \in S : f[x] \in Nat, NEW x \in S
  PROVE  SumFunctionOnSet(f, S) = f[x] + SumFunctionOnSet(f, S \ {x})
<1> DEFINE P == {A \in SUBSET S : \A y \in A : SumFunctionOnSet(f, A) = f[y] + SumFunctionOnSet(f, A \ {y})}
<1>1. {} \in P
  OBVIOUS
<1>2. \A A \in SUBSET S : A # {} /\ (\A y \in A : A \ {y} \in P) => A \in P
  <2> SUFFICES ASSUME NEW A \in SUBSET S, \A z \in A : A \ {z} \in P, NEW y \in A
               PROVE  SumFunctionOnSet(f, A) = f[y] + SumFunctionOnSet(f, A \ {y})
    OBVIOUS
  <2> DEFINE c == Pick(A)
  <2>1. IsFiniteSet(A) /\ c \in A
    BY FS_Subset DEF Pick
  <2>2. SumFunctionOnSet(f, A) = f[c] + SumFunctionOnSet(f, A \ {c})
    BY <2>1, SumUnfolds
  <2> HIDE DEF c
  <2>3. CASE c = y
    BY <2>2, <2>3
  <2>4. CASE c # y
    <3>1. y \in A \ {c} /\ c \in A \ {y} /\ (A \ {c}) \ {y} = (A \ {y}) \ {c}
      BY <2>1, <2>4
    <3>2. /\ SumFunctionOnSet(f, A \ {c}) = f[y] + SumFunctionOnSet(f, (A \ {c}) \ {y})
          /\ SumFunctionOnSet(f, A \ {y}) = f[c] + SumFunctionOnSet(f, (A \ {y}) \ {c})
      BY <2>1, <3>1
    <3>3. IsFiniteSet((A \ {c}) \ {y}) /\ \A z \in (A \ {c}) \ {y} : f[z] \in Nat
      BY <2>1, FS_Subset
    <3>4. SumFunctionOnSet(f, (A \ {c}) \ {y}) \in Nat /\ f[c] \in Nat /\ f[y] \in Nat
      BY <2>1, <3>3, SumType
    <3> QED BY <2>2, <3>1, <3>2, <3>4
  <2> QED BY <2>3, <2>4
<1>3. S \in P
  <2> HIDE DEF P
  <2>1. \A A \in SUBSET S : A \in P
    BY <1>1, <1>2, SubsetInduction
  <2> QED BY <2>1
<1> QED BY <1>3

(* The sum of larger values is larger.                                     *)
LEMMA SumMonotone ==
  ASSUME NEW f, NEW g, NEW S, IsFiniteSet(S), \A x \in S : f[x] \in Nat /\ g[x] \in Nat /\ f[x] <= g[x]
  PROVE  SumFunctionOnSet(f, S) <= SumFunctionOnSet(g, S)
<1> DEFINE P == {A \in SUBSET S : SumFunctionOnSet(f, A) <= SumFunctionOnSet(g, A)}
<1>0. \A u : SumFunctionOnSet(u, {}) = 0
  BY FS_EmptySet, SumUnfolds
<1>1. {} \in P
  BY <1>0
<1>2. \A A \in SUBSET S : A # {} /\ (\A x \in A : A \ {x} \in P) => A \in P
  <2> SUFFICES ASSUME NEW A \in SUBSET S, A # {}, \A x \in A : A \ {x} \in P PROVE A \in P
    OBVIOUS
  <2>1. PICK x \in A : TRUE
    OBVIOUS
  <2>2. IsFiniteSet(A) /\ IsFiniteSet(A \ {x})
    BY FS_Subset
  <2>3. /\ SumFunctionOnSet(f, A) = f[x] + SumFunctionOnSet(f, A \ {x})
        /\ SumFunctionOnSet(g, A) = g[x] + SumFunctionOnSet(g, A \ {x})
    BY <2>2, SumRemove
  <2>4. SumFunctionOnSet(f, A \ {x}) \in Nat /\ SumFunctionOnSet(g, A \ {x}) \in Nat
    BY <2>2, SumType
  <2> QED BY <2>3, <2>4
<1>3. S \in P
  <2> HIDE DEF P
  <2>1. \A A \in SUBSET S : A \in P
    BY <1>1, <1>2, SubsetInduction
  <2> QED BY <2>1
<1> QED BY <1>3

(* Functions equal on a set have the same sum over it.                     *)
LEMMA SumEqual ==
  ASSUME NEW f, NEW g, NEW S, IsFiniteSet(S), \A x \in S : f[x] \in Nat /\ f[x] = g[x]
  PROVE  SumFunctionOnSet(f, S) = SumFunctionOnSet(g, S)
<1>1. SumFunctionOnSet(f, S) <= SumFunctionOnSet(g, S) /\ SumFunctionOnSet(g, S) <= SumFunctionOnSet(f, S)
  BY SumMonotone
<1>2. SumFunctionOnSet(f, S) \in Nat /\ SumFunctionOnSet(g, S) \in Nat
  BY SumType
<1> QED BY <1>1, <1>2

(* A value changed at one element changes the sum by as much.              *)
LEMMA SumChange ==
  ASSUME NEW f, NEW g, NEW S, IsFiniteSet(S), NEW x \in S,
         \A y \in S : f[y] \in Nat /\ g[y] \in Nat, \A y \in S \ {x} : f[y] = g[y]
  PROVE  SumFunctionOnSet(g, S) + f[x] = SumFunctionOnSet(f, S) + g[x]
<1>1. IsFiniteSet(S \ {x})
  BY FS_Subset
<1>2. SumFunctionOnSet(f, S \ {x}) \in Nat /\ SumFunctionOnSet(f, S \ {x}) = SumFunctionOnSet(g, S \ {x})
  BY <1>1, SumType, SumEqual
<1>3. /\ SumFunctionOnSet(f, S) = f[x] + SumFunctionOnSet(f, S \ {x})
      /\ SumFunctionOnSet(g, S) = g[x] + SumFunctionOnSet(g, S \ {x})
  BY SumRemove
<1> QED BY <1>2, <1>3

(* Elements of value 0 may be left out.                                    *)
LEMMA SumSupport ==
  ASSUME NEW f, NEW S, NEW T, IsFiniteSet(S), T \subseteq S,
         \A x \in S : f[x] \in Nat, \A x \in S \ T : f[x] = 0
  PROVE  SumFunctionOnSet(f, S) = SumFunctionOnSet(f, T)
<1> DEFINE P == {A \in SUBSET S : SumFunctionOnSet(f, A) = SumFunctionOnSet(f, A \cap T)}
<1>1. {} \in P
  <2>1. {} \cap T = {}
    OBVIOUS
  <2> QED BY <2>1
<1>2. \A A \in SUBSET S : A # {} /\ (\A x \in A : A \ {x} \in P) => A \in P
  <2> SUFFICES ASSUME NEW A \in SUBSET S, A # {}, \A x \in A : A \ {x} \in P PROVE A \in P
    OBVIOUS
  <2>1. PICK x \in A : TRUE
    OBVIOUS
  <2>2. IsFiniteSet(A) /\ IsFiniteSet(A \ {x}) /\ IsFiniteSet(A \cap T)
    BY FS_Subset
  <2>3. SumFunctionOnSet(f, A) = f[x] + SumFunctionOnSet(f, A \ {x})
    BY <2>2, SumRemove
  <2>4. SumFunctionOnSet(f, A \ {x}) = SumFunctionOnSet(f, (A \ {x}) \cap T)
    BY <2>1
  <2>5. CASE x \in T
    <3>1. x \in A \cap T /\ (A \ {x}) \cap T = (A \cap T) \ {x}
      BY <2>1, <2>5
    <3>2. SumFunctionOnSet(f, A \cap T) = f[x] + SumFunctionOnSet(f, (A \cap T) \ {x})
      BY <2>2, <3>1, SumRemove
    <3> QED BY <2>3, <2>4, <3>1, <3>2
  <2>6. CASE x \notin T
    <3>1. (A \ {x}) \cap T = A \cap T /\ f[x] = 0
      BY <2>6
    <3>2. SumFunctionOnSet(f, A \ {x}) \in Nat
      BY <2>2, SumType
    <3> QED BY <2>3, <2>4, <3>1, <3>2
  <2> QED BY <2>5, <2>6
<1>3. S \in P
  <2> HIDE DEF P
  <2>1. \A A \in SUBSET S : A \in P
    BY <1>1, <1>2, SubsetInduction
  <2> QED BY <2>1
<1>4. S \cap T = T
  OBVIOUS
<1> QED BY <1>3, <1>4

(* The sum over a part is no larger.                                       *)
LEMMA SumSubset ==
  ASSUME NEW f, NEW S, NEW T, IsFiniteSet(S), T \subseteq S, \A x \in S : f[x] \in Nat
  PROVE  SumFunctionOnSet(f, T) <= SumFunctionOnSet(f, S)
<1> DEFINE g == [x \in S |-> IF x \in T THEN f[x] ELSE 0]
<1>1. /\ \A x \in S : g[x] \in Nat /\ g[x] <= f[x]
      /\ \A x \in S \ T : g[x] = 0
      /\ \A x \in T : f[x] \in Nat /\ f[x] = g[x]
  OBVIOUS
<1>2. IsFiniteSet(T)
  BY FS_Subset
<1> HIDE DEF g
<1>3. SumFunctionOnSet(g, S) <= SumFunctionOnSet(f, S)
  BY <1>1, SumMonotone
<1>4. SumFunctionOnSet(g, S) = SumFunctionOnSet(g, T)
  BY <1>1, SumSupport
<1>5. SumFunctionOnSet(f, T) = SumFunctionOnSet(g, T)
  BY <1>1, <1>2, SumEqual
<1> QED BY <1>3, <1>4, <1>5

(* The sum of sums.                                                        *)
LEMMA SumAdd ==
  ASSUME NEW f, NEW g, NEW h, NEW S, IsFiniteSet(S),
         \A x \in S : f[x] \in Nat /\ g[x] \in Nat /\ h[x] = f[x] + g[x]
  PROVE  SumFunctionOnSet(h, S) = SumFunctionOnSet(f, S) + SumFunctionOnSet(g, S)
<1> DEFINE P == {A \in SUBSET S :
                   SumFunctionOnSet(h, A) = SumFunctionOnSet(f, A) + SumFunctionOnSet(g, A)}
<1>0. \A u : SumFunctionOnSet(u, {}) = 0
  BY FS_EmptySet, SumUnfolds
<1>1. {} \in P
  BY <1>0
<1>2. \A A \in SUBSET S : A # {} /\ (\A x \in A : A \ {x} \in P) => A \in P
  <2> SUFFICES ASSUME NEW A \in SUBSET S, A # {}, \A x \in A : A \ {x} \in P PROVE A \in P
    OBVIOUS
  <2>1. PICK x \in A : TRUE
    OBVIOUS
  <2>2. IsFiniteSet(A) /\ IsFiniteSet(A \ {x})
    BY FS_Subset
  <2>3. /\ SumFunctionOnSet(f, A) = f[x] + SumFunctionOnSet(f, A \ {x})
        /\ SumFunctionOnSet(g, A) = g[x] + SumFunctionOnSet(g, A \ {x})
        /\ SumFunctionOnSet(h, A) = h[x] + SumFunctionOnSet(h, A \ {x})
    BY <2>2, SumRemove
  <2>4. SumFunctionOnSet(f, A \ {x}) \in Nat /\ SumFunctionOnSet(g, A \ {x}) \in Nat
    BY <2>2, SumType
  <2> QED BY <2>1, <2>3, <2>4
<1>3. S \in P
  <2> HIDE DEF P
  <2>1. \A A \in SUBSET S : A \in P
    BY <1>1, <1>2, SubsetInduction
  <2> QED BY <2>1
<1> QED BY <1>3
(* A sum does not change when the elements are named otherwise.            *)
LEMMA SumRenamed ==
  ASSUME NEW f, NEW g, NEW h, NEW S, IsFiniteSet(S),
         \A x \in S : f[x] \in Nat /\ g[h[x]] = f[x],
         \A x, y \in S : h[x] = h[y] => x = y
  PROVE  SumFunctionOnSet(g, {h[x] : x \in S}) = SumFunctionOnSet(f, S)
<1> DEFINE Im(A) == {h[x] : x \in A}
           P == {A \in SUBSET S : SumFunctionOnSet(g, Im(A)) = SumFunctionOnSet(f, A)}
<1>0. \A u : SumFunctionOnSet(u, {}) = 0
  BY FS_EmptySet, SumUnfolds
<1>1. {} \in P
  <2>1. Im({}) = {}
    OBVIOUS
  <2> QED BY <1>0, <2>1
<1>2. \A A \in SUBSET S : A # {} /\ (\A x \in A : A \ {x} \in P) => A \in P
  <2> SUFFICES ASSUME NEW A \in SUBSET S, A # {}, \A x \in A : A \ {x} \in P PROVE A \in P
    OBVIOUS
  <2>1. PICK y \in A : TRUE
    OBVIOUS
  <2>2. IsFiniteSet(A) /\ IsFiniteSet(Im(A))
    <3>1. [x \in A |-> h[x]] \in Surjection(A, Im(A))
      BY DEF Surjection
    <3> QED BY <3>1, FS_Subset, FS_Surjection
  <2>3. Im(A \ {y}) = Im(A) \ {h[y]} /\ h[y] \in Im(A)
    OBVIOUS
  <2>4. SumFunctionOnSet(f, A) = f[y] + SumFunctionOnSet(f, A \ {y})
    BY <2>2, SumRemove
  <2>5. \A z \in Im(A) : g[z] \in Nat
    OBVIOUS
  <2>6. SumFunctionOnSet(g, Im(A)) = g[h[y]] + SumFunctionOnSet(g, Im(A) \ {h[y]})
    <3> HIDE DEF Im, P
    <3> QED BY <2>2, <2>3, <2>5, SumRemove
  <2>7. SumFunctionOnSet(g, Im(A \ {y})) = SumFunctionOnSet(f, A \ {y})
    BY <2>1
  <2>8. g[h[y]] = f[y]
    OBVIOUS
  <2> HIDE DEF Im
  <2> QED BY <2>3, <2>4, <2>6, <2>7, <2>8
<1>3. S \in SUBSET S
  OBVIOUS
<1>4. S \in P
  <2> HIDE DEF P
  <2>1. \A A \in SUBSET S : A \in P
    BY <1>1, <1>2, SubsetInduction
  <2> QED BY <2>1
<1> QED BY <1>4

(* The sum of ones is the number of the elements.                          *)
LEMMA SumOfOnes ==
  ASSUME NEW f, NEW S, IsFiniteSet(S), \A x \in S : f[x] = 1
  PROVE  SumFunctionOnSet(f, S) = Cardinality(S)
<1> DEFINE P == {A \in SUBSET S : SumFunctionOnSet(f, A) = Cardinality(A)}
<1>0. \A u : SumFunctionOnSet(u, {}) = 0
  BY FS_EmptySet, SumUnfolds
<1>1. {} \in P
  BY <1>0, FS_EmptySet
<1>2. \A A \in SUBSET S : A # {} /\ (\A x \in A : A \ {x} \in P) => A \in P
  <2> SUFFICES ASSUME NEW A \in SUBSET S, A # {}, \A x \in A : A \ {x} \in P PROVE A \in P
    OBVIOUS
  <2>1. PICK y \in A : TRUE
    OBVIOUS
  <2>2. IsFiniteSet(A)
    BY FS_Subset
  <2>3. SumFunctionOnSet(f, A) = f[y] + SumFunctionOnSet(f, A \ {y})
    BY <2>2, SumRemove
  <2>4. Cardinality(A \ {y}) = Cardinality(A) - 1 /\ Cardinality(A) \in Nat
    BY <2>1, <2>2, FS_RemoveElement, FS_CardinalityType
  <2>5. SumFunctionOnSet(f, A \ {y}) = Cardinality(A \ {y})
    BY <2>1
  <2>6. f[y] = 1
    OBVIOUS
  <2> QED BY <2>3, <2>4, <2>5, <2>6
<1>3. S \in SUBSET S
  OBVIOUS
<1>4. S \in P
  <2> HIDE DEF P
  <2>1. \A A \in SUBSET S : A \in P
    BY <1>1, <1>2, SubsetInduction
  <2> QED BY <2>1
<1> QED BY <1>4

(* Counted by what k says of them, the elements are all counted once.      *)
LEMMA CountedOnce ==
  ASSUME NEW S, IsFiniteSet(S), NEW C, IsFiniteSet(C), NEW k \in [S -> C]
  PROVE  SumFunctionOnSet([c \in C |-> Cardinality({x \in S : k[x] = c})], C) = Cardinality(S)
<1> DEFINE By(A) == [c \in C |-> Cardinality({x \in A : k[x] = c})]
           P == {A \in SUBSET S : SumFunctionOnSet(By(A), C) = Cardinality(A)}
<1>0. ASSUME NEW A \in SUBSET S, NEW c \in C
      PROVE  IsFiniteSet({x \in A : k[x] = c}) /\ By(A)[c] \in Nat
  <2>1. {x \in A : k[x] = c} \subseteq S
    OBVIOUS
  <2>2. IsFiniteSet({x \in A : k[x] = c})
    BY <2>1, FS_Subset
  <2> QED BY <2>2, FS_CardinalityType
<1>1. {} \in P
  <2>1. \A c \in C : By({})[c] = 0
    <3> TAKE c \in C
    <3>1. {x \in {} : k[x] = c} = {}
      OBVIOUS
    <3> QED BY <3>1, FS_EmptySet
  <2>2. \A c \in C : By({})[c] \in Nat
    BY <2>1
  <2>3. {} \subseteq C /\ \A c \in C \ {} : By({})[c] = 0
    BY <2>1
  <2>4. SumFunctionOnSet(By({}), C) = SumFunctionOnSet(By({}), {})
    <3> HIDE DEF By
    <3> QED BY <2>2, <2>3, SumSupport
  <2>5. SumFunctionOnSet(By({}), {}) = 0
    BY FS_EmptySet, SumUnfolds
  <2> QED BY <2>4, <2>5, FS_EmptySet
<1>2. \A A \in SUBSET S : A # {} /\ (\A x \in A : A \ {x} \in P) => A \in P
  <2> SUFFICES ASSUME NEW A \in SUBSET S, A # {}, \A x \in A : A \ {x} \in P PROVE A \in P
    OBVIOUS
  <2>1. PICK y \in A : TRUE
    OBVIOUS
  <2>2. IsFiniteSet(A) /\ A \ {y} \in SUBSET S /\ k[y] \in C
    BY FS_Subset
  <2>3. PICK f, g : f = By(A \ {y}) /\ g = By(A)
    OBVIOUS
  <2>4. \A c \in C : f[c] \in Nat /\ g[c] \in Nat
    BY <1>0, <2>2, <2>3
  <2>5. \A c \in C \ {k[y]} : f[c] = g[c]
    <3> TAKE c \in C \ {k[y]}
    <3>1. {x \in A : k[x] = c} = {x \in A \ {y} : k[x] = c}
      OBVIOUS
    <3> QED BY <2>3, <3>1
  <2>6. g[k[y]] = f[k[y]] + 1
    <3>1. PICK t : t = {x \in A : k[x] = k[y]}
      OBVIOUS
    <3>2. IsFiniteSet(t) /\ y \in t /\ t \ {y} = {x \in A \ {y} : k[x] = k[y]}
      BY <1>0, <2>2, <3>1
    <3>3. Cardinality(t \ {y}) = Cardinality(t) - 1 /\ Cardinality(t) \in Nat
      BY <3>2, FS_RemoveElement, FS_CardinalityType
    <3>4. g[k[y]] = Cardinality(t) /\ f[k[y]] = Cardinality(t \ {y})
      BY <2>2, <2>3, <3>1, <3>2
    <3> QED BY <3>3, <3>4
  <2>7. SumFunctionOnSet(g, C) + f[k[y]] = SumFunctionOnSet(f, C) + g[k[y]]
    <3>1. PICK d \in C : d = k[y]
      BY <2>2
    <3>2. \A c \in C \ {d} : f[c] = g[c]
      BY <2>5, <3>1
    <3>3. SumFunctionOnSet(g, C) + f[d] = SumFunctionOnSet(f, C) + g[d]
      BY <2>4, <3>2, SumChange
    <3> QED BY <3>1, <3>3
  <2>8. SumFunctionOnSet(f, C) = Cardinality(A \ {y})
    BY <2>1, <2>3
  <2>9. Cardinality(A \ {y}) = Cardinality(A) - 1 /\ Cardinality(A) \in Nat
    BY <2>1, <2>2, FS_RemoveElement, FS_CardinalityType
  <2>10. SumFunctionOnSet(g, C) \in Nat
    BY <2>4, SumType
  <2>11. SumFunctionOnSet(g, C) = Cardinality(A)
    <3>1. f[k[y]] \in Nat
      BY <2>2, <2>4
    <3> QED BY <2>6, <2>7, <2>8, <2>9, <2>10, <3>1
  <2> QED BY <2>3, <2>11
<1>3. S \in SUBSET S
  OBVIOUS
<1>4. S \in P
  <2> HIDE DEF P
  <2>1. \A A \in SUBSET S : A \in P
    BY <1>1, <1>2, SubsetInduction
  <2> QED BY <2>1
<1> QED BY <1>4

(* A set of numbers that is not empty has a least one.                     *)
LEMMA LeastIn ==
  ASSUME NEW I, I \subseteq Nat, I # {}
  PROVE  \E i \in I : \A k \in I : i <= k
<1>1. IsWellFoundedOn(OpToRel(<, Nat), Nat)
  BY NatLessThanWellFounded
<1>2. PICK i \in I : \A k \in I : <<k, i>> \notin OpToRel(<, Nat)
  BY <1>1, WFMin
<1>3. \A k \in I : ~(k < i)
  BY <1>2 DEF OpToRel
<1> QED BY <1>3
-----------------------------------------------------------------------------
(* What is kept of a sequence when some of its entries go (Selections).    *)

(* p has some of the entries of q, none of them twice.                     *)
PartOf(p, q) ==
  \E f \in [DOMAIN p -> DOMAIN q] :
    /\ \A m, n \in DOMAIN p : f[m] = f[n] => m = n
    /\ \A n \in DOMAIN p : p[n] = q[f[n]]

(* Positions are counted off by their ranks: each is of one position.      *)
LEMMA Ranks ==
  ASSUME NEW I, I \subseteq Nat, IsFiniteSet(I)
  PROVE  /\ Cardinality(I) \in Nat
         /\ \A n \in 1..Cardinality(I) : \E i \in I : Cardinality({j \in I : j <= i}) = n
         /\ \A i \in I : Cardinality({j \in I : j <= i}) \in 1..Cardinality(I)
         /\ \A i, k \in I : Cardinality({j \in I : j <= i}) = Cardinality({j \in I : j <= k}) => i = k
<1> DEFINE rank(i) == Cardinality({j \in I : j <= i})
           f == [i \in I |-> rank(i)]
<1>1. Cardinality(I) \in Nat
  BY FS_CardinalityType
<1>2. ASSUME NEW i \in I PROVE rank(i) \in 1..Cardinality(I) /\ IsFiniteSet({j \in I : j <= i})
  <2>1. {j \in I : j <= i} \subseteq I /\ i \in {j \in I : j <= i}
    OBVIOUS
  <2>2. IsFiniteSet({j \in I : j <= i}) /\ rank(i) <= Cardinality(I)
    BY <2>1, FS_Subset
  <2>3. rank(i) \in Nat /\ rank(i) # 0
    BY <2>1, <2>2, FS_CardinalityType, FS_EmptySet
  <2> QED BY <1>1, <2>2, <2>3
<1>3. ASSUME NEW i \in I, NEW k \in I, i < k PROVE rank(i) # rank(k)
  <2>1. i \in Nat /\ k \in Nat /\ \A j \in I : j \in Nat
    OBVIOUS
  <2>2. PICK s, t : s = {j \in I : j <= i} /\ t = {j \in I : j <= k}
    OBVIOUS
  <2>3. \A j \in s : j \in t
    BY <1>3, <2>1, <2>2
  <2>4. k \notin s /\ k \in t
    BY <1>3, <2>1, <2>2
  <2>5. IsFiniteSet(t)
    BY <1>2, <2>2
  <2>6. Cardinality(t) # Cardinality(s)
    BY <2>3, <2>4, <2>5, FS_Subset
  <2> QED BY <2>2, <2>6
<1>4. f \in Injection(I, 1..Cardinality(I))
  <2>1. f \in [I -> 1..Cardinality(I)]
    BY <1>2
  <2>2. \A i, k \in I : i < k \/ k < i \/ i = k
    OBVIOUS
  <2>3. \A i, k \in I : f[i] = f[k] => i = k
    BY <1>3, <2>2
  <2> QED BY <2>1, <2>3 DEF Injection, IsInjective
<1>5. IsFiniteSet(1..Cardinality(I)) /\ Cardinality(1..Cardinality(I)) = Cardinality(I)
  BY <1>1, FS_Interval
<1>6. f \in Surjection(I, 1..Cardinality(I))
  BY <1>4, <1>5, FS_Injection
<1>7. \A i, k \in I : rank(i) = rank(k) => i = k
  <2>1. \A i, k \in I : i < k \/ k < i \/ i = k
    OBVIOUS
  <2> QED BY <1>3, <2>1
<1>8. \A n \in 1..Cardinality(I) : \E i \in I : rank(i) = n
  BY <1>6 DEF Surjection
<1> QED BY <1>1, <1>2, <1>7, <1>8

(* What is kept of a sequence is a part of it.                             *)
LEMMA KeptPart ==
  ASSUME NEW S, NEW q \in Seq(S), NEW I \in SUBSET DOMAIN q
  PROVE  Staying(q, I) \in Seq(S) /\ PartOf(Staying(q, I), q)
<1>1. I \subseteq Nat /\ IsFiniteSet(I)
  <2>1. DOMAIN q = 1..Len(q) /\ Len(q) \in Nat
    OBVIOUS
  <2>2. IsFiniteSet(1..Len(q))
    BY <2>1, FS_Interval
  <2>3. I \in SUBSET (1..Len(q)) /\ 1..Len(q) \subseteq Nat
    BY <2>1
  <2> QED BY <2>2, <2>3, FS_Subset
<1> DEFINE rank(i) == Cardinality({j \in I : j <= i})
           f == [n \in 1..Cardinality(I) |-> CHOOSE i \in I : rank(i) = n]
           p == Staying(q, I)
<1>2. Cardinality(I) \in Nat /\ \A n \in 1..Cardinality(I) : f[n] \in I /\ rank(f[n]) = n
  <2>1. /\ Cardinality(I) \in Nat
        /\ \A n \in 1..Cardinality(I) : \E i \in I : rank(i) = n
    BY <1>1, Ranks
  <2>2. ASSUME NEW n \in 1..Cardinality(I) PROVE f[n] \in I /\ rank(f[n]) = n
    <3> HIDE DEF rank
    <3>1. f[n] = CHOOSE i \in I : rank(i) = n
      OBVIOUS
    <3>2. \E i \in I : rank(i) = n
      BY <2>1
    <3> QED BY <3>1, <3>2
  <2> QED BY <2>1, <2>2
<1>3. DOMAIN p = 1..Cardinality(I) /\ \A n \in 1..Cardinality(I) : p[n] = q[f[n]]
  BY DEF Staying
<1>4. f \in [DOMAIN p -> DOMAIN q]
  BY <1>2, <1>3
<1>5. \A m, n \in DOMAIN p : f[m] = f[n] => m = n
  BY <1>2, <1>3
<1>6. p = [n \in 1..Cardinality(I) |-> q[f[n]]]
  BY DEF Staying
<1> HIDE DEF f
<1>7. \A n \in 1..Cardinality(I) : q[f[n]] \in S
  <2>1. \A i \in DOMAIN q : q[i] \in S
    OBVIOUS
  <2> QED BY <1>2, <2>1
<1> HIDE DEF p
<1>8. p \in Seq(S)
  <2>1. PICK c \in Nat : c = Cardinality(I)
    BY <1>2
  <2>2. p \in [1..c -> S]
    BY <1>6, <1>7, <2>1
  <2> QED BY <2>2
<1>9. PartOf(p, q)
  BY <1>3, <1>4, <1>5 DEF PartOf
<1> QED BY <1>8, <1>9 DEF p

(* p has the entries of q at the positions I, each of them, and no others. *)
HasKept(p, q, I) ==
  /\ DOMAIN p = 1..Cardinality(I) /\ Cardinality(I) \in Nat
  /\ \A n \in DOMAIN p : \E i \in I : p[n] = q[i]
  /\ \A i \in I : \E n \in DOMAIN p : p[n] = q[i]

(* What is kept are the entries at the positions that stay.                *)
LEMMA KeptAll ==
  ASSUME NEW q, NEW I, I \subseteq Nat, IsFiniteSet(I)
  PROVE  HasKept(Staying(q, I), q, I)
<1> DEFINE rank(i) == Cardinality({j \in I : j <= i})
<1>1. /\ Cardinality(I) \in Nat
      /\ \A n \in 1..Cardinality(I) : \E i \in I : rank(i) = n
      /\ \A i \in I : rank(i) \in 1..Cardinality(I)
      /\ \A i, k \in I : rank(i) = rank(k) => i = k
  BY Ranks
<1>2. PICK s : s = Staying(q, I)
  OBVIOUS
<1>3. DOMAIN s = 1..Cardinality(I) /\ \A n \in 1..Cardinality(I) : s[n] = q[CHOOSE i \in I : rank(i) = n]
  BY <1>2 DEF Staying
<1> HIDE DEF rank
<1>4. \A n \in 1..Cardinality(I) : \E i \in I : rank(i) = n /\ s[n] = q[i]
  <2> TAKE n \in 1..Cardinality(I)
  <2>1. PICK k : k = CHOOSE i \in I : rank(i) = n
    OBVIOUS
  <2>2. k \in I /\ rank(k) = n
    BY <1>1, <2>1
  <2>3. s[n] = q[k]
    BY <1>3, <2>1
  <2> QED BY <2>2, <2>3
<1>5. \A i \in I : \E n \in 1..Cardinality(I) : s[n] = q[i]
  BY <1>1, <1>4
<1>6. HasKept(s, q, I)
  BY <1>1, <1>3, <1>4, <1>5 DEF HasKept
<1> QED BY <1>2, <1>6

(* Counted off by an order, each gets a number of its own and none is      *)
(* skipped: before[i] are those that come before i.                        *)
LEMMA RankedAll ==
  ASSUME NEW I, IsFiniteSet(I), NEW before \in [I -> SUBSET I],
         \A i \in I : i \notin before[i],
         \A i, k \in I : i = k \/ i \in before[k] \/ k \in before[i],
         \A i, k \in I : k \in before[i] => before[k] \subseteq before[i]
  PROVE  /\ Cardinality(I) \in Nat
         /\ \A i \in I : Cardinality(before[i]) \in 0..(Cardinality(I) - 1)
         /\ \A i, k \in I : k \in before[i] => Cardinality(before[k]) < Cardinality(before[i])
         /\ \A n \in 0..(Cardinality(I) - 1) : \E i \in I : Cardinality(before[i]) = n
<1>1. Cardinality(I) \in Nat
  BY FS_CardinalityType
<1>2. ASSUME NEW i \in I
      PROVE IsFiniteSet(before[i]) /\ Cardinality(before[i]) \in 0..(Cardinality(I) - 1)
  <2>1. before[i] \subseteq I /\ before[i] # I
    OBVIOUS
  <2>2. IsFiniteSet(before[i]) /\ Cardinality(before[i]) <= Cardinality(I) /\ Cardinality(before[i]) # Cardinality(I)
    BY <2>1, FS_Subset
  <2>3. Cardinality(before[i]) \in Nat
    BY <2>2, FS_CardinalityType
  <2> QED BY <1>1, <2>2, <2>3
<1>3. ASSUME NEW i \in I, NEW k \in I, k \in before[i]
      PROVE  Cardinality(before[k]) < Cardinality(before[i])
  <2>1. before[k] \subseteq before[i] /\ before[k] # before[i]
    BY <1>3
  <2>2. Cardinality(before[k]) <= Cardinality(before[i]) /\ Cardinality(before[k]) # Cardinality(before[i])
    BY <1>2, <2>1, FS_Subset
  <2> QED BY <1>1, <1>2, <2>2
<1> DEFINE f == [i \in I |-> Cardinality(before[i])]
<1>4. f \in Injection(I, 0..(Cardinality(I) - 1))
  <2>1. f \in [I -> 0..(Cardinality(I) - 1)]
    BY <1>2
  <2>2. \A i, k \in I : f[i] = f[k] => i = k
    <3>1. \A i, k \in I : k \in before[i] => f[k] < f[i]
      BY <1>3
    <3>2. \A i \in I : f[i] \in Int
      BY <1>2
    <3> HIDE DEF f
    <3> QED BY <3>1, <3>2
  <2> QED BY <2>1, <2>2 DEF Injection, IsInjective
<1>5. /\ IsFiniteSet(0..(Cardinality(I) - 1))
      /\ Cardinality(0..(Cardinality(I) - 1)) = Cardinality(I)
  <2>1. PICK c \in Nat : c = Cardinality(I)
    BY <1>1
  <2>2. IsFiniteSet(0..(c - 1)) /\ Cardinality(0..(c - 1)) = c
    BY FS_Interval
  <2> QED BY <2>1, <2>2
<1>6. f \in Surjection(I, 0..(Cardinality(I) - 1))
  BY <1>4, <1>5, FS_Injection
<1>7. \A n \in 0..(Cardinality(I) - 1) : \E i \in I : Cardinality(before[i]) = n
  BY <1>6 DEF Surjection
<1> QED BY <1>1, <1>2, <1>3, <1>7
=============================================================================
