--------------------------- MODULE SliceTheorems ---------------------------
(***************************************************************************)
(* What the slice operations do, for every slice: the facts the proofs     *)
(* about the registries rest on.                                           *)
(***************************************************************************)
EXTENDS Slices, SequenceTheorems, FiniteSetTheorems, TLAPS

\* A function on 1 .. n is a sequence of length n.
LEMMA FunctionIsSeq ==
  ASSUME NEW S, NEW n \in Nat, NEW f \in [1 .. n -> S]
  PROVE  f \in Seq(S) /\ Len(f) = n
OBVIOUS

\* The positions of an element are a finite set of natural numbers.
LEMMA HitsFinite ==
  ASSUME NEW S, NEW s \in Seq(S), NEW x
  PROVE  /\ IsFiniteSet(Hits(s, x))
         /\ Hits(s, x) \subseteq 1 .. Len(s)
         /\ Copies(s, x) \in Nat
<1>1. Len(s) \in Nat BY LenProperties
<1>2. Hits(s, x) \in SUBSET (1 .. Len(s)) BY DEF Hits
<1>3. IsFiniteSet(1 .. Len(s)) BY <1>1, FS_Interval
<1>4. IsFiniteSet(Hits(s, x)) BY <1>2, <1>3, FS_Subset
<1> QED BY <1>2, <1>4, FS_CardinalityType DEF Copies

\* An element is in a slice iff it has a copy there.
LEMMA CopiesZero ==
  ASSUME NEW S, NEW s \in Seq(S), NEW x
  PROVE  Copies(s, x) = 0 <=> Hits(s, x) = {}
BY HitsFinite, FS_EmptySet DEF Copies

\* A nonempty set of positions has a least one: the initial segments it ends
\* are finite sets, and one of them has no other below it.
LEMMA LeastPosition ==
  ASSUME NEW T \in SUBSET Nat, T # {}
  PROVE  \E k \in T : \A j \in T : k <= j
<1> DEFINE F == {1 .. k : k \in T}
           R == StrictSubsetOrdering(Nat)
<1>1. F \subseteq FiniteSubsetsOf(Nat)
  <2> SUFFICES ASSUME NEW k \in T PROVE 1 .. k \in FiniteSubsetsOf(Nat)
    OBVIOUS
  <2>1. k \in Int OBVIOUS
  <2>2. IsFiniteSet(1 .. k) BY <2>1, FS_Interval
  <2> QED BY <2>2 DEF FiniteSubsetsOf
<1>2. F # {} OBVIOUS
<1>3. IsWellFoundedOn(R, FiniteSubsetsOf(Nat))
  BY FS_StrictSubsetOrderingWellFounded
<1> HIDE DEF R
<1>4. PICK I \in F : \A J \in F : <<J, I>> \notin R
  <2> HIDE DEF F
  <2> QED BY <1>1, <1>2, <1>3, WFMin
<1>5. PICK k \in T : I = 1 .. k OBVIOUS
<1>6. ASSUME NEW j \in T PROVE k <= j
  <2> SUFFICES ASSUME j < k PROVE FALSE OBVIOUS
  <2>1. 1 .. j \subseteq 1 .. k OBVIOUS
  <2>2. k \in 1 .. k /\ k \notin 1 .. j OBVIOUS
  <2>3. <<1 .. j, 1 .. k>> \in R BY <2>1, <2>2 DEF R, StrictSubsetOrdering
  <2> QED BY <1>4, <1>5, <2>3
<1> QED BY <1>6

\* The scan finds the first position that holds the element.
LEMMA FirstHitFinds ==
  ASSUME NEW S, NEW s \in Seq(S), NEW x, Hits(s, x) # {}
  PROVE  /\ FirstHit(s, x) \in 1 .. Len(s)
         /\ s[FirstHit(s, x)] = x
         /\ \A j \in Hits(s, x) : FirstHit(s, x) <= j
<1>1. Hits(s, x) \in SUBSET Nat BY HitsFinite
<1>2. \E k \in Hits(s, x) : \A j \in Hits(s, x) : k <= j
  BY <1>1, LeastPosition
<1>3. /\ FirstHit(s, x) \in Hits(s, x)
      /\ \A j \in Hits(s, x) : FirstHit(s, x) <= j
  BY <1>2 DEF FirstHit
<1> QED BY <1>3 DEF Hits

\* Removing an element leaves a slice that is one shorter.
LEMMA SwapRemoveType ==
  ASSUME NEW S, NEW s \in Seq(S), NEW i \in 1 .. Len(s)
  PROVE  /\ SwapRemove(s, i) \in Seq(S)
         /\ Len(SwapRemove(s, i)) = Len(s) - 1
         /\ \A k \in 1 .. Len(s) - 1 :
              SwapRemove(s, i)[k] = IF k = i THEN s[Len(s)] ELSE s[k]
<1>1. Len(s) \in Nat /\ Len(s) - 1 \in Nat BY LenProperties
<1>2. \A k \in 1 .. Len(s) : s[k] \in S BY ElementOfSeq
<1>3. SwapRemove(s, i) \in [1 .. Len(s) - 1 -> S]
  BY <1>1, <1>2 DEF SwapRemove
<1>4. /\ SwapRemove(s, i) \in Seq(S)
      /\ Len(SwapRemove(s, i)) = Len(s) - 1
  BY <1>1, <1>3, FunctionIsSeq
<1> QED BY <1>4 DEF SwapRemove

\* append adds one copy of what it appends and none of anything else.
LEMMA CopiesAppend ==
  ASSUME NEW S, NEW s \in Seq(S), NEW e \in S, NEW x
  PROVE  Copies(Append(s, e), x) = Copies(s, x) + (IF e = x THEN 1 ELSE 0)
<1> DEFINE n == Len(s)
           H == Hits(s, x)
<1>1. n \in Nat BY LenProperties
<1>2. /\ Len(Append(s, e)) = n + 1
      /\ \A k \in 1 .. n : Append(s, e)[k] = s[k]
      /\ Append(s, e)[n + 1] = e
  BY AppendProperties
<1>3. IsFiniteSet(H) /\ n + 1 \notin H /\ Cardinality(H) \in Nat
  BY <1>1, HitsFinite DEF Copies
<1>4. Hits(Append(s, e), x) = IF e = x THEN H \cup {n + 1} ELSE H
  BY <1>1, <1>2 DEF Hits
<1>5. Cardinality(H \cup {n + 1}) = Cardinality(H) + 1
  BY <1>3, FS_AddElement
<1> QED BY <1>3, <1>4, <1>5 DEF Copies

\* Removal takes away one copy of what stood at i and none of anything else.
LEMMA CopiesSwapRemove ==
  ASSUME NEW S, NEW s \in Seq(S), NEW i \in 1 .. Len(s), NEW x
  PROVE  Copies(SwapRemove(s, i), x) =
           Copies(s, x) - (IF s[i] = x THEN 1 ELSE 0)
<1> DEFINE n == Len(s)
           r == SwapRemove(s, i)
           H == Hits(s, x)
           G == (H \ {n}) \ {i}
<1>1. n \in Nat /\ n >= 1 BY LenProperties
<1>2. /\ Len(r) = n - 1
      /\ \A k \in 1 .. n - 1 : r[k] = IF k = i THEN s[n] ELSE s[k]
  BY SwapRemoveType
<1>3. IsFiniteSet(H) /\ Cardinality(H) \in Nat BY HitsFinite DEF Copies
<1>4. /\ IsFiniteSet(H \ {n})
      /\ Cardinality(H \ {n}) = IF n \in H THEN Cardinality(H) - 1
                                           ELSE Cardinality(H)
  BY <1>3, FS_RemoveElement
<1>5. /\ IsFiniteSet(G)
      /\ Cardinality(G) = IF i \in H \ {n} THEN Cardinality(H \ {n}) - 1
                                           ELSE Cardinality(H \ {n})
  BY <1>4, FS_RemoveElement
<1>6. Cardinality(G \cup {i}) = Cardinality(G) + 1
  BY <1>5, FS_AddElement
<1>7. (n \in H <=> s[n] = x) /\ (i \in H <=> s[i] = x)
  BY <1>1 DEF Hits
<1>8. CASE i = n
  <2>1. Hits(r, x) = H \ {n} BY <1>1, <1>2, <1>8 DEF Hits
  <2> QED BY <1>3, <1>4, <1>7, <1>8, <2>1 DEF Copies
<1>9. CASE i # n
  <2>1. Hits(r, x) = IF s[n] = x THEN G \cup {i} ELSE G
    BY <1>1, <1>2, <1>9 DEF Hits
  <2>2. i \in H \ {n} <=> i \in H BY <1>9
  <2> QED BY <1>3, <1>4, <1>5, <1>6, <1>7, <2>1, <2>2 DEF Copies
<1> QED BY <1>8, <1>9
-----------------------------------------------------------------------------
(***************************************************************************)
(* What a slice or a channel holds, its order left aside.                  *)
(***************************************************************************)

\* append adds what it appends.
LEMMA RangeAppend ==
  ASSUME NEW S, NEW s \in Seq(S), NEW e \in S
  PROVE  Range(Append(s, e)) = Range(s) \cup {e}
<1> DEFINE n == Len(s)
           t == Append(s, e)
<1>1. n \in Nat /\ Len(t) = n + 1 /\ t \in Seq(S)
      /\ (\A k \in 1 .. n : t[k] = s[k]) /\ t[n + 1] = e
  BY LenProperties, AppendProperties
<1>2. Range(s) = {s[k] : k \in 1 .. n} BY RangeEquality
<1>3. Range(t) = {t[k] : k \in 1 .. n + 1}
  <2> HIDE DEF t, n
  <2> QED BY <1>1, RangeEquality
<1> HIDE DEF t, n
<1>4. 1 .. n + 1 = (1 .. n) \cup {n + 1} BY <1>1
<1>5. Range(t) = {t[k] : k \in 1 .. n} \cup {t[n + 1]} BY <1>3, <1>4
<1>6. {t[k] : k \in 1 .. n} = {s[k] : k \in 1 .. n} BY <1>1
<1> QED BY <1>1, <1>2, <1>5, <1>6 DEF t

\* A receive takes the head and leaves the rest.
LEMMA RangeTail ==
  ASSUME NEW S, NEW s \in Seq(S), s # <<>>
  PROVE  /\ Head(s) = s[1] /\ Head(s) \in S /\ Tail(s) \in Seq(S)
         /\ Len(s) \in Nat /\ Len(s) >= 1 /\ Len(Tail(s)) = Len(s) - 1
         /\ \A k \in 1 .. Len(s) - 1 : Tail(s)[k] = s[k + 1]
         /\ Range(s) = {Head(s)} \cup Range(Tail(s))
<1> DEFINE n == Len(s)
           t == Tail(s)
<1>1. /\ n \in Nat /\ n >= 1
      /\ Head(s) = s[1] /\ Head(s) \in S /\ t \in Seq(S) /\ Len(t) = n - 1
      /\ \A k \in 1 .. n - 1 : t[k] = s[k + 1]
  BY LenProperties, EmptySeq, HeadTailProperties
<1>2. Range(s) = {s[k] : k \in 1 .. n} BY RangeEquality
<1>3. Range(t) = {t[k] : k \in 1 .. n - 1}
  <2> HIDE DEF t, n
  <2> QED BY <1>1, RangeEquality
<1>4. ASSUME NEW x PROVE x \in Range(s) <=> x = s[1] \/ x \in Range(t)
  <2> HIDE DEF t, n
  <2>1. ASSUME NEW k \in 1 .. n, x = s[k], k # 1 PROVE x \in Range(t)
    <3>1. k - 1 \in 1 .. n - 1 /\ t[k - 1] = s[(k - 1) + 1] BY <1>1, <2>1
    <3>2. (k - 1) + 1 = k BY <2>1
    <3> QED BY <1>3, <2>1, <3>1, <3>2
  <2>2. ASSUME NEW k \in 1 .. n - 1, x = t[k] PROVE x \in Range(s)
    <3>1. k + 1 \in 1 .. n BY <1>1
    <3> QED BY <1>1, <1>2, <2>2, <3>1
  <2>3. 1 \in 1 .. n BY <1>1
  <2> QED BY <1>2, <1>3, <2>1, <2>2, <2>3
<1> QED BY <1>1, <1>4

\* Removal takes at most what stood at i.
LEMMA RangeSwapRemove ==
  ASSUME NEW S, NEW s \in Seq(S), NEW i \in 1 .. Len(s)
  PROVE  /\ Range(SwapRemove(s, i)) \subseteq Range(s)
         /\ Range(s) \ {s[i]} \subseteq Range(SwapRemove(s, i))
<1> DEFINE n == Len(s)
           t == SwapRemove(s, i)
<1>1. n \in Nat /\ n >= 1 BY LenProperties
<1>2. /\ t \in Seq(S) /\ Len(t) = n - 1
      /\ \A k \in 1 .. n - 1 : t[k] = IF k = i THEN s[n] ELSE s[k]
  BY SwapRemoveType
<1>3. Range(s) = {s[k] : k \in 1 .. n} BY RangeEquality
<1>4. Range(t) = {t[k] : k \in 1 .. n - 1}
  <2> HIDE DEF t, n
  <2> QED BY <1>1, <1>2, RangeEquality
<1> HIDE DEF t
<1>5. ASSUME NEW k \in 1 .. n - 1 PROVE t[k] \in Range(s)
  <2>1. n \in 1 .. n /\ k \in 1 .. n BY <1>1
  <2> QED BY <1>2, <1>3, <2>1
<1>6. ASSUME NEW k \in 1 .. n, s[k] # s[i] PROVE s[k] \in Range(t)
  <2>1. CASE k = n
    <3>1. i \in 1 .. n - 1 /\ t[i] = s[n] BY <1>1, <1>2, <1>6, <2>1
    <3> QED BY <1>4, <2>1, <3>1
  <2>2. CASE k # n
    <3>1. k \in 1 .. n - 1 /\ t[k] = s[k] BY <1>1, <1>2, <1>6, <2>2
    <3> QED BY <1>4, <3>1
  <2> QED BY <2>1, <2>2
<1> QED BY <1>3, <1>4, <1>5, <1>6 DEF t

\* A slice holds an element iff the scan finds it.
LEMMA HitsInRange ==
  ASSUME NEW S, NEW s \in Seq(S), NEW x
  PROVE  Hits(s, x) = {} <=> x \notin Range(s)
BY RangeEquality DEF Hits
=============================================================================
