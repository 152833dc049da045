---------------------------- MODULE LeastElement ----------------------------
(***************************************************************************)
(* Least and greatest elements of sets of naturals: what pmm_alloc_page's  *)
(* search returns, and the heap block that holds a given byte.             *)
(***************************************************************************)
EXTENDS Integers, FiniteSetsExt, FiniteSetTheorems, WellFoundedInduction, TLAPS

\* FiniteSetsExt's Min of a nonempty set of naturals, finite or not, is its
\* least element.  The initial segments of S are finite, so one of them is
\* minimal for strict inclusion, and it is the segment of the least element.
LEMMA MinIsLeast ==
  ASSUME NEW S \in SUBSET Nat, S # {}
  PROVE  /\ Min(S) \in S
         /\ \A n \in S : Min(S) <= n
<1> DEFINE Below(i) == {j \in S : j <= i}
           Segments == {Below(i) : i \in S}
<1>1. \A i \in S : Below(i) \in FiniteSubsetsOf(S)
  <2> SUFFICES ASSUME NEW i \in S
               PROVE  Below(i) \in FiniteSubsetsOf(S)
    OBVIOUS
  <2>1. IsFiniteSet(0 .. i)
    BY FS_Interval
  <2>2. ASSUME NEW j \in Below(i)
        PROVE  j \in 0 .. i
    <3>1. j \in Nat /\ i \in Nat /\ j <= i
      OBVIOUS
    <3> QED
      BY <3>1
  <2>3. IsFiniteSet(Below(i))
    <3>1. Below(i) \in SUBSET (0 .. i)
      BY <2>2
    <3> QED
      BY <2>1, <3>1, FS_Subset, Zenon
  <2> QED
    BY <2>3 DEF FiniteSubsetsOf
<1>2. Segments # {} /\ Segments \subseteq FiniteSubsetsOf(S)
  BY <1>1
<1> HIDE DEF Segments
<1>3. PICK T \in Segments :
        \A U \in Segments : ~(<<U, T>> \in StrictSubsetOrdering(S))
  BY <1>2, FS_StrictSubsetOrderingWellFounded, WFMin, Zenon
<1>4. PICK m \in S : T = Below(m)
  BY <1>3 DEF Segments
<1>5. \A n \in S : m <= n
  <2> SUFFICES ASSUME NEW n \in S, ~(m <= n)
               PROVE  FALSE
    OBVIOUS
  <2>1. Below(n) \in Segments
    BY DEF Segments
  <2>2. n \in Nat /\ m \in Nat /\ n < m /\ \A j \in S : j \in Nat
    OBVIOUS
  <2>3. Below(n) \subseteq Below(m) /\ m \in Below(m) /\ m \notin Below(n)
    <3>1. ASSUME NEW j \in Below(n)
          PROVE  j \in Below(m)
      <4>1. j \in S /\ j \in Nat /\ j <= n
        BY <2>2
      <4> QED
        BY <2>2, <4>1
    <3>2. m \in Below(m) /\ m \notin Below(n)
      BY <2>2
    <3>3. Below(n) \subseteq Below(m)
      BY <3>1, Zenon
    <3> QED
      BY <3>2, <3>3
  <2>4. <<Below(n), T>> \in StrictSubsetOrdering(S)
    BY <2>3, <1>4 DEF StrictSubsetOrdering
  <2> QED
    BY <2>1, <2>4, <1>3
<1> QED
  BY <1>5 DEF Min

\* A nonempty set of naturals that are at most n has a greatest element.
LEMMA GreatestBounded ==
  ASSUME NEW n \in Nat, NEW S \in SUBSET (0 .. n), S # {}
  PROVE  \E m \in S : \A x \in S : x <= m
<1> DEFINE Mirror == {n - x : x \in S}
<1>0. \A x \in S : x \in Nat /\ x <= n
  OBVIOUS
<1>1. Mirror \in SUBSET Nat /\ Mirror # {}
  <2>1. \A x \in S : n - x \in Nat
    BY <1>0
  <2> QED
    BY <2>1
<1>2. PICK m \in S : Min(Mirror) = n - m
  BY <1>1, MinIsLeast
<1>3. ASSUME NEW x \in S PROVE x <= m
  <2>1. n - m <= n - x
    BY <1>1, <1>2, MinIsLeast
  <2>2. x \in Nat /\ m \in Nat
    BY <1>0
  <2> QED
    BY <2>1, <2>2
<1> QED
  BY <1>3
==============================================================================
