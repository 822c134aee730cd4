------------------------------ MODULE Extremes ------------------------------
(***************************************************************************)
(* The least and the greatest element of a set of numbers, as the proofs   *)
(* about rowids, message ids and tokens need them.                         *)
(***************************************************************************)
EXTENDS Integers, FiniteSetsExt, FiniteSetTheorems, WellFoundedInduction, TLAPS

\* What is below a number, as a set of pairs, is well founded.
LEMMA LessThanWellFounded == IsWellFoundedOn({p \in Nat \X Nat : p[1] < p[2]}, Nat)
  BY NatLessThanWellFounded DEF OpToRel

\* The least-element principle.
LEMMA LeastOf ==
  ASSUME NEW S \in SUBSET Nat, S # {}
  PROVE  \E n \in S : \A m \in S : n <= m
<1> DEFINE Less == {p \in Nat \X Nat : p[1] < p[2]}
<1>1. IsWellFoundedOn(Less, Nat)
  BY LessThanWellFounded
<1>2. \A p : p \in Less <=> p \in Nat \X Nat /\ p[1] < p[2]
  OBVIOUS
<1> HIDE DEF Less
<1>3. PICK n \in S : \A m \in S : ~(<<m, n>> \in Less)
  BY <1>1, WFMin
<1>4. ASSUME NEW m \in S
      PROVE  n <= m
  <2>1. n \in Nat /\ m \in Nat /\ <<m, n>> \in Nat \X Nat
    OBVIOUS
  <2>2. ~(<<m, n>>[1] < <<m, n>>[2])
    BY <1>2, <1>3, <2>1
  <2>3. QED
    BY <2>1, <2>2
<1>5. QED
  BY <1>4

\* A bounded set has a greatest element: where the gap to the bound is least.
LEMMA GreatestOf ==
  ASSUME NEW n \in Nat, NEW S \in SUBSET (0..n), S # {}
  PROVE  \E m \in S : \A i \in S : i <= m
<1> DEFINE Gaps == {n - i : i \in S}
<1>1. Gaps \in SUBSET Nat /\ Gaps # {}
  <2>1. \A i \in S : n - i \in Nat
    OBVIOUS
  <2>2. QED
    BY <2>1
<1> HIDE DEF Gaps
<1>2. PICK gap \in Gaps : \A other \in Gaps : gap <= other
  BY <1>1, LeastOf
<1>3. PICK m \in S : gap = n - m
  BY DEF Gaps
<1>4. \A i \in S : n - m <= n - i
  BY <1>2, <1>3 DEF Gaps
<1>5. QED
  BY <1>4

\* It is what Max chooses.
LEMMA MaxOf ==
  ASSUME NEW n \in Nat, NEW S \in SUBSET (0..n), S # {}
  PROVE  Max(S) \in S /\ \A i \in S : i <= Max(S)
<1>1. PICK m \in S : \A i \in S : m >= i
  BY GreatestOf
<1>2. QED
  BY <1>1 DEF Max

\* A finite set of numbers is bounded: of its subsets without a bound, one of
\* the fewest elements would have one that makes the difference.
LEMMA BoundOf ==
  ASSUME NEW S \in SUBSET Nat, IsFiniteSet(S)
  PROVE  \E n \in Nat : S \in SUBSET (0..n)
<1> DEFINE Bounded(T) == \E n \in Nat : \A i \in T : i <= n
           Sizes == {Cardinality(T) : T \in {T \in SUBSET S : ~Bounded(T)}}
<1>1. \A T \in SUBSET S : IsFiniteSet(T) /\ Cardinality(T) \in Nat
  BY FS_Subset, FS_CardinalityType
<1>2. Sizes = {}
  <2> SUFFICES ASSUME Sizes # {} PROVE FALSE
    OBVIOUS
  <2>1. Sizes \in SUBSET Nat
    BY <1>1
  <2>2. PICK size \in Sizes : \A other \in Sizes : size <= other
    BY <2>1, LeastOf
  <2>3. PICK T \in SUBSET S : ~Bounded(T) /\ size = Cardinality(T)
    BY <2>2
  <2>4. PICK x \in T : x \in Nat
    <3>1. T # {}
      BY <2>3
    <3>2. QED
      BY <2>3, <3>1
  <2>5. Cardinality(T \ {x}) = Cardinality(T) - 1
    BY <1>1, <2>3, <2>4, FS_RemoveElement
  <2>6. Bounded(T \ {x})
    <3>1. ~(size <= Cardinality(T \ {x}))
      BY <1>1, <2>3, <2>5
    <3>2. QED
      BY <2>2, <2>3, <3>1
  <2>7. PICK n \in Nat : \A i \in T \ {x} : i <= n
    BY <2>6
  <2>8. \A i \in T : i <= n + x
    BY <2>3, <2>4, <2>7
  <2>9. QED
    BY <2>3, <2>4, <2>7, <2>8
<1>3. PICK n \in Nat : \A i \in S : i <= n
  <2>1. Bounded(S)
    <3> HIDE DEF Bounded
    <3>1. QED
      BY <1>2
  <2>2. QED
    BY <2>1
<1>4. QED
  BY <1>3

\* So a finite set of numbers, unless it is empty, has its maximum.
LEMMA MaxOfFinite ==
  ASSUME NEW S \in SUBSET Nat, IsFiniteSet(S), S # {}
  PROVE  Max(S) \in S /\ \A i \in S : i <= Max(S)
BY BoundOf, MaxOf
=============================================================================
