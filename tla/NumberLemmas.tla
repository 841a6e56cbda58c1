---------------------------- MODULE NumberLemmas ----------------------------
(***************************************************************************)
(* Facts about numbers and finite sets that the proofs of several modules  *)
(* need and the library does not state in a form that these provers use.   *)
(***************************************************************************)
EXTENDS Integers, FiniteSetTheorems, TLAPS

(* A nonempty set of numbers has a least one: the ranges below its         *)
(* elements are well-ordered by inclusion.                                 *)
LEMMA LeastNumber ==
  ASSUME NEW T \in SUBSET Nat, T # {}
  PROVE  \E l \in T : \A k \in T : l <= k
<1> DEFINE R == StrictSubsetOrdering(Nat)
           F == {0 .. (l - 1) : l \in T}
<1>1. IsWellFoundedOn(R, FiniteSubsetsOf(Nat))
  BY FS_StrictSubsetOrderingWellFounded
<1>2. F \subseteq FiniteSubsetsOf(Nat) /\ F # {}
  <2>1. ASSUME NEW l \in T PROVE 0 .. (l - 1) \in FiniteSubsetsOf(Nat)
    BY FS_Interval, l \in Nat DEF FiniteSubsetsOf
  <2> QED
    BY <2>1
<1>3. PICK d \in F : \A e \in F : <<e, d>> \notin R
  <2> HIDE DEF F, R
  <2> QED
    BY <1>1, <1>2, WFMin
<1>4. PICK l \in T : d = 0 .. (l - 1)
  OBVIOUS
<1>5. ASSUME NEW k \in T, k < l
      PROVE  FALSE
  <2>1. 0 .. (k - 1) \in F
    OBVIOUS
  <2>2. k \in Nat /\ l \in Nat
    OBVIOUS
  <2>3. 0 .. (k - 1) \subseteq 0 .. (l - 1)
    BY <1>5, <2>2
  <2>4. k \in 0 .. (l - 1) /\ k \notin 0 .. (k - 1)
    BY <1>5, <2>2
  <2>5. 0 .. (k - 1) \in SUBSET Nat /\ 0 .. (l - 1) \in SUBSET Nat
    BY <2>2
  <2>6. <<0 .. (k - 1), 0 .. (l - 1)>> \in R
    BY <2>3, <2>4, <2>5 DEF StrictSubsetOrdering
  <2> QED
    BY <1>3, <1>4, <2>1, <2>6
<1>6. \A k \in T : l <= k
  BY <1>5
<1> QED
  BY <1>6

-----------------------------------------------------------------------------
(* Products.                                                               *)

LEMMA AtLeastOneTimes ==
  ASSUME NEW b \in Nat, b > 0, NEW c \in Nat
  PROVE  b * c \in Nat /\ c <= b * c
<1>1. PICK a \in Nat : b = a + 1
  <2>1. b - 1 \in Nat /\ b = (b - 1) + 1
    OBVIOUS
  <2> QED
    BY <2>1
<1>2. a * c \in Nat
  OBVIOUS
<1>3. b * c = a * c + c
  BY <1>1
<1> QED
  BY <1>2, <1>3

LEMMA Products ==
  ASSUME NEW a \in Nat, NEW b \in Nat, NEW c \in Nat
  PROVE  /\ a * b \in Nat
         /\ b <= c => a * b <= a * c
         /\ a * (b + 1) = a * b + a
<1>1. a * b \in Nat /\ a * (b + 1) = a * b + a
  OBVIOUS
<1>2. ASSUME b <= c
      PROVE  a * b <= a * c
  <2>1. PICK d \in Nat : c = b + d
    <3>1. c - b \in Nat /\ c = b + (c - b)
      BY <1>2
    <3> QED
      BY <3>1
  <2>2. a * c = a * b + a * d
    BY <2>1
  <2>3. a * d \in Nat
    OBVIOUS
  <2> QED
    BY <1>1, <2>2, <2>3
<1> QED
  BY <1>1, <1>2

-----------------------------------------------------------------------------
(* What lies in two finite sets is no more than both have.                 *)

LEMMA UnionBound ==
  ASSUME NEW S, IsFiniteSet(S), NEW T, IsFiniteSet(T),
         NEW U \in SUBSET (S \cup T)
  PROVE  Cardinality(U) \in Nat /\ Cardinality(U) <= Cardinality(S) + Cardinality(T)
<1>1. /\ IsFiniteSet(S \cup T)
      /\ Cardinality(S \cup T) = Cardinality(S) + Cardinality(T) - Cardinality(S \cap T)
  BY FS_Union
<1>2. /\ Cardinality(S) \in Nat /\ Cardinality(T) \in Nat
      /\ Cardinality(S \cap T) \in Nat /\ Cardinality(S \cup T) \in Nat
  BY <1>1, FS_Intersection, FS_CardinalityType
<1>3. IsFiniteSet(U) /\ Cardinality(U) <= Cardinality(S \cup T)
  BY <1>1, FS_Subset
<1>4. Cardinality(U) \in Nat
  BY <1>3, FS_CardinalityType
<1> QED
  BY <1>1, <1>2, <1>3, <1>4

=============================================================================
