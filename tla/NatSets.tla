------------------------------ MODULE NatSets -------------------------------
(* What the walks and the search for a free id rest on: a set of naturals    *)
(* has a least element.                                                      *)
EXTENDS Naturals, FiniteSetTheorems, WellFoundedInduction, TLAPS

\* A set of naturals that is not empty has a least element: the intervals that
\* end in its members are finite sets, and one of them contains no other.
LEMMA LeastElement ==
    ASSUME NEW S \in SUBSET Nat, S # {}
    PROVE  \E k \in S : \A j \in S : k <= j
<1> DEFINE Below == {0 .. k : k \in S}
           R == StrictSubsetOrdering(Nat)
<1>1. Below # {}
    OBVIOUS
<1>2. Below \subseteq FiniteSubsetsOf(Nat)
  <2> SUFFICES ASSUME NEW k \in S
               PROVE  0 .. k \in FiniteSubsetsOf(Nat)
    OBVIOUS
  <2>1. k \in Int /\ 0 \in Int
    OBVIOUS
  <2>2. IsFiniteSet(0 .. k)
    BY <2>1, FS_Interval
  <2>3. 0 .. k \subseteq Nat
    OBVIOUS
  <2> QED
    BY <2>2, <2>3 DEF FiniteSubsetsOf
<1>3. IsWellFoundedOn(R, FiniteSubsetsOf(Nat))
    BY FS_StrictSubsetOrderingWellFounded
<1>4. PICK b \in Below : \A c \in Below : ~ (<<c, b>> \in R)
  <2> HIDE DEF Below, R
  <2> QED
    BY <1>1, <1>2, <1>3, WFMin
<1>5. PICK k \in S : b = 0 .. k
    BY <1>4
<1>6. ASSUME NEW j \in S, j < k
      PROVE  FALSE
  <2>1. 0 .. j \in Below /\ b \in Below
    BY <1>4
  <2>2. 0 .. j \subseteq b /\ k \in b /\ k \notin 0 .. j /\ b \subseteq Nat
    BY <1>5, <1>6
  <2>3. <<0 .. j, b>> \in R
    BY <2>2 DEF StrictSubsetOrdering
  <2> QED
    BY <1>4, <2>1, <2>3
<1> QED
    BY <1>6
=============================================================================
