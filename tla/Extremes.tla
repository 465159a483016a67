------------------------------ MODULE Extremes ------------------------------
(***************************************************************************)
(* Least and greatest numbers of a set.  A property of every number is     *)
(* proved from the first by looking at the least one that does not have    *)
(* it.                                                                     *)
(***************************************************************************)
EXTENDS Integers, FiniteSetsExt, WellFoundedInduction, TLAPS

\* The order of the naturals is well founded.
LEMMA LeastExists ==
    ASSUME NEW T, T \subseteq Nat, T # {}
    PROVE  \E n \in T : \A m \in T : n <= m
<1> DEFINE R == OpToRel(<, Nat)
<1>1. IsWellFoundedOn(R, Nat)
  BY NatLessThanWellFounded
<1>2. \A x, y \in Nat : ~(<<y, x>> \in R) => x <= y
  BY DEF OpToRel
<1> HIDE DEF R
<1>3. PICK n \in T : \A m \in T : ~(<<m, n>> \in R)
  BY <1>1, WFMin
<1>4. \A m \in T : n \in Nat /\ m \in Nat
  OBVIOUS
<1>5. QED
  BY <1>2, <1>3, <1>4

\* A number that all others are below is what is least above them.
LEMMA GreatestExists ==
    ASSUME NEW top \in Nat, NEW T, T \subseteq 0..top, T # {}
    PROVE  \E n \in T : \A m \in T : m <= n
<1> DEFINE Bounds == {b \in 0..top : \A m \in T : m <= b}
<1>1. PICK n \in Bounds : \A b \in Bounds : n <= b
  <2>1. top \in Bounds /\ Bounds \subseteq Nat
    OBVIOUS
  <2> HIDE DEF Bounds
  <2>2. QED
    BY <2>1, LeastExists
<1>2. CASE n \in T
  BY <1>2
<1>3. CASE n \notin T
  <2>1. n \in 0..top /\ \A m \in T : m <= n /\ m # n /\ m \in 0..top
    BY <1>3
  <2>2. n - 1 \in Bounds
    <3>1. \A m \in T : m <= n - 1 /\ 0 <= n - 1
      BY <2>1
    <3>2. 0 <= n - 1
      BY <3>1
    <3>3. n - 1 \in 0..top
      BY <2>1, <3>2
    <3>4. QED
      BY <3>1, <3>3
  <2>3. QED
    BY <1>1, <2>1, <2>2
<1>4. QED
  BY <1>2, <1>3

\* Min and Max of the community modules.
LEMMA MinIsLeast ==
    ASSUME NEW T, T \subseteq Nat, T # {}
    PROVE  Min(T) \in T /\ \A m \in T : Min(T) <= m
BY LeastExists DEF Min

LEMMA MaxIsGreatest ==
    ASSUME NEW top \in Nat, NEW T, T \subseteq 0..top, T # {}
    PROVE  Max(T) \in T /\ \A m \in T : m <= Max(T)
<1>1. PICK n \in T : \A m \in T : m <= n
  BY GreatestExists
<1>2. \E x \in T : \A m \in T : x >= m
  <2>1. \A m \in T : n >= m
    BY <1>1
  <2>2. QED
    BY <2>1
<1>3. Max(T) \in T /\ \A m \in T : Max(T) >= m
  BY <1>2 DEF Max
<1>4. QED
  BY <1>3

=============================================================================
