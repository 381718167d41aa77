---------------------------- MODULE FiniteOrders ----------------------------
(***************************************************************************)
(* Least elements and ascending lists of sets of naturals.                 *)
(***************************************************************************)
EXTENDS Integers, FiniteSets, FiniteSetTheorems, WellFoundedInduction, TLAPS

\* A finite set of naturals that is not empty has a least element.
LEMMA LeastElement ==
  ASSUME NEW S \in SUBSET Nat, S # {}
  PROVE  \E x \in S : \A y \in S : x <= y
<1>1. PICK x \in S : \A y \in S : ~ (<<y, x>> \in OpToRel(<, Nat))
  BY NatLessThanWellFounded, WFMin
<1>2. \A y \in S : ~ (y < x)
  BY <1>1 DEF OpToRel
<1>3. QED
  BY <1>2

Ascending(S) ==
  {q \in [1 .. Cardinality(S) -> S] :
     \A i, j \in 1 .. Cardinality(S) : i < j => q[i] < q[j]}

\* Every finite set of naturals has an ascending list: the smallest set without one
\* has a least element, and the list of the others can be put behind that.
LEMMA AscendingExists ==
  ASSUME NEW S \in SUBSET Nat, IsFiniteSet(S)
  PROVE  Ascending(S) # {}
<1> DEFINE Bad == {k \in Nat : \E T \in SUBSET Nat :
                     IsFiniteSet(T) /\ Cardinality(T) = k /\ Ascending(T) = {}}
<1>1. SUFFICES ASSUME Ascending(S) = {} PROVE FALSE
  OBVIOUS
<1>2. Cardinality(S) \in Bad
  BY <1>1, FS_CardinalityType
<1>3. PICK k \in Bad : \A l \in Bad : k <= l
  <2>1. Bad \in SUBSET Nat /\ Bad # {}
    BY <1>2
  <2> HIDE DEF Bad
  <2>2. QED
    BY <2>1, LeastElement
<1>4. PICK T \in SUBSET Nat : IsFiniteSet(T) /\ Cardinality(T) = k /\ Ascending(T) = {}
  BY <1>3
<1>5. T # {}
  <2>1. SUFFICES ASSUME T = {} PROVE FALSE
    OBVIOUS
  <2>2. Cardinality(T) = 0
    BY <2>1, FS_EmptySet
  <2>3. <<>> \in Ascending(T)
    BY <2>1, <2>2 DEF Ascending
  <2>4. QED
    BY <2>3, <1>4
<1>6. PICK x \in T : \A y \in T : x <= y
  BY <1>5, LeastElement
<1> DEFINE R == T \ {x}
<1>7. IsFiniteSet(R) /\ Cardinality(R) = k - 1 /\ k - 1 \in Nat
  <2>1. IsFiniteSet(R) /\ Cardinality(R) = k - 1
    BY <1>4, <1>6, FS_RemoveElement
  <2>2. QED
    BY <2>1, FS_CardinalityType
<1>8. Ascending(R) # {}
  <2>1. SUFFICES ASSUME Ascending(R) = {} PROVE FALSE
    OBVIOUS
  <2>2. k - 1 \in Bad
    BY <2>1, <1>7
  <2>3. k \in Nat
    BY <1>3
  <2> HIDE DEF Bad
  <2>4. QED
    BY <2>2, <2>3, <1>3
<1>9. PICK r : r \in Ascending(R)
  BY <1>8
<1>10. r \in [1 .. k - 1 -> R] /\ \A i, j \in 1 .. k - 1 : i < j => r[i] < r[j]
  BY <1>9, <1>7 DEF Ascending
<1> DEFINE q == [i \in 1 .. k |-> IF i = 1 THEN x ELSE r[i - 1]]
<1>11. q \in [1 .. k -> T]
  <2>1. \A i \in 1 .. k : i # 1 => i - 1 \in 1 .. k - 1
    BY <1>7
  <2>2. \A i \in 1 .. k : q[i] \in T
    BY <2>1, <1>10, <1>6
  <2>3. QED
    BY <2>2
<1>12. \A i, j \in 1 .. k : i < j => q[i] < q[j]
  <2>1. SUFFICES ASSUME NEW i \in 1 .. k, NEW j \in 1 .. k, i < j PROVE q[i] < q[j]
    OBVIOUS
  <2>2. j # 1 /\ j - 1 \in 1 .. k - 1 /\ q[j] = r[j - 1] /\ r[j - 1] \in R
    BY <2>1, <1>7, <1>10
  <2>3. CASE i = 1
    <3>1. q[i] = x
      BY <2>3, <2>1
    <3>2. r[j - 1] \in T /\ r[j - 1] # x
      BY <2>2
    <3>3. x <= r[j - 1] /\ x \in Nat /\ r[j - 1] \in Nat
      BY <3>2, <1>6, <1>4
    <3>4. QED
      BY <3>1, <3>2, <3>3, <2>2
  <2>4. CASE i # 1
    <3>1. i - 1 \in 1 .. k - 1 /\ q[i] = r[i - 1] /\ i - 1 < j - 1
      BY <2>4, <2>1, <1>7
    <3>2. QED
      BY <3>1, <2>2, <1>10
  <2>5. QED
    BY <2>3, <2>4
<1>13. q \in Ascending(T)
  BY <1>11, <1>12, <1>4 DEF Ascending
<1>14. QED
  BY <1>13, <1>4
=============================================================================
