------------------------ MODULE NeighborMonitorProofs ------------------------
(***************************************************************************)
(* Nodes can be listed by ID, which is what the loops over tables do, and  *)
(* links go both ways.                                                     *)
(***************************************************************************)
EXTENDS NeighborMonitor, FiniteOrders, SequenceTheorems

\* What a loop over the table sends about comes from the table.
LEMMA InIdOrderFunction ==
  ASSUME NEW S \in SUBSET Node
  PROVE  InIdOrder[S] \in [1 .. Cardinality(S) -> S] /\ Cardinality(S) \in Nat
<1>1. S \in SUBSET Nat /\ IsFiniteSet(S)
  BY MonitorAssumption, FS_Subset
<1>2. PICK q : q \in Ascending(S)
  BY <1>1, AscendingExists
<1>3. InIdOrder[S] \in [1 .. Cardinality(S) -> S]
  <2>1. InIdOrder[S] = CHOOSE p \in [1 .. Cardinality(S) -> S] :
          \A i, j \in 1 .. Cardinality(S) : i < j => p[i] < p[j]
    BY DEF InIdOrder
  <2>2. QED
    BY <2>1, <1>2 DEF Ascending
<1>4. Cardinality(S) \in Nat
  BY <1>1, FS_CardinalityType
<1>5. QED
  BY <1>3, <1>4

LEMMA InIdOrderType ==
  ASSUME NEW S \in SUBSET Node
  PROVE  InIdOrder[S] \in Seq(S)
  BY InIdOrderFunction, SMT

\* It comes to nothing twice.
LEMMA InIdOrderAscends ==
  ASSUME NEW S \in SUBSET Node
  PROVE  \A i, j \in 1 .. Cardinality(S) : i < j => InIdOrder[S][i] < InIdOrder[S][j]
<1>1. S \in SUBSET Nat /\ IsFiniteSet(S)
  BY MonitorAssumption, FS_Subset
<1>2. PICK p : p \in Ascending(S)
  BY <1>1, AscendingExists
<1> DEFINE q == InIdOrder[S]
           k == Cardinality(S)
<1>3. q = CHOOSE r \in [1 .. k -> S] : \A i, j \in 1 .. k : i < j => r[i] < r[j]
  BY DEF InIdOrder
<1>4. p \in [1 .. k -> S] /\ \A i, j \in 1 .. k : i < j => p[i] < p[j]
  BY <1>2 DEF Ascending
<1> HIDE DEF q, k
<1>5. \A i, j \in 1 .. k : i < j => q[i] < q[j]
  BY <1>3, <1>4
<1>6. QED
  BY <1>5 DEF q, k

\* Such a loop leaves nothing of the table out.
LEMMA InIdOrderCovers ==
  ASSUME NEW S \in SUBSET Node, NEW d \in S
  PROVE  \E i \in DOMAIN InIdOrder[S] : InIdOrder[S][i] = d
<1> DEFINE q == InIdOrder[S]
           k == Cardinality(S)
<1>1. S \in SUBSET Nat /\ IsFiniteSet(S)
  BY MonitorAssumption, FS_Subset
<1>2. PICK p : p \in Ascending(S)
  BY <1>1, AscendingExists
<1>3. q \in [1 .. k -> S] /\ \A i, j \in 1 .. k : i < j => q[i] < q[j]
  <2>1. q = CHOOSE r \in [1 .. k -> S] : \A i, j \in 1 .. k : i < j => r[i] < r[j]
    BY DEF InIdOrder
  <2>2. p \in [1 .. k -> S] /\ \A i, j \in 1 .. k : i < j => p[i] < p[j]
    BY <1>2 DEF Ascending
  <2> HIDE DEF q, k
  <2>3. QED
    BY <2>1, <2>2
<1>4. k \in Nat
  BY <1>1, FS_CardinalityType
<1>5. IsFiniteSet(1 .. k) /\ Cardinality(1 .. k) = k
  BY <1>4, FS_Interval
<1> HIDE DEF q
<1>6. \A i, j \in 1 .. k : q[i] = q[j] => i = j
  <2>1. SUFFICES ASSUME NEW i \in 1 .. k, NEW j \in 1 .. k, i < j PROVE q[i] # q[j]
    BY <1>4
  <2>2. q[i] \in Nat /\ q[j] \in Nat /\ q[i] < q[j]
    BY <1>1, <1>3, <2>1
  <2>3. QED
    BY <2>2
<1>7. q \in Injection(1 .. k, S)
  BY <1>3, <1>6 DEF Injection, IsInjective
<1>8. q \in Surjection(1 .. k, S)
  BY <1>1, <1>5, <1>7, FS_Injection
<1>9. QED
  BY <1>3, <1>8 DEF Surjection, q

-----------------------------------------------------------------------------
\* A link works in both directions or in neither.

BothWays == up \subseteq Link /\ \A l \in up : <<l[2], l[1]>> \in up

LEMMA LinkChangeBothWays ==
  ASSUME BothWays, NEW l \in Link, LinkChange(l)
  PROVE  BothWays'
<1> DEFINE back == <<l[2], l[1]>>
<1>1. up' = IF l \in up THEN up \ {l, back} ELSE up \cup {l, back}
  BY DEF LinkChange
<1>2. l = <<l[1], l[2]>>
  BY MonitorAssumption
<1>3. SUFFICES ASSUME NEW k \in up' PROVE k \in Link /\ <<k[2], k[1]>> \in up'
  BY DEF BothWays
<1>4. CASE k \in {l, back}
  BY <1>1, <1>2, <1>4, MonitorAssumption
<1>5. CASE k \notin {l, back}
  <2>1. k \in up /\ k \in Link /\ <<k[2], k[1]>> \in up
    BY <1>1, <1>5 DEF BothWays
  <2>2. k = <<k[1], k[2]>>
    BY <2>1, MonitorAssumption
  <2>3. <<k[2], k[1]>> \notin {l, back}
    BY <1>2, <1>5, <2>2
  <2>4. QED
    BY <1>1, <2>1, <2>3
<1>6. QED
  BY <1>4, <1>5
=============================================================================
