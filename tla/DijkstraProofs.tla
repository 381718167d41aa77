--------------------------- MODULE DijkstraProofs ---------------------------
(***************************************************************************)
(* The forwarding table is the table of shortest paths, for every network  *)
(* of links with positive costs, and ties are broken by the last node      *)
(* before the destination.                                                 *)
(***************************************************************************)
EXTENDS Dijkstra, FiniteOrders

\* What a router may know: the matrix is symmetric, the costs of its links positive.
IsView(v) ==
  /\ Nodes(v) \in SUBSET Nat /\ IsFiniteSet(Nodes(v))
  /\ v.self \in Nodes(v)
  /\ v.conn \in SUBSET (Nodes(v) \ {v.self})
  /\ v.cost \in [Nodes(v) -> Nat] /\ \A m \in v.conn : v.cost[m] > 0
  /\ v.adj \in [Nodes(v) -> [Nodes(v) -> Int]]
  /\ \A a, b \in Nodes(v) : v.adj[a][b] = v.adj[b][a]

-----------------------------------------------------------------------------
(* The loop invariant.                                                      *)

\* The confirmed nodes a path to i of this cost can come through last, and the next hop
\* to i by one of them.
Last(v, confirmed, i, cost) ==
  {p \in DOMAIN confirmed : Weight(v, p, i) > 0 /\ confirmed[p].cost + Weight(v, p, i) = cost}

HopBy(v, confirmed, i, last) == IF last = v.self THEN i ELSE confirmed[last].nexthop

Lowest(S) == CHOOSE p \in S : \A q \in S : p <= q

IsFunction(f) == f = [d \in DOMAIN f |-> f[d]]

Tables(v, s) ==
  /\ DOMAIN s.confirmed \in SUBSET Nodes(v) /\ DOMAIN s.tentative \in SUBSET Nodes(v)
  /\ IsFunction(s.confirmed)
  /\ DOMAIN s.confirmed \cap DOMAIN s.tentative = {}
  /\ v.self \in DOMAIN s.confirmed
  /\ s.confirmed[v.self] = [cost |-> 0, nexthop |-> NoHop]
  /\ \A d \in DOMAIN s.confirmed : d # v.self =>
       s.confirmed[d] \in [cost : Nat \ {0}, nexthop : v.conn]
  /\ \A i \in DOMAIN s.tentative :
       s.tentative[i] \in [cost : Nat \ {0}, nexthop : v.conn, at : Nat]

\* No confirmed node is farther than a tentative one.
Ordered(s) ==
  \A d \in DOMAIN s.confirmed, i \in DOMAIN s.tentative :
    s.confirmed[d].cost <= s.tentative[i].cost

\* The links of the confirmed nodes have been followed.
Explored(v, s) ==
  \A p \in DOMAIN s.confirmed, d \in Nodes(v) : Weight(v, p, d) > 0 =>
    \/ d \in DOMAIN s.confirmed
       /\ s.confirmed[d].cost <= s.confirmed[p].cost + Weight(v, p, d)
    \/ d \in DOMAIN s.tentative
       /\ s.tentative[d].cost <= s.confirmed[p].cost + Weight(v, p, d)

\* Every entry is the end of a path over confirmed nodes, by its next hop the one whose
\* last node is the lowest.
Reached(v, s, i, e) ==
  /\ Last(v, s.confirmed, i, e.cost) # {}
  /\ OwnLinksAgree(v) =>
       e.nexthop = HopBy(v, s.confirmed, i, Lowest(Last(v, s.confirmed, i, e.cost)))

LoopInv(v, s) ==
  /\ Tables(v, s) /\ Ordered(s) /\ Explored(v, s)
  /\ \A d \in DOMAIN s.confirmed \ {v.self} : Reached(v, s, d, s.confirmed[d])
  /\ \A i \in DOMAIN s.tentative : Reached(v, s, i, s.tentative[i])

-----------------------------------------------------------------------------
(* What holds before the loop.                                              *)

LEMMA WeightType ==
  ASSUME NEW v, IsView(v), NEW a \in Nodes(v), NEW b \in Nodes(v)
  PROVE  /\ Weight(v, a, b) \in Int
         /\ a # v.self => Weight(v, a, b) = v.adj[a][b] /\ Weight(v, a, b) = v.adj[b][a]
         /\ a = v.self => Weight(v, a, b) = IF b \in v.conn THEN v.cost[b] ELSE 0
  BY DEF IsView, Weight

LEMMA LowestOf ==
  ASSUME NEW S \in SUBSET Nat, S # {}
  PROVE  Lowest(S) \in S /\ \A q \in S : Lowest(S) <= q
  BY LeastElement DEF Lowest

LEMMA LowestIs ==
  ASSUME NEW S \in SUBSET Nat, NEW x \in S, \A q \in S : x <= q
  PROVE  Lowest(S) = x
<1>1. Lowest(S) \in S /\ \A q \in S : Lowest(S) <= q
  BY LowestOf
<1>2. Lowest(S) <= x /\ x <= Lowest(S) /\ x \in Nat /\ Lowest(S) \in Nat
  BY <1>1
<1>3. QED
  BY <1>2

LEMMA PlaceType ==
  ASSUME NEW table, IsFiniteSet(DOMAIN table), NEW i \in Nat
  PROVE  Place(table, i) \in Nat
<1>1. Cardinality(DOMAIN table) \in Nat
  BY FS_CardinalityType
<1> DEFINE c == Cardinality(DOMAIN table)
<1>2. Place(table, i) = 256 * c + i
  BY DEF Place, V
<1> HIDE DEF c
<1>3. c \in Nat
  BY <1>1 DEF c
<1>4. QED
  BY <1>2, <1>3

LEMMA StartInv ==
  ASSUME NEW v, IsView(v)
  PROVE  LoopInv(v, Start(v))
<1> DEFINE s == Start(v)
           C == s.confirmed
           T == s.tentative
           self == [d \in {v.self} |-> [cost |-> 0, nexthop |-> NoHop]]
<1>1. C = self /\ T = [m \in v.conn |-> [cost |-> v.cost[m], nexthop |-> m, at |-> Place(self, m)]]
  BY DEF Start
<1>2. DOMAIN C = {v.self} /\ C[v.self] = [cost |-> 0, nexthop |-> NoHop]
      /\ C[v.self].cost = 0 /\ DOMAIN T = v.conn
  BY <1>1
<1>3. ASSUME NEW m \in v.conn
      PROVE  /\ T[m].cost = v.cost[m] /\ T[m].nexthop = m /\ v.cost[m] \in Nat \ {0}
             /\ T[m] \in [cost : Nat \ {0}, nexthop : v.conn, at : Nat]
  <2>1. m \in Nat /\ v.cost[m] \in Nat /\ v.cost[m] > 0
    BY DEF IsView
  <2>2. IsFiniteSet(DOMAIN self)
    BY FS_Singleton
  <2> HIDE DEF self
  <2>3. Place(self, m) \in Nat
    BY <2>1, <2>2, PlaceType
  <2>4. QED
    BY <1>1, <2>1, <2>3
<1> DEFINE IsFcn == IsFunction(C)
<1>4. IsFcn
  BY <1>1 DEF IsFunction
<1> HIDE DEF C, T, self, IsFcn
<1>5. Tables(v, s)
  BY <1>2, <1>3, <1>4 DEF Tables, IsView, C, T, IsFcn
<1>6. Ordered(s)
  BY <1>2, <1>3 DEF Ordered, C, T
<1>7. Explored(v, s)
  <2>1. SUFFICES ASSUME NEW d \in Nodes(v), Weight(v, v.self, d) > 0
                 PROVE d \in DOMAIN T /\ T[d].cost <= C[v.self].cost + Weight(v, v.self, d)
    BY <1>2 DEF Explored, C, T
  <2>2. v.self \in Nodes(v)
    BY DEF IsView
  <2>3. d \in v.conn /\ Weight(v, v.self, d) = v.cost[d]
    BY <2>1, <2>2, WeightType
  <2>4. QED
    BY <2>3, <1>2, <1>3
<1>8. ASSUME NEW i \in v.conn PROVE Reached(v, s, i, T[i])
  <2>1. v.self \in Nodes(v) /\ i \in Nodes(v) /\ v.self \in Nat
    BY DEF IsView
  <2>2. Weight(v, v.self, i) = v.cost[i]
    BY <2>1, WeightType
  <2>3. Last(v, C, i, T[i].cost) = {v.self}
    BY <2>2, <1>2, <1>3 DEF Last
  <2>4. Lowest({v.self}) = v.self
    BY <2>1, LowestIs
  <2>5. HopBy(v, C, i, v.self) = T[i].nexthop
    BY <1>3 DEF HopBy
  <2>6. QED
    BY <2>3, <2>4, <2>5 DEF Reached, C
<1>9. QED
  BY <1>5, <1>6, <1>7, <1>8, <1>2 DEF LoopInv, C, T

-----------------------------------------------------------------------------
(* What one pass does.                                                      *)

LEMMA NearestIs ==
  ASSUME NEW t, DOMAIN t # {}, \A i \in DOMAIN t : t[i].cost \in Nat /\ t[i].at \in Nat
  PROVE  Nearest(t) \in DOMAIN t /\ \A i \in DOMAIN t : t[Nearest(t)].cost <= t[i].cost
<1> DEFINE Costs == {t[i].cost : i \in DOMAIN t}
<1>1. PICK c \in Costs : \A e \in Costs : c <= e
  <2>1. Costs \in SUBSET Nat /\ Costs # {}
    OBVIOUS
  <2> HIDE DEF Costs
  <2>2. QED
    BY <2>1, LeastElement
<1> DEFINE Ats == {t[i].at : i \in {j \in DOMAIN t : t[j].cost = c}}
<1>2. PICK a \in Ats : \A e \in Ats : a <= e
  <2>1. Ats \in SUBSET Nat /\ Ats # {}
    BY <1>1
  <2> HIDE DEF Ats
  <2>2. QED
    BY <2>1, LeastElement
<1>3. PICK d \in DOMAIN t : t[d].cost = c /\ t[d].at = a
  BY <1>2
<1>4. ASSUME NEW e \in DOMAIN t
      PROVE  \/ t[d].cost < t[e].cost
             \/ t[d].cost = t[e].cost /\ t[d].at <= t[e].at
  <2>1. c <= t[e].cost
    BY <1>1
  <2>2. t[e].cost = c => a <= t[e].at
    BY <1>2
  <2>3. QED
    BY <2>1, <2>2, <1>3
<1>5. /\ Nearest(t) \in DOMAIN t
      /\ \A e \in DOMAIN t : \/ t[Nearest(t)].cost < t[e].cost
                             \/ t[Nearest(t)].cost = t[e].cost /\ t[Nearest(t)].at <= t[e].at
  BY <1>4 DEF Nearest
<1>6. QED
  BY <1>5

\* The tables after a pass, x being confirmed.
After(v, s, x) ==
  LET r == ConfirmNext(v, s)
      rest == DOMAIN s.tentative \ {x}
      found == Adjacent(v, x) \ (rest \cup DOMAIN r.confirmed)
      cost(i) == s.tentative[x].cost + v.adj[x][i]
  IN
  /\ x \in DOMAIN s.tentative
  /\ \A i \in DOMAIN s.tentative : s.tentative[x].cost <= s.tentative[i].cost
  /\ IsFunction(r.confirmed) /\ DOMAIN r.confirmed = DOMAIN s.confirmed \cup {x}
  /\ \A d \in DOMAIN s.confirmed : d # x => r.confirmed[d] = s.confirmed[d]
  /\ r.confirmed[x] = [cost |-> s.tentative[x].cost, nexthop |-> s.tentative[x].nexthop]
  /\ DOMAIN r.tentative = rest \cup found
  /\ \A i \in found : r.tentative[i] =
       [cost |-> cost(i), nexthop |-> s.tentative[x].nexthop, at |-> Place(r.confirmed, i)]
  /\ \A i \in rest : r.tentative[i] =
       IF i \in Adjacent(v, x) THEN Relaxed(v, r.confirmed, i, x, s.tentative[i])
       ELSE s.tentative[i]

LEMMA PassAfter ==
  ASSUME NEW v, NEW s, Tables(v, s), DOMAIN s.tentative # {}
  PROVE  \E x : After(v, s, x)
<1> DEFINE x == Nearest(s.tentative)
           C == s.confirmed
           T == s.tentative
           D == [d \in DOMAIN C \cup {x} |->
                   IF d = x THEN [cost |-> T[x].cost, nexthop |-> T[x].nexthop] ELSE C[d]]
           rest == DOMAIN T \ {x}
           found == Adjacent(v, x) \ (rest \cup DOMAIN D)
           U == [i \in rest \cup found |->
                   IF i \in found THEN [cost |-> D[x].cost + v.adj[x][i],
                                        nexthop |-> D[x].nexthop, at |-> Place(D, i)]
                   ELSE IF i \in Adjacent(v, x) THEN Relaxed(v, D, i, x, T[i]) ELSE T[i]]
<1>1. x \in DOMAIN T /\ \A i \in DOMAIN T : T[x].cost <= T[i].cost
  BY NearestIs DEF Tables
<1>2. ConfirmNext(v, s) = [confirmed |-> D, tentative |-> U]
  BY Zenon DEF ConfirmNext
<1> HIDE DEF x
<1>3. D[x] = [cost |-> T[x].cost, nexthop |-> T[x].nexthop] /\ DOMAIN D = DOMAIN C \cup {x}
      /\ \A d \in DOMAIN C : d # x => D[d] = C[d]
  OBVIOUS
<1>4. ConfirmNext(v, s).confirmed = D /\ ConfirmNext(v, s).tentative = U
  BY <1>2
<1>5. DOMAIN U = rest \cup found
  OBVIOUS
<1>6. \A i \in found : U[i] = [cost |-> T[x].cost + v.adj[x][i], nexthop |-> T[x].nexthop,
                              at |-> Place(D, i)]
  BY <1>3
<1>7. \A i \in rest : U[i] = IF i \in Adjacent(v, x) THEN Relaxed(v, D, i, x, T[i]) ELSE T[i]
  OBVIOUS
<1>8. IsFunction(D)
  BY DEF IsFunction
<1> HIDE DEF D, U
<1>9. QED
  BY <1>1, <1>3, <1>4, <1>5, <1>6, <1>7, <1>8 DEF After

-----------------------------------------------------------------------------
(* A pass keeps the loop invariant.                                         *)

\* The confirmed tables before and after, and the links of x.
LEMMA Confirmed ==
  ASSUME NEW v, IsView(v), NEW s, LoopInv(v, s), NEW x, After(v, s, x)
  PROVE  LET C == s.confirmed  T == s.tentative  D == ConfirmNext(v, s).confirmed
         IN
         /\ x \in Nodes(v) \ {v.self} /\ x \in DOMAIN T /\ x \notin DOMAIN C
         /\ DOMAIN C \in SUBSET Nodes(v) /\ DOMAIN T \in SUBSET Nodes(v)
         /\ DOMAIN D = DOMAIN C \cup {x} /\ \A d \in DOMAIN C : D[d] = C[d]
         /\ D[x].cost = T[x].cost /\ D[x].nexthop = T[x].nexthop
         /\ T[x].cost \in Nat \ {0} /\ T[x].nexthop \in v.conn
         /\ \A d \in DOMAIN C : C[d].cost \in Nat /\ C[d].cost <= T[x].cost
         /\ \A i \in DOMAIN T : T[i].cost \in Nat \ {0} /\ T[x].cost <= T[i].cost
<1>1. Tables(v, s) /\ Ordered(s)
  BY DEF LoopInv
<1>2. x \in DOMAIN s.tentative
  BY DEF After
<1>3. x \in Nodes(v) \ {v.self} /\ x \notin DOMAIN s.confirmed
  BY <1>1, <1>2 DEF Tables
<1>4. /\ s.tentative[x].cost \in Nat \ {0} /\ s.tentative[x].nexthop \in v.conn
      /\ \A i \in DOMAIN s.tentative : s.tentative[i].cost \in Nat \ {0}
  BY <1>1, <1>2 DEF Tables
<1>5. \A d \in DOMAIN s.confirmed : s.confirmed[d].cost \in Nat
  <2>1. s.confirmed[v.self].cost = 0
    BY <1>1 DEF Tables
  <2>2. QED
    BY <1>1, <2>1 DEF Tables
<1>6. \A d \in DOMAIN s.confirmed : s.confirmed[d].cost <= s.tentative[x].cost
  BY <1>1, <1>2 DEF Ordered
<1>7. DOMAIN s.confirmed \in SUBSET Nodes(v) /\ DOMAIN s.tentative \in SUBSET Nodes(v)
  BY <1>1 DEF Tables
<1>8. QED
  BY <1>2, <1>3, <1>4, <1>5, <1>6, <1>7 DEF After

LEMMA LinksOf ==
  ASSUME NEW v, IsView(v), NEW x \in Nodes(v) \ {v.self}, NEW i \in Nodes(v)
  PROVE  /\ v.adj[x][i] = Weight(v, x, i) /\ v.adj[i][x] = Weight(v, x, i)
         /\ Weight(v, x, i) \in Int
         /\ i \in Adjacent(v, x) <=> Weight(v, x, i) > 0
  BY WeightType DEF Adjacent

\* The last nodes of the paths to i after x is confirmed: those before, and x perhaps.
LEMMA LastAfter ==
  ASSUME NEW v, IsView(v), NEW s, LoopInv(v, s), NEW x, After(v, s, x),
         NEW i \in Nodes(v), NEW k \in Nat
  PROVE  LET C == s.confirmed  D == ConfirmNext(v, s).confirmed
             w == Weight(v, x, i)  c == s.tentative[x].cost
         IN
         /\ Last(v, C, i, k) \in SUBSET (Nat \ {x}) /\ x \in Nat
         /\ w > 0 /\ c + w = k => Last(v, D, i, k) = Last(v, C, i, k) \cup {x}
         /\ ~ (w > 0 /\ c + w = k) => Last(v, D, i, k) = Last(v, C, i, k)
         /\ \A p \in Last(v, C, i, k) : HopBy(v, D, i, p) = HopBy(v, C, i, p)
         /\ HopBy(v, D, i, x) = s.tentative[x].nexthop
<1> DEFINE C == s.confirmed
           D == ConfirmNext(v, s).confirmed
<1>1. /\ x \in Nodes(v) \ {v.self} /\ x \notin DOMAIN C
      /\ DOMAIN C \in SUBSET Nodes(v)
      /\ DOMAIN D = DOMAIN C \cup {x} /\ \A d \in DOMAIN C : D[d] = C[d]
      /\ D[x].cost = s.tentative[x].cost /\ D[x].nexthop = s.tentative[x].nexthop
  <2>1. /\ x \in Nodes(v) \ {v.self} /\ x \notin DOMAIN s.confirmed
        /\ DOMAIN s.confirmed \in SUBSET Nodes(v)
        /\ DOMAIN ConfirmNext(v, s).confirmed = DOMAIN s.confirmed \cup {x}
        /\ \A d \in DOMAIN s.confirmed : ConfirmNext(v, s).confirmed[d] = s.confirmed[d]
        /\ ConfirmNext(v, s).confirmed[x].cost = s.tentative[x].cost
        /\ ConfirmNext(v, s).confirmed[x].nexthop = s.tentative[x].nexthop
    BY Confirmed
  <2>2. QED
    BY <2>1
<1>2. Nodes(v) \in SUBSET Nat
  BY DEF IsView
<1> HIDE DEF C, D
<1>3. Last(v, C, i, k) \in SUBSET (Nat \ {x}) /\ x \in Nat
  BY <1>1, <1>2 DEF Last
<1>4. \A p : p \in Last(v, D, i, k) <=>
        \/ p \in Last(v, C, i, k)
        \/ p = x /\ Weight(v, x, i) > 0 /\ s.tentative[x].cost + Weight(v, x, i) = k
  BY <1>1 DEF Last
<1>5. \A p \in Last(v, C, i, k) : HopBy(v, D, i, p) = HopBy(v, C, i, p)
  BY <1>1 DEF Last, HopBy
<1>6. HopBy(v, D, i, x) = s.tentative[x].nexthop
  BY <1>1 DEF HopBy
<1>7. QED
  BY <1>3, <1>4, <1>5, <1>6 DEF C, D

\* Entries the pass leaves alone stay reached by the same paths, since x is not nearer.
LEMMA StillReached ==
  ASSUME NEW v, IsView(v), NEW s, LoopInv(v, s), NEW x, After(v, s, x),
         NEW i \in Nodes(v), NEW e, e.cost \in Nat, Reached(v, s, i, e),
         ~ (Weight(v, x, i) > 0 /\ s.tentative[x].cost + Weight(v, x, i) = e.cost)
  PROVE  Reached(v, ConfirmNext(v, s), i, e)
<1> DEFINE C == s.confirmed
           D == ConfirmNext(v, s).confirmed
<1>1. /\ Last(v, D, i, e.cost) = Last(v, C, i, e.cost)
      /\ Last(v, C, i, e.cost) \in SUBSET Nat
      /\ \A p \in Last(v, C, i, e.cost) : HopBy(v, D, i, p) = HopBy(v, C, i, p)
  BY LastAfter
<1>2. Last(v, C, i, e.cost) # {}
  BY DEF Reached
<1>3. Lowest(Last(v, C, i, e.cost)) \in Last(v, C, i, e.cost)
  BY <1>1, <1>2, LowestOf
<1>4. HopBy(v, D, i, Lowest(Last(v, D, i, e.cost))) = HopBy(v, C, i, Lowest(Last(v, C, i, e.cost)))
  BY <1>1, <1>3
<1> HIDE DEF C, D
<1>5. QED
  BY <1>1, <1>2, <1>4 DEF Reached, C, D

\* The paths of one cost that TieHop compares the new one with are those found before.
LEMMA Others ==
  ASSUME NEW v, IsView(v), OwnLinksAgree(v), NEW C, DOMAIN C \in SUBSET Nodes(v),
         NEW i \in Nodes(v), NEW k \in Nat, \A p \in DOMAIN C : C[p].cost \in Nat
  PROVE  {p \in DOMAIN C : v.adj[i][p] > 0 /\ C[p].cost + v.adj[i][p] = k} = Last(v, C, i, k)
<1>1. ASSUME NEW p \in DOMAIN C, p # v.self PROVE v.adj[i][p] = Weight(v, p, i)
  BY <1>1, WeightType
<1>2. ASSUME NEW p \in DOMAIN C, p = v.self
      PROVE  (v.adj[i][p] > 0 <=> Weight(v, p, i) > 0)
             /\ (v.adj[i][p] > 0 => v.adj[i][p] = Weight(v, p, i))
  <2>1. Weight(v, p, i) = IF i \in v.conn THEN v.cost[i] ELSE 0
    BY <1>2, WeightType
  <2>2. IF i \in v.conn THEN v.adj[i][p] = v.cost[i] ELSE v.adj[i][p] <= 0
    BY <1>2 DEF OwnLinksAgree
  <2>3. v.adj[i][p] \in Int
    BY DEF IsView
  <2>4. QED
    BY <2>1, <2>2, <2>3
<1>3. ASSUME NEW p \in DOMAIN C
      PROVE  (v.adj[i][p] > 0 /\ C[p].cost + v.adj[i][p] = k)
             <=> (Weight(v, p, i) > 0 /\ C[p].cost + Weight(v, p, i) = k)
  BY <1>1, <1>2
<1>4. QED
  BY <1>3 DEF Last

\* A tie between the new path through x and those found before.
LEMMA TieBroken ==
  ASSUME NEW v, IsView(v), NEW s, LoopInv(v, s), NEW x, After(v, s, x),
         NEW i \in DOMAIN s.tentative \ {x}, Weight(v, x, i) > 0,
         s.tentative[i].cost = s.tentative[x].cost + Weight(v, x, i)
  PROVE  LET D == ConfirmNext(v, s).confirmed
             k == s.tentative[i].cost
             h == TieHop(v, D, i, k, x, s.tentative[i])
         IN  /\ h \in v.conn
             /\ OwnLinksAgree(v) => h = HopBy(v, D, i, Lowest(Last(v, D, i, k)))
<1> DEFINE C == s.confirmed
           D == ConfirmNext(v, s).confirmed
           k == s.tentative[i].cost
           others == {p \in DOMAIN D \ {x} : v.adj[i][p] > 0 /\ D[p].cost + v.adj[i][p] = k}
           h == TieHop(v, D, i, k, x, s.tentative[i])
<1>1. /\ x \in Nodes(v) \ {v.self} /\ x \notin DOMAIN s.confirmed
      /\ DOMAIN s.confirmed \in SUBSET Nodes(v) /\ DOMAIN s.tentative \in SUBSET Nodes(v)
      /\ DOMAIN ConfirmNext(v, s).confirmed = DOMAIN s.confirmed \cup {x}
      /\ \A d \in DOMAIN s.confirmed : ConfirmNext(v, s).confirmed[d] = s.confirmed[d]
      /\ ConfirmNext(v, s).confirmed[x].nexthop = s.tentative[x].nexthop
      /\ s.tentative[x].nexthop \in v.conn /\ s.tentative[x].cost \in Nat \ {0}
      /\ \A d \in DOMAIN s.confirmed : s.confirmed[d].cost \in Nat
      /\ \A j \in DOMAIN s.tentative : s.tentative[j].cost \in Nat \ {0}
  BY Confirmed
<1>2. i \in Nodes(v) /\ k \in Nat /\ Nodes(v) \in SUBSET Nat
  BY <1>1 DEF IsView
<1>3. s.tentative[i].nexthop \in v.conn
      /\ \A d \in DOMAIN s.confirmed : d # v.self => s.confirmed[d].nexthop \in v.conn
  BY DEF LoopInv, Tables
<1>4. h = IF others = {} THEN s.tentative[i].nexthop
          ELSE IF x < Lowest(others) THEN s.tentative[x].nexthop
          ELSE IF Lowest(others) # v.self THEN D[Lowest(others)].nexthop
          ELSE s.tentative[i].nexthop
  BY <1>1 DEF TieHop, Lowest
<1>5. others = {p \in DOMAIN C : v.adj[i][p] > 0 /\ C[p].cost + v.adj[i][p] = k}
  BY <1>1
<1> HIDE DEF h, k
<1>6. others \in SUBSET DOMAIN C /\ others \in SUBSET Nat
  BY <1>5, <1>2, <1>1
<1>7. others # {} => Lowest(others) \in others /\ \A q \in others : Lowest(others) <= q
  BY <1>6, LowestOf
<1> HIDE DEF others
<1>8. h \in v.conn
  <2>1. others # {} => D[Lowest(others)] = s.confirmed[Lowest(others)]
                       /\ Lowest(others) \in DOMAIN s.confirmed
    BY <1>1, <1>6, <1>7
  <2>2. QED
    BY <2>1, <1>1, <1>3, <1>4
<1>9. ASSUME OwnLinksAgree(v) PROVE h = HopBy(v, D, i, Lowest(Last(v, D, i, k)))
  <2>1. others = Last(v, C, i, k)
    <3>1. DOMAIN C \in SUBSET Nodes(v) /\ \A p \in DOMAIN C : C[p].cost \in Nat
      BY <1>1
    <3> HIDE DEF C
    <3>2. {p \in DOMAIN C : v.adj[i][p] > 0 /\ C[p].cost + v.adj[i][p] = k} = Last(v, C, i, k)
      BY <3>1, <1>2, <1>9, Others
    <3>3. QED
      BY <3>2, <1>5
  <2>2. Reached(v, s, i, s.tentative[i])
    BY DEF LoopInv
  <2>3. others # {} /\ s.tentative[i].nexthop = HopBy(v, C, i, Lowest(others))
    BY <2>1, <2>2, <1>9 DEF Reached, k, C
  <2>4. /\ Last(v, D, i, k) = others \cup {x}
        /\ \A p \in others : HopBy(v, D, i, p) = HopBy(v, C, i, p)
        /\ HopBy(v, D, i, x) = s.tentative[x].nexthop /\ x \in Nat
    <3>1. s.tentative[x].cost + Weight(v, x, i) = k
      BY DEF k
    <3>2. /\ Last(v, ConfirmNext(v, s).confirmed, i, k) = Last(v, s.confirmed, i, k) \cup {x}
          /\ \A p \in Last(v, s.confirmed, i, k) :
               HopBy(v, ConfirmNext(v, s).confirmed, i, p) = HopBy(v, s.confirmed, i, p)
          /\ HopBy(v, ConfirmNext(v, s).confirmed, i, x) = s.tentative[x].nexthop /\ x \in Nat
      BY <1>2, <3>1, LastAfter
    <3>3. QED
      BY <3>2, <2>1
  <2>5. CASE x < Lowest(others)
    <3>1. \A q \in others \cup {x} : x <= q
      BY <2>5, <2>3, <1>6, <1>7, <2>4
    <3>2. Lowest(others \cup {x}) = x
      BY <3>1, <1>6, <2>4, LowestIs
    <3>3. QED
      BY <3>2, <2>4, <1>4, <2>3, <2>5
  <2>6. CASE ~ (x < Lowest(others))
    <3>1. \A q \in others \cup {x} : Lowest(others) <= q
      BY <2>6, <2>3, <1>6, <1>7, <2>4
    <3>2. Lowest(others \cup {x}) = Lowest(others)
      BY <3>1, <1>6, <1>7, <2>3, <2>4, LowestIs
    <3>3. HopBy(v, D, i, Lowest(others)) = HopBy(v, C, i, Lowest(others))
      BY <2>4, <1>7, <2>3
    <3>4. CASE Lowest(others) # v.self
      BY <3>2, <3>4, <2>3, <2>4, <2>6, <1>4 DEF HopBy
    <3>5. CASE Lowest(others) = v.self
      BY <3>2, <3>3, <3>5, <2>3, <2>4, <2>6, <1>4
    <3>6. QED
      BY <3>4, <3>5
  <2>7. QED
    BY <2>5, <2>6
<1>10. QED
  BY <1>8, <1>9 DEF h, k

\* A new path through x that is the cheapest to i.
LEMMA ThroughX ==
  ASSUME NEW v, IsView(v), NEW s, LoopInv(v, s), NEW x, After(v, s, x),
         NEW i \in Nodes(v), Weight(v, x, i) > 0,
         NEW e, e.cost = s.tentative[x].cost + Weight(v, x, i), e.cost \in Nat,
         e.nexthop = s.tentative[x].nexthop,
         Last(v, s.confirmed, i, e.cost) = {}
  PROVE  Reached(v, ConfirmNext(v, s), i, e)
<1> DEFINE D == ConfirmNext(v, s).confirmed
<1>1. /\ Last(v, ConfirmNext(v, s).confirmed, i, e.cost) = Last(v, s.confirmed, i, e.cost) \cup {x}
      /\ x \in Nat /\ HopBy(v, ConfirmNext(v, s).confirmed, i, x) = s.tentative[x].nexthop
  BY LastAfter
<1>2. Last(v, D, i, e.cost) = {x}
  BY <1>1
<1>3. Lowest({x}) = x
  BY <1>1, LowestIs
<1> HIDE DEF D
<1>4. HopBy(v, D, i, Lowest(Last(v, D, i, e.cost))) = e.nexthop
  BY <1>1, <1>2, <1>3 DEF D
<1>5. QED
  BY <1>2, <1>4 DEF Reached, D

\* What becomes of an entry that was tentative before and stays so.
LEMMA OldEntry ==
  ASSUME NEW v, IsView(v), NEW s, LoopInv(v, s), NEW x, After(v, s, x),
         NEW i \in DOMAIN s.tentative \ {x}, NEW u, u = ConfirmNext(v, s).tentative[i]
  PROVE  /\ u \in [cost : Nat \ {0}, nexthop : v.conn, at : Nat]
         /\ s.tentative[x].cost <= u.cost /\ u.cost <= s.tentative[i].cost
         /\ Weight(v, x, i) > 0 => u.cost <= s.tentative[x].cost + Weight(v, x, i)
         /\ Reached(v, ConfirmNext(v, s), i, u)
<1> DEFINE old == s.tentative[i]
           c == s.tentative[x].cost
           w == Weight(v, x, i)
           D == ConfirmNext(v, s).confirmed
<1>1. /\ x \in Nodes(v) \ {v.self} /\ i \in Nodes(v)
      /\ s.tentative[x].nexthop \in v.conn /\ s.tentative[x].cost \in Nat \ {0}
      /\ s.tentative[x].cost <= s.tentative[i].cost
      /\ \A d \in DOMAIN s.confirmed : s.confirmed[d].cost \in Nat
      /\ DOMAIN s.confirmed \in SUBSET Nodes(v)
      /\ ConfirmNext(v, s).confirmed[x].cost = s.tentative[x].cost
      /\ ConfirmNext(v, s).confirmed[x].nexthop = s.tentative[x].nexthop
  BY Confirmed
<1>2. old \in [cost : Nat \ {0}, nexthop : v.conn, at : Nat] /\ Reached(v, s, i, old)
  BY DEF LoopInv, Tables
<1>3. w \in Int /\ v.adj[x][i] = w /\ (i \in Adjacent(v, x) <=> w > 0)
  BY <1>1, LinksOf
<1>4. u = IF i \in Adjacent(v, x) THEN Relaxed(v, D, i, x, old) ELSE old
  BY DEF After
<1>5. CASE ~(w > 0) \/ old.cost < c + w
  <2>1. u = old
    <3>1. CASE ~(w > 0)
      BY <3>1, <1>3, <1>4
    <3>2. CASE w > 0 /\ old.cost < c + w
      BY <3>2, <1>1, <1>2, <1>3, <1>4 DEF Relaxed
    <3>3. QED
      BY <3>1, <3>2, <1>5
  <2>2. Reached(v, ConfirmNext(v, s), i, u)
    <3>1. old.cost \in Nat
      BY <1>2
    <3>2. ~ (Weight(v, x, i) > 0 /\ s.tentative[x].cost + Weight(v, x, i) = old.cost)
      BY <1>5, <1>1, <1>3, <3>1
    <3> HIDE DEF old
    <3>3. Reached(v, ConfirmNext(v, s), i, old)
      BY <1>1, <1>2, <3>1, <3>2, StillReached
    <3>4. QED
      BY <3>3, <2>1
  <2>3. c <= old.cost /\ (w > 0 => old.cost <= c + w)
    BY <1>1, <1>2, <1>3, <1>5
  <2>4. old.cost <= old.cost
    BY <1>2
  <2>5. QED
    BY <2>1, <2>2, <2>3, <2>4, <1>2
<1>6. CASE w > 0 /\ old.cost = c + w
  <2> DEFINE h == TieHop(v, D, i, old.cost, x, old)
  <2>1. u = [old EXCEPT !.nexthop = h]
    BY <1>6, <1>1, <1>2, <1>3, <1>4 DEF Relaxed
  <2>2. /\ TieHop(v, ConfirmNext(v, s).confirmed, i, s.tentative[i].cost, x, s.tentative[i]) \in v.conn
        /\ OwnLinksAgree(v) =>
             TieHop(v, ConfirmNext(v, s).confirmed, i, s.tentative[i].cost, x, s.tentative[i])
             = HopBy(v, ConfirmNext(v, s).confirmed, i,
                     Lowest(Last(v, ConfirmNext(v, s).confirmed, i, s.tentative[i].cost)))
    BY <1>6, TieBroken
  <2> HIDE DEF h
  <2>3. /\ u.cost = old.cost /\ u.nexthop = h
        /\ u \in [cost : Nat \ {0}, nexthop : v.conn, at : Nat]
    <3>1. h \in v.conn
      BY <2>2 DEF h
    <3>2. QED
      BY <2>1, <1>2, <3>1
  <2>4. Reached(v, ConfirmNext(v, s), i, u)
    <3>1. x \in Last(v, D, i, u.cost)
      <4>1. x \in DOMAIN D
        BY DEF After
      <4>2. QED
        BY <4>1, <1>1, <1>6, <2>3 DEF Last
    <3>2. OwnLinksAgree(v) => u.nexthop = HopBy(v, D, i, Lowest(Last(v, D, i, u.cost)))
      BY <2>2, <2>3 DEF h
    <3>3. QED
      BY <3>1, <3>2 DEF Reached
  <2>5. c <= u.cost /\ u.cost <= old.cost /\ u.cost <= c + w
    BY <1>1, <1>2, <1>3, <1>6, <2>3
  <2>6. QED
    BY <2>3, <2>4, <2>5
<1>7. CASE w > 0 /\ c + w < old.cost
  <2>1. u = [old EXCEPT !.cost = c + w, !.nexthop = s.tentative[x].nexthop]
    BY <1>7, <1>1, <1>2, <1>3, <1>4 DEF Relaxed
  <2>2. /\ u.cost = c + w /\ u.nexthop = s.tentative[x].nexthop
        /\ u \in [cost : Nat \ {0}, nexthop : v.conn, at : Nat]
    <3> DEFINE k == c + w
               h == s.tentative[x].nexthop
    <3>1. k \in Nat \ {0} /\ h \in v.conn
      BY <1>1, <1>3, <1>7
    <3>2. u = [[old EXCEPT !.cost = k] EXCEPT !.nexthop = h]
      BY <2>1
    <3> HIDE DEF k, h, old
    <3>3. [old EXCEPT !.cost = k].cost = k
          /\ [old EXCEPT !.cost = k] \in [cost : Nat \ {0}, nexthop : v.conn, at : Nat]
      BY <3>1, <1>2
    <3>4. u.cost = k /\ u.nexthop = h /\ u \in [cost : Nat \ {0}, nexthop : v.conn, at : Nat]
      BY <3>1, <3>2, <3>3
    <3>5. QED
      BY <3>4 DEF k, h
  <2>3. Last(v, s.confirmed, i, u.cost) = {}
    <3>1. SUFFICES ASSUME NEW p \in DOMAIN s.confirmed, Weight(v, p, i) > 0,
                          s.confirmed[p].cost + Weight(v, p, i) = u.cost
                   PROVE FALSE
      BY DEF Last
    <3>2. Explored(v, s) /\ i \notin DOMAIN s.confirmed
      BY DEF LoopInv, Tables
    <3>3. old.cost <= s.confirmed[p].cost + Weight(v, p, i)
      BY <3>1, <3>2, <1>1 DEF Explored
    <3>4. QED
      BY <3>1, <3>3, <2>2, <1>7, <1>1, <1>2, <1>3
  <2>4. u.cost \in Nat /\ Weight(v, x, i) > 0 /\ u.cost = s.tentative[x].cost + Weight(v, x, i)
    BY <2>2, <1>7
  <2>5. Reached(v, ConfirmNext(v, s), i, u)
    BY <1>1, <2>2, <2>3, <2>4, ThroughX
  <2>6. c <= u.cost /\ u.cost <= old.cost /\ u.cost <= c + w
    BY <1>1, <1>2, <1>3, <1>7, <2>2
  <2>7. QED
    BY <2>2, <2>5, <2>6
<1>8. QED
  <2>1. c \in Nat /\ old.cost \in Nat /\ w \in Int
    BY <1>1, <1>2, <1>3
  <2>2. ~(w > 0) \/ old.cost < c + w \/ (w > 0 /\ old.cost = c + w) \/ (w > 0 /\ c + w < old.cost)
    BY <2>1
  <2>3. QED
    BY <2>2, <1>5, <1>6, <1>7

\* What is known of an entry found by this pass.
LEMMA NewEntry ==
  ASSUME NEW v, IsView(v), NEW s, LoopInv(v, s), NEW x, After(v, s, x),
         NEW i \in Nodes(v), i \notin DOMAIN s.confirmed, i \notin DOMAIN s.tentative,
         Weight(v, x, i) > 0, NEW u, u = ConfirmNext(v, s).tentative[i]
  PROVE  /\ u \in [cost : Nat \ {0}, nexthop : v.conn, at : Nat]
         /\ i \in DOMAIN ConfirmNext(v, s).tentative
         /\ u.cost = s.tentative[x].cost + Weight(v, x, i)
         /\ Reached(v, ConfirmNext(v, s), i, u)
<1> DEFINE D == ConfirmNext(v, s).confirmed
<1>1. /\ x \in Nodes(v) \ {v.self} /\ x \in DOMAIN s.tentative
      /\ s.tentative[x].nexthop \in v.conn /\ s.tentative[x].cost \in Nat \ {0}
      /\ DOMAIN s.confirmed \in SUBSET Nodes(v)
      /\ DOMAIN ConfirmNext(v, s).confirmed = DOMAIN s.confirmed \cup {x}
  BY Confirmed
<1>2. v.adj[x][i] = Weight(v, x, i) /\ Weight(v, x, i) \in Int /\ i \in Adjacent(v, x)
  BY <1>1, LinksOf
<1>3. i \in Adjacent(v, x) \ ((DOMAIN s.tentative \ {x}) \cup DOMAIN ConfirmNext(v, s).confirmed)
  BY <1>1, <1>2
<1>4. /\ u = [cost |-> s.tentative[x].cost + v.adj[x][i], nexthop |-> s.tentative[x].nexthop,
              at |-> Place(ConfirmNext(v, s).confirmed, i)]
      /\ i \in DOMAIN ConfirmNext(v, s).tentative
  BY <1>3 DEF After
<1>5. Place(D, i) \in Nat
  <2>1. IsFiniteSet(Nodes(v)) /\ DOMAIN D \in SUBSET Nodes(v) /\ i \in Nat
    BY <1>1 DEF IsView
  <2> HIDE DEF D
  <2>2. IsFiniteSet(DOMAIN D)
    BY <2>1, FS_Subset
  <2>3. QED
    BY <2>1, <2>2, PlaceType
<1>6. s.tentative[x].cost + Weight(v, x, i) \in Nat \ {0}
  BY <1>1, <1>2
<1>7. /\ u.cost = s.tentative[x].cost + Weight(v, x, i) /\ u.cost \in Nat
      /\ u.nexthop = s.tentative[x].nexthop
      /\ u \in [cost : Nat \ {0}, nexthop : v.conn, at : Nat]
  BY <1>1, <1>2, <1>4, <1>5, <1>6
<1>8. Last(v, s.confirmed, i, u.cost) = {}
  BY DEF LoopInv, Explored, Last
<1>9. Reached(v, ConfirmNext(v, s), i, u)
  BY <1>7, <1>8, ThroughX
<1>10. QED
  BY <1>4, <1>7, <1>9

LEMMA PassKeepsInv ==
  ASSUME NEW v, IsView(v), NEW s, LoopInv(v, s), NEW x, After(v, s, x)
  PROVE  LoopInv(v, ConfirmNext(v, s))
<1> DEFINE r == ConfirmNext(v, s)
           C == s.confirmed
           T == s.tentative
<1>1. /\ x \in Nodes(v) \ {v.self} /\ x \in DOMAIN s.tentative /\ x \notin DOMAIN s.confirmed
      /\ DOMAIN s.confirmed \in SUBSET Nodes(v) /\ DOMAIN s.tentative \in SUBSET Nodes(v)
      /\ DOMAIN ConfirmNext(v, s).confirmed = DOMAIN s.confirmed \cup {x}
      /\ \A d \in DOMAIN s.confirmed : ConfirmNext(v, s).confirmed[d] = s.confirmed[d]
      /\ ConfirmNext(v, s).confirmed[x].cost = s.tentative[x].cost
      /\ ConfirmNext(v, s).confirmed[x].nexthop = s.tentative[x].nexthop
      /\ s.tentative[x].cost \in Nat \ {0} /\ s.tentative[x].nexthop \in v.conn
      /\ \A d \in DOMAIN s.confirmed :
           s.confirmed[d].cost \in Nat /\ s.confirmed[d].cost <= s.tentative[x].cost
      /\ \A i \in DOMAIN s.tentative :
           s.tentative[i].cost \in Nat \ {0} /\ s.tentative[x].cost <= s.tentative[i].cost
  BY Confirmed
<1>2. Tables(v, s) /\ Ordered(s) /\ Explored(v, s)
      /\ (\A d \in DOMAIN C \ {v.self} : Reached(v, s, d, C[d]))
      /\ (\A i \in DOMAIN T : Reached(v, s, i, T[i]))
  BY DEF LoopInv
<1>3. r.confirmed[x] \in [cost : Nat \ {0}, nexthop : v.conn]
  <2>1. r.confirmed[x] = [cost |-> s.tentative[x].cost, nexthop |-> s.tentative[x].nexthop]
    BY DEF After
  <2>2. QED
    BY <2>1, <1>1
<1>4. DOMAIN r.tentative \in SUBSET Nodes(v)
      /\ \A i \in DOMAIN r.tentative :
           \/ i \in DOMAIN T \ {x}
           \/ i \in Nodes(v) /\ i \notin DOMAIN C /\ i \notin DOMAIN T /\ Weight(v, x, i) > 0
  <2>1. DOMAIN r.tentative = (DOMAIN T \ {x})
          \cup (Adjacent(v, x) \ ((DOMAIN T \ {x}) \cup DOMAIN r.confirmed))
    BY DEF After
  <2>2. Adjacent(v, x) \in SUBSET Nodes(v)
        /\ \A i \in Adjacent(v, x) : Weight(v, x, i) > 0
    BY <1>1, LinksOf DEF Adjacent
  <2> HIDE DEF r, C, T
  <2>3. QED
    BY <2>1, <2>2, <1>1 DEF r, C, T
<1>5. DOMAIN T \ {x} \in SUBSET DOMAIN r.tentative
  BY DEF After
<1>6. \A i \in DOMAIN T \ {x} :
        /\ r.tentative[i] \in [cost : Nat \ {0}, nexthop : v.conn, at : Nat]
        /\ T[x].cost <= r.tentative[i].cost /\ r.tentative[i].cost <= T[i].cost
        /\ Weight(v, x, i) > 0 => r.tentative[i].cost <= T[x].cost + Weight(v, x, i)
        /\ Reached(v, r, i, r.tentative[i])
  BY OldEntry
<1>7. \A i \in Nodes(v) : (i \notin DOMAIN C /\ i \notin DOMAIN T /\ Weight(v, x, i) > 0) =>
        /\ r.tentative[i] \in [cost : Nat \ {0}, nexthop : v.conn, at : Nat]
        /\ i \in DOMAIN r.tentative
        /\ r.tentative[i].cost = T[x].cost + Weight(v, x, i)
        /\ Reached(v, r, i, r.tentative[i])
  BY NewEntry
<1>8. \A a, b \in Nodes(v) : Weight(v, a, b) \in Int
  BY WeightType
<1>9. Tables(v, r)
  <2>1. DOMAIN r.confirmed \in SUBSET Nodes(v) /\ v.self \in DOMAIN r.confirmed
        /\ r.confirmed[v.self] = [cost |-> 0, nexthop |-> NoHop]
    BY <1>1, <1>2 DEF Tables
  <2>2. DOMAIN r.confirmed \cap DOMAIN r.tentative = {}
    BY <1>1, <1>2, <1>4 DEF Tables
  <2>3. \A d \in DOMAIN r.confirmed : d # v.self =>
          r.confirmed[d] \in [cost : Nat \ {0}, nexthop : v.conn]
    BY <1>1, <1>2, <1>3 DEF Tables
  <2>4. \A i \in DOMAIN r.tentative :
          r.tentative[i] \in [cost : Nat \ {0}, nexthop : v.conn, at : Nat]
    BY <1>4, <1>6, <1>7
  <2>5. IsFunction(r.confirmed)
    BY DEF After
  <2> HIDE DEF r
  <2>6. QED
    BY <2>1, <2>2, <2>3, <2>4, <2>5, <1>4 DEF Tables
<1>10. Ordered(r)
  <2>1. SUFFICES ASSUME NEW d \in DOMAIN r.confirmed, NEW i \in DOMAIN r.tentative
                 PROVE r.confirmed[d].cost <= r.tentative[i].cost
    BY DEF Ordered
  <2>2. r.confirmed[d].cost \in Nat /\ r.confirmed[d].cost <= T[x].cost
    BY <1>1
  <2>3. T[x].cost <= r.tentative[i].cost /\ r.tentative[i].cost \in Nat
    <3>1. CASE i \in DOMAIN T \ {x}
      BY <3>1, <1>6
    <3>2. CASE i \in Nodes(v) /\ i \notin DOMAIN C /\ i \notin DOMAIN T /\ Weight(v, x, i) > 0
      <4>1. r.tentative[i].cost = T[x].cost + Weight(v, x, i) /\ Weight(v, x, i) \in Int
        BY <3>2, <1>1, <1>7, <1>8
      <4>2. QED
        BY <4>1, <3>2, <1>1
    <3>3. QED
      BY <3>1, <3>2, <1>4
  <2>4. QED
    BY <2>2, <2>3, <1>1
<1>11. Explored(v, r)
  <2>1. SUFFICES ASSUME NEW p \in DOMAIN r.confirmed, NEW d \in Nodes(v), Weight(v, p, d) > 0
                 PROVE  \/ d \in DOMAIN r.confirmed
                           /\ r.confirmed[d].cost <= r.confirmed[p].cost + Weight(v, p, d)
                        \/ d \in DOMAIN r.tentative
                           /\ r.tentative[d].cost <= r.confirmed[p].cost + Weight(v, p, d)
    BY DEF Explored
  <2>2. Weight(v, p, d) \in Int /\ p \in Nodes(v)
    BY <1>1, <1>8
  <2>3. CASE p \in DOMAIN C
    <3>1. r.confirmed[p] = C[p] /\ C[p].cost \in Nat
      BY <2>3, <1>1
    <3>2. CASE d \in DOMAIN C /\ C[d].cost <= C[p].cost + Weight(v, p, d)
      BY <3>1, <3>2, <1>1
    <3>3. CASE d \in DOMAIN T /\ T[d].cost <= C[p].cost + Weight(v, p, d)
      <4>1. CASE d = x
        BY <4>1, <3>1, <3>3, <1>1
      <4>2. CASE d # x
        <5>1. d \in DOMAIN r.tentative /\ r.tentative[d].cost <= T[d].cost
              /\ r.tentative[d].cost \in Nat
          BY <4>2, <3>3, <1>5, <1>6
        <5>2. T[d].cost \in Nat
          BY <3>3, <1>1
        <5>3. QED
          BY <5>1, <5>2, <3>1, <3>3, <2>2
      <4>3. QED
        BY <4>1, <4>2
    <3>4. QED
      BY <3>2, <3>3, <2>1, <2>3, <1>2 DEF Explored
  <2>4. CASE p = x
    <3>1. r.confirmed[p].cost = T[x].cost /\ T[x].cost \in Nat
      BY <2>4, <1>1
    <3>2. CASE d \in DOMAIN C \cup {x}
      BY <3>1, <3>2, <1>1, <2>1, <2>2
    <3>3. CASE d \in DOMAIN T \ {x}
      BY <3>1, <3>3, <1>5, <1>6, <2>1, <2>4
    <3>4. CASE d \notin DOMAIN C /\ d \notin DOMAIN T
      <4>1. d \in DOMAIN r.tentative /\ r.tentative[d].cost = T[x].cost + Weight(v, x, d)
        BY <3>4, <1>7, <2>1, <2>4
      <4>2. QED
        BY <4>1, <3>1, <2>2, <2>4
    <3>5. QED
      BY <3>2, <3>3, <3>4
  <2>5. QED
    BY <2>3, <2>4, <1>1
<1>12. ASSUME NEW d \in DOMAIN r.confirmed \ {v.self} PROVE Reached(v, r, d, r.confirmed[d])
  <2>1. d \in Nodes(v) /\ Weight(v, x, d) \in Int
    BY <1>1, <1>8
  <2>2. r.confirmed[d].cost \in Nat /\ r.confirmed[d].cost <= T[x].cost
    BY <1>1
  <2>3. Reached(v, s, d, r.confirmed[d])
    <3>1. CASE d = x
      <4>1. r.confirmed[x].cost = T[x].cost /\ r.confirmed[x].nexthop = T[x].nexthop
        BY <1>1
      <4>2. Reached(v, s, x, T[x])
        BY <1>1, <1>2
      <4> HIDE DEF r
      <4>3. QED
        BY <4>1, <4>2, <3>1 DEF Reached
    <3>2. CASE d # x
      BY <3>2, <1>1, <1>2
    <3>3. QED
      BY <3>1, <3>2
  <2>4. ~ (Weight(v, x, d) > 0 /\ s.tentative[x].cost + Weight(v, x, d) = r.confirmed[d].cost)
    BY <2>1, <2>2, <1>1
  <2> HIDE DEF r
  <2>5. Reached(v, ConfirmNext(v, s), d, r.confirmed[d])
    BY <2>1, <2>2, <2>3, <2>4, StillReached
  <2>6. QED
    BY <2>5 DEF r
<1>13. \A i \in DOMAIN r.tentative : Reached(v, r, i, r.tentative[i])
  BY <1>4, <1>6, <1>7
<1> HIDE DEF r
<1>14. LoopInv(v, r)
  BY <1>9, <1>10, <1>11, <1>12, <1>13 DEF LoopInv
<1>15. QED
  BY <1>14 DEF r

-----------------------------------------------------------------------------
(* Pass(v) is what its recursive definition says: there is such a function, *)
(* put together from those up to n.                                         *)

UpTo(v, n, f) == f = [k \in 0 .. n |-> IF k = 0 THEN Start(v) ELSE PassOver(v, f[k - 1])]

LEMMA UpToExists ==
  ASSUME NEW v, NEW n \in Nat
  PROVE  \E f : UpTo(v, n, f)
<1> DEFINE Bad == {k \in Nat : ~ \E f : UpTo(v, k, f)}
<1>1. SUFFICES ASSUME Bad # {} PROVE FALSE
  OBVIOUS
<1>2. PICK k \in Bad : \A l \in Bad : k <= l
  BY <1>1, LeastElement
<1>3. CASE k = 0
  <2> DEFINE f == [i \in 0 .. 0 |-> Start(v)]
  <2>1. f = [i \in 0 .. 0 |-> IF i = 0 THEN Start(v) ELSE PassOver(v, f[i - 1])]
    OBVIOUS
  <2>2. UpTo(v, 0, f)
    BY <2>1 DEF UpTo
  <2>3. QED
    BY <2>2, <1>3
<1>4. CASE k # 0
  <2>1. k \in Nat /\ k - 1 \in Nat /\ k - 1 \notin Bad
    BY <1>2, <1>4
  <2>2. PICK g : UpTo(v, k - 1, g)
    BY <2>1
  <2> DEFINE f == [i \in 0 .. k |-> IF i = k THEN PassOver(v, g[k - 1]) ELSE g[i]]
  <2>3. g = [i \in 0 .. k - 1 |-> IF i = 0 THEN Start(v) ELSE PassOver(v, g[i - 1])]
    BY <2>2 DEF UpTo
  <2>4. \A i \in 0 .. k : f[i] = IF i = 0 THEN Start(v) ELSE PassOver(v, f[i - 1])
    <3>1. SUFFICES ASSUME NEW i \in 0 .. k
                   PROVE f[i] = IF i = 0 THEN Start(v) ELSE PassOver(v, f[i - 1])
      OBVIOUS
    <3>2. CASE i = 0
      <4>1. 0 \in 0 .. k - 1 /\ f[0] = g[0]
        BY <2>1, <1>4
      <4>2. QED
        BY <4>1, <3>2, <2>3
    <3>3. CASE i # 0 /\ i # k
      <4>1. i \in 0 .. k - 1 /\ i - 1 \in 0 .. k /\ i - 1 # k
        BY <3>3, <2>1
      <4>2. f[i] = g[i] /\ f[i - 1] = g[i - 1]
        BY <4>1, <3>3
      <4>3. g[i] = PassOver(v, g[i - 1])
        BY <4>1, <3>3, <2>3
      <4>4. QED
        BY <4>2, <4>3, <3>3
    <3>4. CASE i = k
      <4>1. k \in 0 .. k /\ k - 1 \in 0 .. k /\ k - 1 # k
        BY <2>1
      <4>2. f[k] = PassOver(v, g[k - 1]) /\ f[k - 1] = g[k - 1]
        BY <4>1
      <4>3. QED
        BY <4>2, <3>4, <1>4
    <3>5. QED
      BY <3>2, <3>3, <3>4
  <2>5. DOMAIN f = 0 .. k /\ f = [i \in 0 .. k |-> f[i]]
    OBVIOUS
  <2> HIDE DEF f
  <2>6. f = [i \in 0 .. k |-> IF i = 0 THEN Start(v) ELSE PassOver(v, f[i - 1])]
    BY <2>4, <2>5
  <2>7. UpTo(v, k, f)
    BY <2>6 DEF UpTo
  <2>8. QED
    BY <2>7, <1>2
<1>5. QED
  BY <1>3, <1>4

LEMMA UpToAgree ==
  ASSUME NEW v, NEW n \in Nat, NEW m \in Nat, n <= m,
         NEW f, UpTo(v, n, f), NEW g, UpTo(v, m, g)
  PROVE  f[n] = g[n]
<1> DEFINE Bad == {k \in 0 .. n : f[k] # g[k]}
<1>1. f = [k \in 0 .. n |-> IF k = 0 THEN Start(v) ELSE PassOver(v, f[k - 1])]
      /\ g = [k \in 0 .. m |-> IF k = 0 THEN Start(v) ELSE PassOver(v, g[k - 1])]
  BY DEF UpTo
<1>2. SUFFICES ASSUME Bad # {} PROVE FALSE
  OBVIOUS
<1>3. PICK k \in Bad : \A l \in Bad : k <= l
  <2>1. Bad \in SUBSET Nat
    OBVIOUS
  <2> HIDE DEF Bad
  <2>2. QED
    BY <2>1, <1>2, LeastElement
<1>4. k \in 0 .. n /\ k \in 0 .. m /\ f[k] # g[k]
  BY <1>3
<1>5. CASE k = 0
  <2>1. 0 \in 0 .. n /\ 0 \in 0 .. m
    BY <1>4, <1>5
  <2>2. f[0] = Start(v) /\ g[0] = Start(v)
    BY <1>1, <2>1
  <2>3. QED
    BY <2>2, <1>4, <1>5
<1>6. CASE k # 0
  <2>1. k - 1 \in 0 .. n /\ k - 1 \notin Bad
    BY <1>3, <1>6
  <2>2. f[k - 1] = g[k - 1]
    BY <2>1
  <2>3. f[k] = PassOver(v, f[k - 1]) /\ g[k] = PassOver(v, g[k - 1])
    BY <1>1, <1>4, <1>6
  <2>4. QED
    BY <2>2, <2>3, <1>4
<1>7. QED
  BY <1>5, <1>6

LEMMA PassIs ==
  ASSUME NEW v
  PROVE  /\ Pass(v)[0] = Start(v)
         /\ \A k \in Nat : Pass(v)[k + 1] = PassOver(v, Pass(v)[k])
<1> DEFINE Prefix(n) == CHOOSE f : UpTo(v, n, f)
           F == [n \in Nat |-> Prefix(n)[n]]
<1>1. \A n \in Nat : UpTo(v, n, Prefix(n))
  BY UpToExists
<1>2. \A n \in Nat : F[n] = IF n = 0 THEN Start(v) ELSE PassOver(v, F[n - 1])
  <2>1. SUFFICES ASSUME NEW n \in Nat
                 PROVE F[n] = IF n = 0 THEN Start(v) ELSE PassOver(v, F[n - 1])
    OBVIOUS
  <2>2. F[n] = Prefix(n)[n] /\ (n # 0 => F[n - 1] = Prefix(n - 1)[n - 1])
    OBVIOUS
  <2> HIDE DEF F
  <2>3. UpTo(v, n, Prefix(n)) /\ (n # 0 => UpTo(v, n - 1, Prefix(n - 1)))
    BY <1>1
  <2> HIDE DEF Prefix
  <2>4. Prefix(n)[n] = IF n = 0 THEN Start(v) ELSE PassOver(v, Prefix(n)[n - 1])
    <3> DEFINE f == Prefix(n)
    <3>1. f = [k \in 0 .. n |-> IF k = 0 THEN Start(v) ELSE PassOver(v, f[k - 1])]
      BY <2>3 DEF UpTo
    <3>2. n \in 0 .. n
      OBVIOUS
    <3> HIDE DEF f
    <3>3. f[n] = IF n = 0 THEN Start(v) ELSE PassOver(v, f[n - 1])
      BY <3>1, <3>2
    <3>4. QED
      BY <3>3 DEF f
  <2>5. n # 0 => Prefix(n - 1)[n - 1] = Prefix(n)[n - 1]
    <3>1. SUFFICES ASSUME n # 0 PROVE Prefix(n - 1)[n - 1] = Prefix(n)[n - 1]
      OBVIOUS
    <3>2. n - 1 \in Nat /\ n - 1 <= n
      BY <3>1
    <3>3. QED
      BY <3>1, <3>2, <2>3, UpToAgree
  <2>6. QED
    BY <2>2, <2>4, <2>5
<1>3. F = [n \in Nat |-> F[n]]
  OBVIOUS
<1> HIDE DEF F
<1>4. F = [k \in Nat |-> IF k = 0 THEN Start(v) ELSE PassOver(v, F[k - 1])]
  BY <1>2, <1>3
<1> DEFINE P == Pass(v)
<1>5. P = [k \in Nat |-> IF k = 0 THEN Start(v) ELSE PassOver(v, P[k - 1])]
  BY <1>4 DEF Pass
<1> HIDE DEF P
<1>6. P[0] = Start(v)
  BY <1>5
<1>7. \A k \in Nat : P[k + 1] = PassOver(v, P[k])
  <2>1. SUFFICES ASSUME NEW k \in Nat PROVE P[k + 1] = PassOver(v, P[k])
    OBVIOUS
  <2>2. k + 1 \in Nat /\ k + 1 # 0 /\ (k + 1) - 1 = k
    OBVIOUS
  <2>3. P[k + 1] = PassOver(v, P[(k + 1) - 1])
    BY <1>5, <2>2
  <2>4. QED
    BY <2>2, <2>3
<1>8. QED
  BY <1>6, <1>7 DEF P

-----------------------------------------------------------------------------
(* The loop confirms a node in every pass, so it ends.                      *)

Progress(v, k, s) ==
  /\ LoopInv(v, s)
  /\ DOMAIN s.tentative = {} \/ Cardinality(DOMAIN s.confirmed) = k + 1

LEMMA Progresses ==
  ASSUME NEW v, IsView(v), NEW k \in Nat, NEW s, Progress(v, k, s)
  PROVE  Progress(v, k + 1, PassOver(v, s))
<1>1. CASE DOMAIN s.tentative = {}
  BY <1>1 DEF Progress, PassOver
<1>2. CASE DOMAIN s.tentative # {}
  <2>1. LoopInv(v, s) /\ Tables(v, s) /\ PassOver(v, s) = ConfirmNext(v, s)
    BY <1>2 DEF Progress, LoopInv, PassOver
  <2>2. PICK x : After(v, s, x)
    BY <1>2, <2>1, PassAfter
  <2>3. LoopInv(v, ConfirmNext(v, s))
    BY <2>1, <2>2, PassKeepsInv
  <2>4. /\ DOMAIN ConfirmNext(v, s).confirmed = DOMAIN s.confirmed \cup {x}
        /\ x \notin DOMAIN s.confirmed /\ DOMAIN s.confirmed \in SUBSET Nodes(v)
    BY <2>1, <2>2, Confirmed
  <2>5. IsFiniteSet(DOMAIN s.confirmed)
    BY <2>4, FS_Subset DEF IsView
  <2>6. Cardinality(DOMAIN s.confirmed \cup {x}) = Cardinality(DOMAIN s.confirmed) + 1
    BY <2>4, <2>5, FS_AddElement
  <2>7. Cardinality(DOMAIN ConfirmNext(v, s).confirmed) = (k + 1) + 1
    BY <1>2, <2>4, <2>6 DEF Progress
  <2>8. QED
    BY <2>1, <2>3, <2>7 DEF Progress
<1>3. QED
  BY <1>1, <1>2

LEMMA PassProgresses ==
  ASSUME NEW v, IsView(v), NEW k \in Nat
  PROVE  Progress(v, k, Pass(v)[k])
<1> DEFINE Bad == {l \in Nat : ~ Progress(v, l, Pass(v)[l])}
<1>1. SUFFICES ASSUME Bad # {} PROVE FALSE
  OBVIOUS
<1>2. PICK l \in Bad : \A j \in Bad : l <= j
  BY <1>1, LeastElement
<1>3. CASE l = 0
  <2>1. Pass(v)[0] = Start(v) /\ LoopInv(v, Start(v))
    BY PassIs, StartInv
  <2>2. DOMAIN Start(v).confirmed = {v.self}
    BY DEF Start
  <2>3. Cardinality(DOMAIN Start(v).confirmed) = 0 + 1
    <3>1. Cardinality({v.self}) = 1
      BY FS_Singleton
    <3>2. QED
      BY <2>2, <3>1
  <2>4. Progress(v, 0, Pass(v)[0])
    BY <2>1, <2>3 DEF Progress
  <2>5. QED
    BY <2>4, <1>2, <1>3
<1>4. CASE l # 0
  <2>1. l - 1 \in Nat /\ l - 1 \notin Bad
    BY <1>2, <1>4
  <2>2. Progress(v, l - 1, Pass(v)[l - 1])
    BY <2>1
  <2>3. Progress(v, (l - 1) + 1, PassOver(v, Pass(v)[l - 1]))
    BY <2>1, <2>2, Progresses
  <2>4. (l - 1) + 1 = l /\ Pass(v)[(l - 1) + 1] = PassOver(v, Pass(v)[l - 1])
    BY <2>1, PassIs
  <2>5. QED
    BY <2>3, <2>4, <1>2
<1>5. QED
  BY <1>3, <1>4

\* updateFwdTable ends, and what it leaves is the table of the shortest paths: every
\* node that the links of the view lead to is in it, at the cost of the cheapest path,
\* and among paths of that cost the one whose last node before the destination has the
\* lowest ID decides the next hop, where the two accounts of the node's own links agree.
\* Every next hop is a neighbour.
THEOREM ShortestPaths ==
  ASSUME NEW v, IsView(v)
  PROVE  LET table == UpdateFwdTable(v) IN
         /\ \E D \in SUBSET Nodes(v) : table \in [D -> [cost : Nat, nexthop : v.conn \cup {NoHop}]]
         /\ IsShortest(v, table)
         /\ OwnLinksAgree(v) => TiesBroken(v, table)
         /\ \A d \in DOMAIN table \ {v.self} : table[d].nexthop \in v.conn
<1> DEFINE N == Cardinality(Nodes(v))
           s == Pass(v)[N]
           table == s.confirmed
<1>1. UpdateFwdTable(v) = table
  BY DEF UpdateFwdTable
<1>2. N \in Nat
  BY FS_CardinalityType DEF IsView
<1>3. Progress(v, N, s)
  BY <1>2, PassProgresses
<1> HIDE DEF s
<1>4. LoopInv(v, s) /\ Tables(v, s) /\ Explored(v, s)
  BY <1>3 DEF Progress, LoopInv
<1>5. DOMAIN s.tentative = {}
  <2>1. IsFiniteSet(Nodes(v)) /\ DOMAIN table \in SUBSET Nodes(v)
    BY <1>4 DEF Tables, IsView
  <2>2. Cardinality(DOMAIN table) <= N /\ IsFiniteSet(DOMAIN table)
    BY <2>1, FS_Subset
  <2>3. Cardinality(DOMAIN table) \in Nat
    BY <2>2, FS_CardinalityType
  <2>4. QED
    BY <2>2, <2>3, <1>2, <1>3 DEF Progress
<1>6. \E D \in SUBSET Nodes(v) : table \in [D -> [cost : Nat, nexthop : v.conn \cup {NoHop}]]
  <2> DEFINE entry == [cost : Nat, nexthop : v.conn \cup {NoHop}]
             D == DOMAIN table
  <2>1. \A d \in D : table[d] \in entry
    <3>1. [cost |-> 0, nexthop |-> NoHop] \in entry
      OBVIOUS
    <3>2. [cost : Nat \ {0}, nexthop : v.conn] \in SUBSET entry
      OBVIOUS
    <3>3. QED
      BY <3>1, <3>2, <1>4 DEF Tables
  <2>2. table = [d \in DOMAIN table |-> table[d]]
    BY <1>4 DEF Tables, IsFunction
  <2>3. QED
    BY <2>1, <2>2, <1>4 DEF Tables
<1>7. \A d \in DOMAIN table \ {v.self} : table[d].nexthop \in v.conn
  BY <1>4 DEF Tables
<1>8. \A d : Before(v, table, d) = Last(v, table, d, table[d].cost)
  BY DEF Before, Last
<1>9. \A d \in DOMAIN table \ {v.self} : Reached(v, s, d, table[d])
  BY <1>4 DEF LoopInv
<1>10. IsShortest(v, table)
  <2>1. v.self \in DOMAIN table /\ table[v.self].cost = 0
    BY <1>4 DEF Tables
  <2>2. \A p \in DOMAIN table, d \in Nodes(v) : Weight(v, p, d) > 0 =>
          d \in DOMAIN table /\ table[d].cost <= table[p].cost + Weight(v, p, d)
    BY <1>4, <1>5 DEF Explored
  <2>3. \A d \in DOMAIN table \ {v.self} : Before(v, table, d) # {}
    BY <1>8, <1>9 DEF Reached
  <2>4. QED
    BY <2>1, <2>2, <2>3 DEF IsShortest
<1>11. ASSUME OwnLinksAgree(v) PROVE TiesBroken(v, table)
  <2>1. SUFFICES ASSUME NEW d \in DOMAIN table \ {v.self}
                 PROVE table[d].nexthop = HopBy(v, table, d, Lowest(Before(v, table, d)))
    BY DEF TiesBroken, HopBy, Lowest
  <2>2. Reached(v, s, d, table[d])
    BY <1>9
  <2>3. QED
    BY <2>2, <1>8, <1>11 DEF Reached
<1>12. QED
  BY <1>1, <1>6, <1>7, <1>10, <1>11

\* Whether a table is right depends on no link beyond the nodes that can be reached.
LEMMA OnlyReachMatters ==
  ASSUME NEW v, NEW w, v.self = w.self, Nodes(v) = Nodes(w), IsView(v),
         NEW R \in SUBSET Nodes(v), v.self \in R,
         \A p \in R, d \in Nodes(v) : Weight(v, p, d) > 0 => d \in R,
         \A p \in R, d \in Nodes(v) :
           /\ Weight(v, p, d) > 0 <=> Weight(w, p, d) > 0
           /\ Weight(v, p, d) > 0 => Weight(v, p, d) = Weight(w, p, d),
         NEW table, DOMAIN table \subseteq Nodes(v), \A d \in DOMAIN table : table[d].cost \in Nat,
         IsShortest(v, table)
  PROVE  IsShortest(w, table) /\ (TiesBroken(v, table) => TiesBroken(w, table))
<1> DEFINE D == DOMAIN table
<1>1. D \subseteq R
  <2> DEFINE Far == {table[d].cost : d \in D \ R}
  <2>1. SUFFICES ASSUME D \ R # {} PROVE FALSE
    OBVIOUS
  <2>2. Far \in SUBSET Nat /\ Far # {}
    BY <2>1
  <2>3. PICK c \in Far : \A e \in Far : c <= e
    <3> HIDE DEF Far
    <3>1. QED
      BY <2>2, LeastElement
  <2>4. PICK d \in D \ R : c = table[d].cost
    BY <2>3
  <2>5. Before(v, table, d) # {}
    BY <2>4 DEF IsShortest
  <2>6. PICK p \in D : Weight(v, p, d) > 0 /\ table[p].cost + Weight(v, p, d) = table[d].cost
    BY <2>5 DEF Before
  <2>7. d \in Nodes(v) /\ p \in Nodes(v)
    BY <2>4, <2>6
  <2>8. p \notin R
    BY <2>4, <2>6, <2>7
  <2>9. Weight(v, p, d) \in Int
    <3>1. /\ v.adj \in [Nodes(v) -> [Nodes(v) -> Int]] /\ v.cost \in [Nodes(v) -> Nat]
          /\ v.conn \subseteq Nodes(v)
      BY DEF IsView
    <3>2. QED
      BY <2>7, <3>1 DEF Weight
  <2>10. table[p].cost \in Nat /\ table[d].cost \in Nat
    BY <2>4, <2>6
  <2>11. table[p].cost < table[d].cost
    <3> DEFINE x == Weight(v, p, d)
    <3>1. x \in Int /\ x > 0 /\ table[p].cost + x = table[d].cost
      BY <2>6, <2>9
    <3> HIDE DEF x
    <3>2. QED
      BY <3>1, <2>10
  <2>12. table[p].cost \in Far
    BY <2>6, <2>8
  <2>13. table[d].cost <= table[p].cost
    BY <2>3, <2>4, <2>12
  <2>14. QED
    BY <2>10, <2>11, <2>13
<1>2. ASSUME NEW d \in Nodes(v) PROVE Before(w, table, d) = Before(v, table, d)
  <2>1. ASSUME NEW p \in D
        PROVE  (Weight(v, p, d) > 0 /\ table[p].cost + Weight(v, p, d) = table[d].cost)
               <=> (Weight(w, p, d) > 0 /\ table[p].cost + Weight(w, p, d) = table[d].cost)
    <3>1. /\ Weight(v, p, d) > 0 <=> Weight(w, p, d) > 0
          /\ Weight(v, p, d) > 0 => Weight(v, p, d) = Weight(w, p, d)
      BY <1>1
    <3>2. QED
      BY <3>1
  <2>2. QED
    BY <2>1 DEF Before
<1>3. v.self \in D /\ table[v.self].cost = 0
  BY DEF IsShortest
<1>4. ASSUME NEW p \in D, NEW d \in Nodes(w), Weight(w, p, d) > 0
      PROVE  d \in D /\ table[d].cost <= table[p].cost + Weight(w, p, d)
  <2>1. p \in R /\ d \in Nodes(v)
    BY <1>1
  <2>2. Weight(v, p, d) > 0 /\ Weight(v, p, d) = Weight(w, p, d)
    BY <1>4, <2>1
  <2>3. d \in D /\ table[d].cost <= table[p].cost + Weight(v, p, d)
    BY <2>1, <2>2 DEF IsShortest
  <2>4. QED
    BY <2>2, <2>3
<1>5. \A d \in D \ {v.self} : Before(v, table, d) # {}
  BY DEF IsShortest
<1>6. IsShortest(w, table)
  <2>1. \A d \in D \ {w.self} : Before(w, table, d) # {}
    BY <1>2, <1>5
  <2>2. QED
    BY <1>3, <1>4, <2>1 DEF IsShortest
<1>7. ASSUME TiesBroken(v, table) PROVE TiesBroken(w, table)
  <2>1. SUFFICES ASSUME NEW d \in D \ {w.self}
                 PROVE  LET last == CHOOSE p \in Before(w, table, d) :
                                      \A q \in Before(w, table, d) : p <= q IN
                        table[d].nexthop = IF last = w.self THEN d ELSE table[last].nexthop
    BY DEF TiesBroken
  <2>2. Before(w, table, d) = Before(v, table, d)
    BY <1>2
  <2>3. QED
    BY <1>7, <2>1, <2>2 DEF TiesBroken
<1>8. QED
  BY <1>6, <1>7

\* A node's cost to one it has no link to now does not go into its table.
LEMMA UnusedCosts ==
  ASSUME NEW v, NEW w, w.self = v.self, w.conn = v.conn, w.adj = v.adj,
         \A m \in v.conn : w.cost[m] = v.cost[m], IsFiniteSet(Nodes(v))
  PROVE  UpdateFwdTable(w) = UpdateFwdTable(v)
<1>1. Start(w) = Start(v)
  <2> DEFINE self == [d \in {v.self} |-> [cost |-> 0, nexthop |-> NoHop]]
             first == [m \in v.conn |-> [cost |-> v.cost[m], nexthop |-> m, at |-> Place(self, m)]]
             second == [m \in w.conn |-> [cost |-> w.cost[m], nexthop |-> m, at |-> Place(self, m)]]
  <2>1. second = first
    <3> HIDE DEF self
    <3>1. \A m \in v.conn : second[m] = first[m]
      OBVIOUS
    <3>2. QED
      BY <3>1
  <2> HIDE DEF first, second
  <2>2. Start(v) = [confirmed |-> self, tentative |-> first]
    BY DEF Start, first
  <2>3. Start(w) = [confirmed |-> self, tentative |-> second]
    BY DEF Start, second
  <2>4. QED
    BY <2>1, <2>2, <2>3
<1>2. ASSUME NEW s PROVE PassOver(w, s) = PassOver(v, s)
  <2>1. Nodes(w) = Nodes(v) /\ \A a : Adjacent(w, a) = Adjacent(v, a)
    BY DEF Nodes, Adjacent
  <2>2. \A c, i, cost, x, old : TieHop(w, c, i, cost, x, old) = TieHop(v, c, i, cost, x, old)
    BY DEF TieHop
  <2>3. \A c, i, x, old : Relaxed(w, c, i, x, old) = Relaxed(v, c, i, x, old)
    BY <2>2 DEF Relaxed
  <2>4. ConfirmNext(w, s) = ConfirmNext(v, s)
    <3> DEFINE next == Nearest(s.tentative)
               rest == DOMAIN s.tentative \ {next}
               c == [d \in DOMAIN s.confirmed \cup {next} |->
                       IF d = next THEN [cost |-> s.tentative[next].cost,
                                         nexthop |-> s.tentative[next].nexthop]
                       ELSE s.confirmed[d]]
               found == Adjacent(v, next) \ (rest \cup DOMAIN c)
               entry(x, i) ==
                 IF i \in found THEN [cost |-> c[next].cost + x.adj[next][i],
                                      nexthop |-> c[next].nexthop, at |-> Place(c, i)]
                 ELSE IF i \in Adjacent(x, next) THEN Relaxed(x, c, i, next, s.tentative[i])
                 ELSE s.tentative[i]
               t(x) == [i \in rest \cup found |-> entry(x, i)]
    <3>1. Adjacent(w, next) = Adjacent(v, next)
      BY <2>1
    <3>2. ConfirmNext(v, s) = [confirmed |-> c, tentative |-> t(v)]
      BY DEF ConfirmNext
    <3>3. ConfirmNext(w, s) = [confirmed |-> c, tentative |-> t(w)]
      BY <3>1 DEF ConfirmNext
    <3> HIDE DEF next, rest, c, found
    <3>4. \A i : entry(w, i) = entry(v, i)
      BY <3>1, <2>3
    <3> HIDE DEF entry
    <3>5. t(w) = t(v)
      BY <3>4
    <3> HIDE DEF t
    <3>6. QED
      BY <3>2, <3>3, <3>5
  <2>5. QED
    BY <2>4 DEF PassOver
<1> DEFINE P == Pass(v)
           Q == Pass(w)
<1>3. /\ P[0] = Start(v) /\ \A k \in Nat : P[k + 1] = PassOver(v, P[k])
      /\ Q[0] = Start(w) /\ \A k \in Nat : Q[k + 1] = PassOver(w, Q[k])
  BY PassIs
<1> HIDE DEF P, Q
<1>4. \A k \in Nat : Q[k] = P[k]
  <2> DEFINE Bad == {k \in Nat : Q[k] # P[k]}
  <2>1. SUFFICES ASSUME Bad # {} PROVE FALSE
    OBVIOUS
  <2>2. PICK k \in Bad : \A l \in Bad : k <= l
    <3>1. Bad \in SUBSET Nat
      OBVIOUS
    <3> HIDE DEF Bad
    <3>2. QED
      BY <2>1, <3>1, LeastElement
  <2>3. k # 0
    BY <1>1, <1>3, <2>2
  <2>4. k - 1 \in Nat /\ (k - 1) + 1 = k
    BY <2>2, <2>3
  <2>5. k - 1 \notin Bad
    BY <2>2, <2>4
  <2>6. Q[k - 1] = P[k - 1]
    BY <2>4, <2>5
  <2>7. Q[k] = PassOver(w, Q[k - 1]) /\ P[k] = PassOver(v, P[k - 1])
    BY <1>3, <2>4
  <2>8. QED
    BY <1>2, <2>2, <2>6, <2>7
<1>5. Nodes(w) = Nodes(v)
  BY DEF Nodes
<1>6. Q[Cardinality(Nodes(w))] = P[Cardinality(Nodes(v))]
  BY <1>4, <1>5, FS_CardinalityType
<1>7. QED
  BY <1>6 DEF UpdateFwdTable, P, Q
=============================================================================
