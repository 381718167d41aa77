--------------------------- MODULE LsRouterProofs ---------------------------
(***************************************************************************)
(* Proofs about LsRouter, for every network and all costs.                 *)
(***************************************************************************)
EXTENDS LsRouter, NeighborMonitorProofs, DijkstraProofs

-----------------------------------------------------------------------------
(* The inductive invariant: what each turn of a node may start from, and    *)
(* what it leaves behind. H is the history, all that was ever flooded.      *)

Neighbors(n) == {m \in Node : <<n, m>> \in Link}

SaidCost == {Down} \cup (Nat \ {0})
History ==
  {H \in [Node -> [Node -> Seq(SaidCost)]] :
     \A a, b \in Node : H[a][b] # <<>> => <<a, b>> \in Link}

\* G is H and what was said since.
Extends(H, G) ==
  \A a, b \in Node :
    /\ Len(H[a][b]) <= Len(G[a][b])
    /\ \A i \in 1 .. Len(H[a][b]) : G[a][b][i] = H[a][b][i]

\* What LastHeard and MatrixExplained say, of one node's tables and any history.
Heard(H, seq, a, b) == IF seq[a][b] = 0 THEN {} ELSE {H[a][b][seq[a][b]]}

Explains(H, seq, a, b, c) ==
  LET heard == Heard(H, seq, a, b) \cup Heard(H, seq, b, a)
  IN  c \in IF heard = {} THEN {0} ELSE heard

Matrix ==
  {adj \in [Node -> [Node -> Int]] :
     \A a, b \in Node : adj[a][a] = 0 /\ adj[a][b] = adj[b][a]}

CostTable(n) == {c \in [Node -> Nat] : \A m \in Node \ {n} : c[m] > 0}

\* No packet says what its sender has not said, under the number it has said it.
Authentic(H) ==
  {p \in LSP : /\ p.node1 # p.node2
               /\ p.seqNum \in 1 .. Len(H[p.node1][p.node2])
               /\ p.cost = H[p.node1][p.node2][p.seqNum]}

Network(H) ==
  {q \in [Hop -> Seq(LSP)] :
     \A h \in Hop : q[h] \in Seq(Authentic(H)) /\ (q[h] # <<>> => h \in Link)}

Messages == SUBSET {p \in Mesg : <<p.from, p.to>> \in Link}

IsState(s) ==
  s = [conn |-> s.conn, cost |-> s.cost, adj |-> s.adj, seq |-> s.seq, fwd |-> s.fwd,
       net |-> s.net, mesg |-> s.mesg, said |-> s.said, floods |-> s.floods]

\* The history in a turn of n that has come to s.
Hist(n, s) == [said EXCEPT ![n] = s.said]

\* The tables' types; nobody is ahead of whoever numbers the packets.
Typed(n, s) ==
  /\ IsState(s)
  /\ s.conn \in SUBSET Neighbors(n) /\ s.cost \in CostTable(n) /\ s.adj \in Matrix
  /\ s.seq \in [Node -> [Node -> Nat]]
  /\ \A x \in Node : s.seq[n][x] = Len(s.said[x])
  /\ s.mesg \in Messages /\ s.said \in [Node -> Seq(SaidCost)]
  /\ \A x \in Node : s.said[x] # <<>> => x \in Neighbors(n)

Numbered(H, s) == \A a, b \in Node : a # b => s.seq[a][b] <= Len(H[a][b])

Matches(H, n, s) ==
  \A m \in s.conn : \/ s.adj[n][m] = s.cost[m]
                    \/ s.adj[n][m] = Down /\ Down \in Heard(H, s.seq, m, n)

\* The matrix is explained, save for the links of n to the nodes in X.
ExplainedBut(H, n, s, X) ==
  \A a, b \in Node : a # b /\ ~ (\E x \in X : {a, b} = {n, x}) =>
    Explains(H, s.seq, a, b, s.adj[a][b])

\* The table is that of the shortest paths through what the node believes.
GoodTable(n, s) ==
  /\ \E D \in SUBSET Node : s.fwd \in [D -> Route]
  /\ s.conn # {} => s.fwd # <<>>
  /\ s.fwd # <<>> =>
       /\ IsShortest(View(n, s), s.fwd)
       /\ OwnLinksAgree(View(n, s)) => TiesBroken(View(n, s), s.fwd)
       /\ \A d \in DOMAIN s.fwd \ {n} : s.fwd[d].nexthop \in s.conn

Known(H, n, s, X) ==
  /\ Typed(n, s) /\ Numbered(H, s) /\ Matches(H, n, s) /\ ExplainedBut(H, n, s, X)
  /\ s.net \in Network(H)

\* What holds of n after each function of a turn, and so of all nodes after each turn.
Sound(n, s) ==
  /\ Extends(said, Hist(n, s))
  /\ Known(Hist(n, s), n, s, {}) /\ GoodTable(n, s)

RouterInv ==
  /\ LsTypeOK /\ said \in History
  /\ \A n \in Node : Sound(n, State(n))

-----------------------------------------------------------------------------
(* Histories.                                                               *)

LEMMA NeighborsAreOthers ==
  ASSUME NEW n \in Node
  PROVE  /\ Neighbors(n) \subseteq Node \ {n}
         /\ Manager \notin Node
         /\ \A m \in Node : m \in Neighbors(n) <=> n \in Neighbors(m)
  BY MonitorAssumption DEF Neighbors, Manager

LEMMA HistType ==
  ASSUME said \in History, NEW n \in Node, NEW s, Typed(n, s)
  PROVE  /\ Hist(n, s) \in History /\ Hist(n, s)[n] = s.said
         /\ \A a \in Node : a # n => Hist(n, s)[a] = said[a]
<1> DEFINE H == Hist(n, s)
<1>1. /\ said \in [Node -> [Node -> Seq(SaidCost)]] /\ s.said \in [Node -> Seq(SaidCost)]
      /\ \A a, b \in Node : said[a][b] # <<>> => <<a, b>> \in Link
      /\ \A b \in Node : s.said[b] # <<>> => <<n, b>> \in Link
  BY DEF History, Typed, Neighbors
<1>2. /\ H \in [Node -> [Node -> Seq(SaidCost)]] /\ H[n] = s.said
      /\ \A a \in Node : a # n => H[a] = said[a]
  BY <1>1 DEF Hist
<1> HIDE DEF H
<1>3. \A a, b \in Node : H[a][b] # <<>> => <<a, b>> \in Link
  BY <1>1, <1>2
<1>4. H \in History
  BY <1>2, <1>3 DEF History
<1>5. QED
  BY <1>2, <1>4 DEF H

LEMMA HeardKept ==
  ASSUME NEW H \in History, NEW G \in History, Extends(H, G), NEW a \in Node, NEW b \in Node,
         NEW seq \in [Node -> [Node -> Nat]], seq[a][b] <= Len(H[a][b])
  PROVE  Heard(G, seq, a, b) = Heard(H, seq, a, b)
<1>1. CASE seq[a][b] = 0
  BY <1>1 DEF Heard
<1>2. CASE seq[a][b] # 0
  <2>1. seq[a][b] \in Nat
    OBVIOUS
  <2>2. H[a][b] \in Seq(SaidCost)
    BY DEF History
  <2>3. seq[a][b] \in 1 .. Len(H[a][b])
    BY <1>2, <2>1, <2>2
  <2>4. G[a][b][seq[a][b]] = H[a][b][seq[a][b]]
    BY <2>3 DEF Extends
  <2>5. QED
    BY <1>2, <2>4 DEF Heard
<1>3. QED
  BY <1>1, <1>2

LEMMA AuthenticGrows ==
  ASSUME NEW H \in History, NEW G \in History, Extends(H, G), NEW p \in Authentic(H)
  PROVE  p \in Authentic(G)
<1>1. p \in LSP /\ p.node1 \in Node /\ p.node2 \in Node /\ p.node1 # p.node2
  BY DEF Authentic, LSP
<1> DEFINE h == H[p.node1][p.node2]
           g == G[p.node1][p.node2]
<1>2. /\ p.seqNum \in 1 .. Len(h) /\ p.cost = h[p.seqNum]
      /\ Len(h) <= Len(g) /\ \A i \in 1 .. Len(h) : g[i] = h[i]
  BY <1>1 DEF Authentic, Extends
<1>3. Len(h) \in Nat /\ Len(g) \in Nat
  BY <1>1 DEF History
<1> HIDE DEF h, g
<1>4. p.seqNum \in 1 .. Len(g) /\ p.cost = g[p.seqNum]
  BY <1>2, <1>3
<1>5. QED
  BY <1>1, <1>4 DEF Authentic, g

LEMMA NetworkGrows ==
  ASSUME NEW H \in History, NEW G \in History, Extends(H, G), NEW q \in Network(H)
  PROVE  q \in Network(G)
<1>1. Authentic(H) \subseteq Authentic(G)
  BY AuthenticGrows
<1>2. \A h \in Hop : q[h] \in Seq(Authentic(H)) /\ (q[h] # <<>> => h \in Link)
  BY DEF Network
<1>3. \A h \in Hop : q[h] \in Seq(Authentic(G))
  BY <1>1, <1>2, SeqMonotonic
<1>4. QED
  BY <1>2, <1>3 DEF Network

LEMMA ExtendsTransitive ==
  ASSUME NEW H \in History, NEW G \in History, NEW F \in History, Extends(H, G), Extends(G, F)
  PROVE  Extends(H, F)
<1>1. SUFFICES ASSUME NEW a \in Node, NEW b \in Node
               PROVE  /\ Len(H[a][b]) <= Len(F[a][b])
                      /\ \A i \in 1 .. Len(H[a][b]) : F[a][b][i] = H[a][b][i]
  BY DEF Extends
<1>2. Len(H[a][b]) \in Nat /\ Len(G[a][b]) \in Nat /\ Len(F[a][b]) \in Nat
  BY DEF History
<1>3. Len(H[a][b]) <= Len(G[a][b]) /\ Len(G[a][b]) <= Len(F[a][b])
  BY DEF Extends
<1>4. \A i \in 1 .. Len(H[a][b]) : i \in 1 .. Len(G[a][b])
  BY <1>2, <1>3
<1>5. QED
  BY <1>2, <1>3, <1>4 DEF Extends

-----------------------------------------------------------------------------
(* Flooding.                                                                *)

\* What a flood changes of the node's state, X being the ends of the links it is about.
FloodSeq(n, s, X) ==
  [s.seq EXCEPT ![n] = [x \in Node |-> IF x \in X THEN s.seq[n][x] + 1 ELSE s.seq[n][x]]]

FloodSaid(s, news, X) ==
  [x \in Node |-> IF x \in X THEN Append(s.said[x], news[x]) ELSE s.said[x]]

Packet(n, s, news, x) ==
  [node1 |-> n, node2 |-> x, cost |-> news[x], seqNum |-> s.seq[n][x] + 1, ttl |-> TTL]

Packets(n, s, news, S) == [i \in DOMAIN InIdOrder[S] |-> Packet(n, s, news, InIdOrder[S][i])]

FloodNet(n, s, news, X, to) ==
  [h \in Hop |-> IF h[1] = n /\ h \in up
                 THEN s.net[h] \o Packets(n, s, news, {x \in X : <<h[2], x>> \in to})
                 ELSE s.net[h]]

LEMMA FloodIs ==
  ASSUME NEW n \in Node, NEW s, Typed(n, s),
         NEW X \in SUBSET Neighbors(n), NEW news \in [X -> SaidCost], NEW to
  PROVE  Flood(n, s, news, to) =
           [conn |-> s.conn, cost |-> s.cost, adj |-> s.adj, seq |-> FloodSeq(n, s, X),
            fwd |-> s.fwd, net |-> FloodNet(n, s, news, X, to), mesg |-> s.mesg,
            said |-> FloodSaid(s, news, X), floods |-> s.floods]
<1> DEFINE own == [x \in Node |-> IF x \in X THEN s.seq[n][x] + 1 ELSE s.seq[n][x]]
           says == FloodSaid(s, news, X)
           q == FloodNet(n, s, news, X, to)
<1>1. DOMAIN news = X
  OBVIOUS
<1>2. Flood(n, s, news, to) = [s EXCEPT !.seq[n] = own, !.said = says, !.net = q]
  BY <1>1 DEF Flood, FloodSaid, FloodNet, Packets, Packet
<1>3. s = [conn |-> s.conn, cost |-> s.cost, adj |-> s.adj, seq |-> s.seq, fwd |-> s.fwd,
           net |-> s.net, mesg |-> s.mesg, said |-> s.said, floods |-> s.floods]
  BY DEF Typed, IsState
<1> HIDE DEF own, says, q
<1>4. Flood(n, s, news, to) =
        [conn |-> s.conn, cost |-> s.cost, adj |-> s.adj,
         seq |-> [s.seq EXCEPT ![n] = own], fwd |-> s.fwd, net |-> q,
         mesg |-> s.mesg, said |-> says, floods |-> s.floods]
  BY <1>2, <1>3
<1>5. QED
  BY <1>4 DEF own, says, q, FloodSeq

\* The history of a flood, and the numbers.
LEMMA FloodSays ==
  ASSUME said \in History, NEW n \in Node, NEW s, Typed(n, s), Numbered(Hist(n, s), s),
         NEW X \in SUBSET Neighbors(n), NEW news \in [X -> SaidCost],
         NEW r, Typed(n, r),
         r.seq = FloodSeq(n, s, X), r.said = FloodSaid(s, news, X)
  PROVE  /\ Extends(Hist(n, s), Hist(n, r)) /\ Numbered(Hist(n, r), r)
         /\ \A b \in X : Heard(Hist(n, r), r.seq, n, b) = {news[b]}
         /\ \A a, b \in Node : a # b /\ ~ (a = n /\ b \in X) =>
              Heard(Hist(n, r), r.seq, a, b) = Heard(Hist(n, s), s.seq, a, b)
<1> DEFINE H == Hist(n, s)
           G == Hist(n, r)
<1>1. /\ H \in History /\ H[n] = s.said /\ \A a \in Node : a # n => H[a] = said[a]
      /\ G \in History /\ G[n] = r.said /\ \A a \in Node : a # n => G[a] = said[a]
  BY HistType
<1>2. /\ s.seq \in [Node -> [Node -> Nat]] /\ s.said \in [Node -> Seq(SaidCost)]
      /\ \A x \in Node : s.seq[n][x] = Len(s.said[x])
      /\ \A x \in Node : r.seq[n][x] = Len(r.said[x])
      /\ X \subseteq Node \ {n}
  BY NeighborsAreOthers DEF Typed
<1> HIDE DEF H, G
<1>3. \A x \in X : /\ r.said[x] = Append(s.said[x], news[x]) /\ s.said[x] \in Seq(SaidCost)
                   /\ r.seq[n][x] = s.seq[n][x] + 1 /\ news[x] \in SaidCost
  BY <1>2 DEF FloodSeq, FloodSaid
<1>4. \A x \in Node \ X : r.said[x] = s.said[x] /\ r.seq[n][x] = s.seq[n][x]
  BY <1>2 DEF FloodSeq, FloodSaid
<1>5. \A a \in Node : a # n => r.seq[a] = s.seq[a] /\ G[a] = H[a]
  BY <1>1, <1>2 DEF FloodSeq
<1>6. Extends(H, G)
  <2>1. SUFFICES ASSUME NEW a \in Node, NEW b \in Node
                 PROVE  /\ Len(H[a][b]) <= Len(G[a][b])
                        /\ \A i \in 1 .. Len(H[a][b]) : G[a][b][i] = H[a][b][i]
    BY DEF Extends
  <2>2. Len(H[a][b]) \in Nat
    BY <1>1 DEF History
  <2>3. CASE a = n /\ b \in X
    <3>1. H[a][b] = s.said[b] /\ G[a][b] = Append(s.said[b], news[b]) /\ s.said[b] \in Seq(SaidCost)
          /\ news[b] \in SaidCost
      BY <1>1, <1>3, <2>3
    <3>2. QED
      BY <3>1, <2>2, AppendProperties
  <2>4. CASE ~ (a = n /\ b \in X)
    <3>1. G[a][b] = H[a][b]
      BY <1>1, <1>4, <1>5, <2>4
    <3>2. QED
      BY <3>1, <2>2
  <2>5. QED
    BY <2>3, <2>4
<1>7. Numbered(G, r)
  <2>1. SUFFICES ASSUME NEW a \in Node, NEW b \in Node, a # b PROVE r.seq[a][b] <= Len(G[a][b])
    BY DEF Numbered
  <2>2. CASE a = n
    <3>1. G[n] = r.said /\ r.said[b] \in Seq(SaidCost) /\ r.seq[n][b] = Len(r.said[b])
      BY <1>1, <1>2 DEF Typed
    <3>2. QED
      BY <3>1, <2>2
  <2>3. CASE a # n
    BY <2>1, <2>3, <1>5 DEF Numbered, H
  <2>4. QED
    BY <2>2, <2>3
<1>8. ASSUME NEW a \in Node, NEW b \in Node, a # b
      PROVE  Heard(G, r.seq, a, b) = IF a = n /\ b \in X THEN {news[b]} ELSE Heard(H, s.seq, a, b)
  <2>1. CASE a = n /\ b \in X
    <3>1. Len(s.said[b]) \in Nat /\ r.seq[n][b] = Len(s.said[b]) + 1
          /\ G[n][b] = Append(s.said[b], news[b]) /\ s.said[b] \in Seq(SaidCost)
          /\ news[b] \in SaidCost
      BY <1>1, <1>2, <1>3, <2>1
    <3>2. G[n][b][r.seq[n][b]] = news[b]
      BY <3>1, AppendProperties
    <3>3. r.seq[n][b] # 0
      BY <3>1
    <3>4. QED
      BY <3>2, <3>3, <2>1 DEF Heard
  <2>2. CASE a = n /\ b \notin X
    BY <2>2, <1>1, <1>4 DEF Heard
  <2>3. CASE a # n
    BY <2>3, <1>5 DEF Heard
  <2>4. QED
    BY <2>1, <2>2, <2>3
<1>9. QED
  BY <1>2, <1>6, <1>7, <1>8 DEF H, G

\* Its packets.
LEMMA FloodSends ==
  ASSUME said \in History, NEW n \in Node, NEW s, Typed(n, s), up \subseteq Link,
         NEW X \in SUBSET Neighbors(n), NEW news \in [X -> SaidCost], NEW to,
         NEW r, Typed(n, r), r.said = FloodSaid(s, news, X),
         s.net \in Network(Hist(n, s)), Extends(Hist(n, s), Hist(n, r))
  PROVE  FloodNet(n, s, news, X, to) \in Network(Hist(n, r))
<1> DEFINE G == Hist(n, r)
           q == FloodNet(n, s, news, X, to)
<1>1. Hist(n, s) \in History /\ G \in History /\ G[n] = r.said
  BY HistType
<1>2. s.net \in Network(G)
  BY <1>1, NetworkGrows
<1> HIDE DEF G
<1>3. ASSUME NEW x \in X PROVE Packet(n, s, news, x) \in Authentic(G)
  <2>1. x \in Node /\ x # n /\ news[x] \in SaidCost
    BY NeighborsAreOthers
  <2>2. s.said[x] \in Seq(SaidCost) /\ s.seq[n][x] = Len(s.said[x]) /\ Len(s.said[x]) \in Nat
    BY <2>1 DEF Typed
  <2>3. G[n][x] = Append(s.said[x], news[x])
    BY <1>1, <2>1 DEF FloodSaid
  <2>4. Len(G[n][x]) = Len(s.said[x]) + 1 /\ G[n][x][Len(s.said[x]) + 1] = news[x]
    BY <2>1, <2>2, <2>3, AppendProperties
  <2>5. TTL \in 1 .. TTL
    BY LsAssumption
  <2>6. s.seq[n][x] + 1 \in 1 .. Len(G[n][x]) /\ s.seq[n][x] + 1 \in Nat
        /\ G[n][x][s.seq[n][x] + 1] = news[x] /\ news[x] \in Int
    BY <2>1, <2>2, <2>4 DEF SaidCost, Down
  <2>7. QED
    BY <2>1, <2>5, <2>6 DEF Authentic, LSP, Packet
<1>4. ASSUME NEW S \in SUBSET X PROVE Packets(n, s, news, S) \in Seq(Authentic(G))
  <2> DEFINE l == InIdOrder[S]
  <2>1. l \in Seq(S)
    BY NeighborsAreOthers, InIdOrderType
  <2>2. Packets(n, s, news, S) = [i \in DOMAIN l |-> Packet(n, s, news, l[i])]
    BY DEF Packets
  <2> HIDE DEF l
  <2>3. Len(l) \in Nat /\ DOMAIN l = 1 .. Len(l) /\ \A i \in 1 .. Len(l) : l[i] \in S
    BY <2>1
  <2>4. \A i \in 1 .. Len(l) : Packet(n, s, news, l[i]) \in Authentic(G)
    BY <2>3, <1>3
  <2>5. QED
    BY <2>2, <2>3, <2>4
<1>5. ASSUME NEW h \in Hop PROVE q[h] \in Seq(Authentic(G)) /\ (q[h] # <<>> => h \in Link)
  <2> DEFINE S == {x \in X : <<h[2], x>> \in to}
             added == Packets(n, s, news, S)
  <2>1. s.net[h] \in Seq(Authentic(G)) /\ (s.net[h] # <<>> => h \in Link)
    BY <1>2 DEF Network
  <2>2. q[h] = IF h[1] = n /\ h \in up THEN s.net[h] \o added ELSE s.net[h]
    BY DEF FloodNet
  <2>3. added \in Seq(Authentic(G))
    BY <1>4
  <2> HIDE DEF added, q
  <2>4. s.net[h] \o added \in Seq(Authentic(G))
    BY <2>1, <2>3, ConcatProperties
  <2>5. QED
    BY <2>1, <2>2, <2>4
<1>6. ASSUME NEW h \in Hop PROVE q[h] \in Seq(LSP)
  <2>1. Authentic(G) \subseteq LSP
    BY DEF Authentic
  <2>2. QED
    BY <2>1, <1>5, SeqMonotonic
<1>7. q = [h \in Hop |-> q[h]]
  BY DEF FloodNet
<1> HIDE DEF q
<1>8. q \in Network(G)
  BY <1>5, <1>6, <1>7 DEF Network
<1>9. QED
  BY <1>8 DEF G, q

\* A flood tells what the node believes of the links it is about, and so explains it.
LEMMA FloodOK ==
  ASSUME said \in History, up \subseteq Link, NEW n \in Node, NEW s,
         NEW X \in SUBSET Neighbors(n), NEW news \in [X -> SaidCost], NEW to,
         Extends(said, Hist(n, s)), Known(Hist(n, s), n, s, X),
         \A x \in X : s.adj[n][x] \in {news[x]} \cup Heard(Hist(n, s), s.seq, x, n),
         NEW r, r = Flood(n, s, news, to)
  PROVE  /\ Extends(said, Hist(n, r)) /\ Known(Hist(n, r), n, r, {})
         /\ r.conn = s.conn /\ r.cost = s.cost /\ r.adj = s.adj /\ r.fwd = s.fwd
         /\ r.mesg = s.mesg /\ r.floods = s.floods
<1> DEFINE H == Hist(n, s)
           G == Hist(n, r)
<1>1. Typed(n, s) /\ Numbered(H, s) /\ Matches(H, n, s) /\ ExplainedBut(H, n, s, X)
      /\ s.net \in Network(H)
  BY DEF Known
<1>2. r = [conn |-> s.conn, cost |-> s.cost, adj |-> s.adj, seq |-> FloodSeq(n, s, X),
           fwd |-> s.fwd, net |-> FloodNet(n, s, news, X, to), mesg |-> s.mesg,
           said |-> FloodSaid(s, news, X), floods |-> s.floods]
  BY <1>1, FloodIs
<1>3. /\ r.conn = s.conn /\ r.cost = s.cost /\ r.adj = s.adj /\ r.fwd = s.fwd
      /\ r.mesg = s.mesg /\ r.floods = s.floods /\ r.seq = FloodSeq(n, s, X)
      /\ r.said = FloodSaid(s, news, X) /\ r.net = FloodNet(n, s, news, X, to)
      /\ IsState(r)
  BY <1>2 DEF IsState
<1>4. Typed(n, r)
  <2>1. /\ s.conn \in SUBSET Neighbors(n) /\ s.cost \in CostTable(n) /\ s.adj \in Matrix
        /\ s.seq \in [Node -> [Node -> Nat]] /\ s.mesg \in Messages
        /\ s.said \in [Node -> Seq(SaidCost)] /\ \A x \in Node : s.seq[n][x] = Len(s.said[x])
        /\ \A x \in Node : s.said[x] # <<>> => x \in Neighbors(n)
    BY <1>1 DEF Typed
  <2>2. FloodSeq(n, s, X) \in [Node -> [Node -> Nat]]
    BY <2>1 DEF FloodSeq
  <2>3. ASSUME NEW x \in Node
        PROVE  /\ FloodSaid(s, news, X)[x] \in Seq(SaidCost)
               /\ FloodSeq(n, s, X)[n][x] = Len(FloodSaid(s, news, X)[x])
               /\ FloodSaid(s, news, X)[x] # <<>> => x \in Neighbors(n)
    <3>1. s.said[x] \in Seq(SaidCost) /\ s.seq[n][x] = Len(s.said[x])
      BY <2>1
    <3>2. CASE x \in X
      <4>1. news[x] \in SaidCost
        BY <3>2
      <4>2. FloodSaid(s, news, X)[x] = Append(s.said[x], news[x])
            /\ FloodSeq(n, s, X)[n][x] = s.seq[n][x] + 1
        BY <3>2, <2>1 DEF FloodSaid, FloodSeq
      <4>3. /\ FloodSaid(s, news, X)[x] \in Seq(SaidCost)
            /\ FloodSeq(n, s, X)[n][x] = Len(FloodSaid(s, news, X)[x])
        BY <3>1, <4>1, <4>2, AppendProperties
      <4>4. QED
        BY <3>2, <4>3
    <3>3. CASE x \notin X
      BY <3>1, <3>3, <2>1 DEF FloodSaid, FloodSeq
    <3>4. QED
      BY <3>2, <3>3
  <2>4. FloodSaid(s, news, X) \in [Node -> Seq(SaidCost)]
    <3>1. FloodSaid(s, news, X) = [x \in Node |-> FloodSaid(s, news, X)[x]]
      BY DEF FloodSaid
    <3>2. QED
      BY <3>1, <2>3
  <2>5. QED
    BY <2>1, <2>2, <2>3, <2>4, <1>3 DEF Typed
<1>5. /\ Extends(H, G) /\ Numbered(G, r)
      /\ \A b \in X : Heard(G, r.seq, n, b) = {news[b]}
      /\ \A a, b \in Node : a # b /\ ~ (a = n /\ b \in X) =>
           Heard(G, r.seq, a, b) = Heard(H, s.seq, a, b)
  BY <1>1, <1>3, <1>4, FloodSays
<1>6. r.net \in Network(G)
  BY <1>1, <1>3, <1>4, <1>5, FloodSends
<1>7. Extends(said, G)
  BY <1>1, <1>4, <1>5, HistType, ExtendsTransitive
<1> HIDE DEF H, G
<1>8. \A m \in s.conn : m \in Node /\ m # n
  BY <1>1, NeighborsAreOthers DEF Typed
<1>9. Matches(G, n, r)
  BY <1>1, <1>3, <1>5, <1>8 DEF Matches
<1>10. ExplainedBut(G, n, r, {})
  <2>1. SUFFICES ASSUME NEW a \in Node, NEW b \in Node, a # b
                 PROVE Explains(G, r.seq, a, b, s.adj[a][b])
    BY <1>3 DEF ExplainedBut
  <2>2. \A x \in X : s.adj[n][x] = s.adj[x][n]
    BY <1>1, NeighborsAreOthers DEF Typed, Matrix
  <2>3. CASE a = n /\ b \in X
    <3>1. Heard(G, r.seq, a, b) = {news[b]} /\ Heard(G, r.seq, b, a) = Heard(H, s.seq, b, a)
      BY <2>1, <2>3, <1>5
    <3>2. QED
      BY <3>1, <2>3 DEF Explains, H
  <2>4. CASE b = n /\ a \in X
    <3>1. Heard(G, r.seq, b, a) = {news[a]} /\ Heard(G, r.seq, a, b) = Heard(H, s.seq, a, b)
      BY <2>1, <2>4, <1>5
    <3>2. QED
      BY <3>1, <2>2, <2>4 DEF Explains, H
  <2>5. CASE ~ (a = n /\ b \in X) /\ ~ (b = n /\ a \in X)
    <3>1. Heard(G, r.seq, b, a) = Heard(H, s.seq, b, a) /\ Heard(G, r.seq, a, b) = Heard(H, s.seq, a, b)
      BY <2>1, <2>5, <1>5
    <3>2. ~ (\E x \in X : {a, b} = {n, x})
      BY <2>5, <2>1
    <3>3. QED
      BY <2>1, <3>1, <3>2, <1>1 DEF Explains, ExplainedBut
  <2>6. QED
    BY <2>3, <2>4, <2>5
<1>11. QED
  BY <1>3, <1>4, <1>5, <1>6, <1>7, <1>9, <1>10 DEF Known, G

-----------------------------------------------------------------------------
(* The forwarding table.                                                    *)

LEMMA ViewOK ==
  ASSUME NEW n \in Node, NEW s, Typed(n, s)
  PROVE  IsView(View(n, s)) /\ Nodes(View(n, s)) = Node
<1> DEFINE v == View(n, s)
<1>1. v.self = n /\ v.conn = s.conn /\ v.cost = s.cost /\ v.adj = s.adj
  BY DEF View
<1> HIDE DEF v
<1>2. /\ s.conn \in SUBSET Neighbors(n) /\ s.cost \in CostTable(n) /\ s.adj \in Matrix
  BY DEF Typed
<1>3. Nodes(v) = Node
  BY <1>1, <1>2 DEF Nodes, Matrix
<1>4. Node \in SUBSET Nat /\ IsFiniteSet(Node)
  BY MonitorAssumption
<1>5. s.conn \in SUBSET (Node \ {n})
  BY <1>2, NeighborsAreOthers
<1>6. s.cost \in [Node -> Nat] /\ \A m \in s.conn : s.cost[m] > 0
  BY <1>2, <1>5 DEF CostTable
<1>7. s.adj \in [Node -> [Node -> Int]] /\ \A a, b \in Node : s.adj[a][b] = s.adj[b][a]
  BY <1>2 DEF Matrix
<1>8. IsView(v)
  BY <1>1, <1>3, <1>4, <1>5, <1>6, <1>7 DEF IsView
<1>9. QED
  BY <1>3, <1>8 DEF v

\* The table says nothing that the rest of a state depends on.
LEMMA SameKnowledge ==
  ASSUME NEW n, NEW s, NEW r, IsState(r), r.conn = s.conn, r.cost = s.cost, r.adj = s.adj,
         r.seq = s.seq, r.said = s.said, r.net = s.net, r.mesg \in Messages
  PROVE  /\ Hist(n, r) = Hist(n, s)
         /\ Typed(n, s) => Typed(n, r)
         /\ \A H, X : Known(H, n, s, X) => Known(H, n, r, X)
<1>1. Hist(n, r) = Hist(n, s) /\ (Typed(n, s) => Typed(n, r))
  BY DEF Hist, Typed
<1>2. ASSUME NEW H, NEW X, Known(H, n, s, X) PROVE Known(H, n, r, X)
  BY <1>1, <1>2 DEF Known, Numbered, Matches, ExplainedBut
<1>3. QED
  BY <1>1, <1>2

LEMMA SameTable ==
  ASSUME NEW n, NEW s, NEW r, r.conn = s.conn, r.cost = s.cost, r.adj = s.adj, r.fwd = s.fwd,
         GoodTable(n, s)
  PROVE  GoodTable(n, r)
<1>1. View(n, r) = View(n, s)
  BY DEF View
<1>2. QED
  BY <1>1 DEF GoodTable

LEMMA WithTableOK ==
  ASSUME NEW n \in Node, NEW s, Typed(n, s), NEW r, r = WithTable(n, s)
  PROVE  /\ IsState(r) /\ GoodTable(n, r) /\ r.fwd = UpdateFwdTable(View(n, r))
         /\ r.conn = s.conn /\ r.cost = s.cost /\ r.adj = s.adj /\ r.seq = s.seq
         /\ r.net = s.net /\ r.mesg = s.mesg /\ r.said = s.said /\ r.floods = s.floods
<1> DEFINE table == UpdateFwdTable(View(n, s))
<1>1. r = [s EXCEPT !.fwd = table]
  BY DEF WithTable
<1> HIDE DEF table
<1>2. s = [conn |-> s.conn, cost |-> s.cost, adj |-> s.adj, seq |-> s.seq, fwd |-> s.fwd,
           net |-> s.net, mesg |-> s.mesg, said |-> s.said, floods |-> s.floods]
  BY DEF Typed, IsState
<1>3. r = [conn |-> s.conn, cost |-> s.cost, adj |-> s.adj, seq |-> s.seq, fwd |-> table,
           net |-> s.net, mesg |-> s.mesg, said |-> s.said, floods |-> s.floods]
  BY <1>1, <1>2
<1>4. /\ IsState(r) /\ r.fwd = table
      /\ r.conn = s.conn /\ r.cost = s.cost /\ r.adj = s.adj /\ r.seq = s.seq
      /\ r.net = s.net /\ r.mesg = s.mesg /\ r.said = s.said /\ r.floods = s.floods
  BY <1>3 DEF IsState
<1>5. View(n, r) = View(n, s) /\ View(n, s).self = n /\ View(n, s).conn = s.conn
  BY <1>4 DEF View
<1>6. IsView(View(n, s)) /\ Nodes(View(n, s)) = Node
  BY ViewOK
<1>7. /\ \E D \in SUBSET Nodes(View(n, s)) :
           table \in [D -> [cost : Nat, nexthop : View(n, s).conn \cup {NoHop}]]
      /\ IsShortest(View(n, s), table)
      /\ OwnLinksAgree(View(n, s)) => TiesBroken(View(n, s), table)
      /\ \A d \in DOMAIN table \ {View(n, s).self} : table[d].nexthop \in View(n, s).conn
  BY <1>6, ShortestPaths DEF table
<1>8. \E D \in SUBSET Node : table \in [D -> Route]
  <2>1. PICK D \in SUBSET Node : table \in [D -> [cost : Nat, nexthop : s.conn \cup {NoHop}]]
    BY <1>5, <1>6, <1>7
  <2>2. s.conn \subseteq Node
    BY NeighborsAreOthers DEF Typed
  <2>3. [cost : Nat, nexthop : s.conn \cup {NoHop}] \subseteq Route
    BY <2>2 DEF Route
  <2>4. table \in [D -> Route]
    BY <2>1, <2>3
  <2>5. QED
    BY <2>4
<1>9. table # <<>>
  BY <1>5, <1>7 DEF IsShortest
<1>10. GoodTable(n, r)
  BY <1>4, <1>5, <1>7, <1>8, <1>9 DEF GoodTable
<1>11. QED
  BY <1>4, <1>5, <1>10 DEF table

-----------------------------------------------------------------------------
(* The functions of a turn keep a node sound.                               *)

\* What n has as gone was a link once.
LEMMA GoneWasLink ==
  ASSUME said \in History, NEW n \in Node, NEW s, Known(Hist(n, s), n, s, s.conn),
         NEW m \in Node \ {n}, m \notin s.conn, s.adj[n][m] = Down
  PROVE  m \in Neighbors(n)
<1> DEFINE H == Hist(n, s)
<1>1. /\ Typed(n, s) /\ Numbered(H, s) /\ ExplainedBut(H, n, s, s.conn) /\ H \in History
      /\ s.seq \in [Node -> [Node -> Nat]]
  BY HistType DEF Known, Typed
<1> HIDE DEF H
<1>2. Explains(H, s.seq, n, m, Down)
  BY <1>1 DEF ExplainedBut
<1>3. s.seq[n][m] # 0 \/ s.seq[m][n] # 0
  BY <1>2 DEF Explains, Heard, Down
<1>4. ASSUME NEW a \in Node, NEW b \in Node, a # b, s.seq[a][b] # 0 PROVE <<a, b>> \in Link
  <2>1. s.seq[a][b] \in Nat /\ s.seq[a][b] <= Len(H[a][b])
    BY <1>1, <1>4 DEF Numbered
  <2>2. H[a][b] # <<>>
    <3>1. SUFFICES ASSUME H[a][b] = <<>> PROVE FALSE
      OBVIOUS
    <3>2. Len(H[a][b]) = 0
      BY <3>1
    <3>3. QED
      BY <2>1, <3>2, <1>4
  <2>3. QED
    BY <2>2, <1>1 DEF History
<1>5. QED
  BY <1>3, <1>4, MonitorAssumption DEF Neighbors

LEMMA OwnLinksType ==
  ASSUME said \in History, NEW n \in Node, NEW s, Known(Hist(n, s), n, s, s.conn)
  PROVE  \E X \in SUBSET Neighbors(n) :
           /\ s.conn \subseteq X /\ OwnLinks(n, s) \in [X -> SaidCost]
           /\ \A x \in X : IF x \in s.conn THEN OwnLinks(n, s)[x] = s.cost[x]
                           ELSE OwnLinks(n, s)[x] = Down /\ s.adj[n][x] = Down
<1> DEFINE X == s.conn \cup {m \in Node \ {n} : s.adj[n][m] = Down}
<1>1. s.conn \subseteq Neighbors(n) /\ s.conn \subseteq Node \ {n} /\ s.cost \in CostTable(n)
  BY NeighborsAreOthers DEF Known, Typed
<1>2. \A x \in s.conn : s.cost[x] \in SaidCost
  BY <1>1 DEF CostTable, SaidCost
<1>3. OwnLinks(n, s) = [x \in X |-> IF x \in s.conn THEN s.cost[x] ELSE Down]
  BY DEF OwnLinks
<1>4. X \in SUBSET Neighbors(n) /\ s.conn \subseteq X
  BY <1>1, GoneWasLink
<1>5. \A x \in X : x \notin s.conn => s.adj[n][x] = Down
  OBVIOUS
<1> HIDE DEF X
<1>6. OwnLinks(n, s) \in [X -> SaidCost]
  BY <1>2, <1>3 DEF SaidCost
<1>7. QED
  BY <1>3, <1>4, <1>5, <1>6

LEMMA FloodLSPOK ==
  ASSUME said \in History, up \subseteq Link, NEW n \in Node, NEW s,
         Extends(said, Hist(n, s)), Known(Hist(n, s), n, s, s.conn), GoodTable(n, s),
         NEW r, r = FloodLSP(n, s)
  PROVE  Sound(n, r) /\ r.conn = s.conn /\ r.mesg = s.mesg /\ r.floods = s.floods
<1>1. Typed(n, s) /\ Matches(Hist(n, s), n, s)
  BY DEF Known
<1>2. PICK X \in SUBSET Neighbors(n) :
        /\ s.conn \subseteq X /\ OwnLinks(n, s) \in [X -> SaidCost]
        /\ \A x \in X : IF x \in s.conn THEN OwnLinks(n, s)[x] = s.cost[x]
                        ELSE OwnLinks(n, s)[x] = Down /\ s.adj[n][x] = Down
  BY <1>1, OwnLinksType
<1>3. Known(Hist(n, s), n, s, X)
  BY <1>2 DEF Known, ExplainedBut
<1>4. \A x \in X : s.adj[n][x] \in {OwnLinks(n, s)[x]} \cup Heard(Hist(n, s), s.seq, x, n)
  BY <1>1, <1>2 DEF Matches
<1>5. r = Flood(n, s, OwnLinks(n, s), s.conn \X Node)
  BY DEF FloodLSP
<1>6. /\ Extends(said, Hist(n, r)) /\ Known(Hist(n, r), n, r, {})
      /\ r.conn = s.conn /\ r.cost = s.cost /\ r.adj = s.adj /\ r.fwd = s.fwd
      /\ r.mesg = s.mesg /\ r.floods = s.floods
  BY <1>2, <1>3, <1>4, <1>5, FloodOK
<1>7. QED
  BY <1>6, SameTable DEF Sound

LEMMA WithLinkIs ==
  ASSUME NEW adj \in Matrix, NEW a \in Node, NEW b \in Node, a # b, NEW c \in Int
  PROVE  /\ WithLink(adj, a, b, c) \in Matrix
         /\ WithLink(adj, a, b, c)[a][b] = c /\ WithLink(adj, a, b, c)[b][a] = c
         /\ \A x, y \in Node : ~ (x = a /\ y = b) /\ ~ (x = b /\ y = a) =>
              WithLink(adj, a, b, c)[x][y] = adj[x][y]
<1> DEFINE r == WithLink(adj, a, b, c)
<1>1. adj \in [Node -> [Node -> Int]] /\ \A x, y \in Node : adj[x][x] = 0 /\ adj[x][y] = adj[y][x]
  BY DEF Matrix
<1>2. r = [[adj EXCEPT ![a] = [adj[a] EXCEPT ![b] = c]] EXCEPT ![b] = [adj[b] EXCEPT ![a] = c]]
  BY <1>1 DEF WithLink
<1>3. r \in [Node -> [Node -> Int]]
  BY <1>1, <1>2
<1>4. \A x, y \in Node : r[x][y] = IF (x = a /\ y = b) \/ (x = b /\ y = a) THEN c ELSE adj[x][y]
  BY <1>1, <1>2
<1> HIDE DEF r
<1>5. \A x, y \in Node : r[x][x] = 0 /\ r[x][y] = r[y][x]
  BY <1>1, <1>4
<1>6. \A x, y \in Node : ~ (x = a /\ y = b) /\ ~ (x = b /\ y = a) => r[x][y] = adj[x][y]
  BY <1>4
<1>7. r[a][b] = c /\ r[b][a] = c
  BY <1>4
<1>8. r \in Matrix
  BY <1>3, <1>5 DEF Matrix
<1>9. QED
  BY <1>6, <1>7, <1>8 DEF r

\* A cost of a link of its own that n enters in both tables is the one thing left to say.
LEMMA LinkEntered ==
  ASSUME said \in History, NEW n \in Node, NEW s, Sound(n, s), NEW m \in Neighbors(n),
         NEW c \in Nat \ {0}, NEW t, IsState(t), t.conn = s.conn \cup {m},
         t.cost = [s.cost EXCEPT ![m] = c], t.adj = WithLink(s.adj, n, m, c),
         t.seq = s.seq, t.net = s.net, t.mesg = s.mesg, t.said = s.said
  PROVE  Hist(n, t) = Hist(n, s) /\ Known(Hist(n, t), n, t, {m})
<1> DEFINE H == Hist(n, s)
<1>1. Hist(n, t) = H
  BY DEF Hist
<1> HIDE DEF H
<1>2. Typed(n, s) /\ Numbered(H, s) /\ Matches(H, n, s) /\ ExplainedBut(H, n, s, {})
      /\ s.net \in Network(H)
  BY DEF Sound, Known, H
<1>3. /\ s.conn \in SUBSET Neighbors(n) /\ s.cost \in CostTable(n) /\ s.adj \in Matrix
      /\ m \in Node /\ m # n /\ c \in Int /\ s.conn \subseteq Node \ {n}
  BY <1>2, NeighborsAreOthers DEF Typed
<1>4. /\ t.adj \in Matrix /\ t.adj[n][m] = c /\ t.adj[m][n] = c
      /\ \A x, y \in Node : ~ (x = n /\ y = m) /\ ~ (x = m /\ y = n) => t.adj[x][y] = s.adj[x][y]
  <2>1. /\ WithLink(s.adj, n, m, c) \in Matrix
        /\ WithLink(s.adj, n, m, c)[n][m] = c /\ WithLink(s.adj, n, m, c)[m][n] = c
        /\ \A x, y \in Node : ~ (x = n /\ y = m) /\ ~ (x = m /\ y = n) =>
             WithLink(s.adj, n, m, c)[x][y] = s.adj[x][y]
    BY <1>3, WithLinkIs
  <2>2. QED
    BY <2>1
<1>5. /\ t.cost \in CostTable(n) /\ t.cost[m] = c
      /\ \A x \in Node : x # m => t.cost[x] = s.cost[x]
  BY <1>3 DEF CostTable
<1>6. Typed(n, t)
  BY <1>2, <1>3, <1>4, <1>5 DEF Typed
<1>7. Matches(H, n, t)
  <2>1. SUFFICES ASSUME NEW k \in t.conn
                 PROVE  \/ t.adj[n][k] = t.cost[k]
                        \/ t.adj[n][k] = Down /\ Down \in Heard(H, s.seq, k, n)
    BY DEF Matches
  <2>2. CASE k = m
    BY <2>2, <1>4, <1>5
  <2>3. CASE k # m
    <3>1. k \in s.conn /\ k \in Node /\ k # n
      BY <2>3, <1>3
    <3>2. t.adj[n][k] = s.adj[n][k] /\ t.cost[k] = s.cost[k]
      BY <3>1, <2>3, <1>4, <1>5
    <3>3. QED
      BY <3>1, <3>2, <1>2 DEF Matches
  <2>4. QED
    BY <2>2, <2>3
<1>8. ExplainedBut(H, n, t, {m})
  BY <1>2, <1>4 DEF ExplainedBut
<1>9. Numbered(H, t) /\ t.net \in Network(H)
  BY <1>2 DEF Numbered
<1>10. Known(H, n, t, {m})
  BY <1>6, <1>7, <1>8, <1>9 DEF Known
<1>11. QED
  BY <1>1, <1>10 DEF H

\* What is flooded when m is a new neighbour.
LEMMA NewNeighborIs ==
  ASSUME said \in History, NEW n \in Node, NEW s, Sound(n, s), NEW m \in Neighbors(n),
         m \notin s.conn
  PROVE  \E u :
           /\ HeardFrom(n, s, m) = FloodLSP(n, u)
           /\ Extends(said, Hist(n, u)) /\ Known(Hist(n, u), n, u, u.conn) /\ GoodTable(n, u)
           /\ u.fwd = UpdateFwdTable(View(n, u))
           /\ u.conn = s.conn \cup {m} /\ u.cost = s.cost
           /\ u.seq = s.seq /\ u.net = s.net /\ u.mesg = s.mesg /\ u.said = s.said
           /\ u.floods = s.floods
<1> DEFINE c == s.cost[m]
           link == WithLink(s.adj, n, m, c)
           t == [s EXCEPT !.conn = Connected(@, m), !.adj = WithLink(@, n, m, s.cost[m])]
           u == WithTable(n, t)
<1>1. Typed(n, s) /\ IsState(s) /\ s.cost \in CostTable(n) /\ m \in Node /\ m # n
  BY NeighborsAreOthers DEF Sound, Known, Typed
<1>2. HeardFrom(n, s, m) = FloodLSP(n, u)
  BY DEF HeardFrom
<1>3. t = [[s EXCEPT !.conn = s.conn \cup {m}] EXCEPT !.adj = link]
  BY <1>1 DEF Connected, IsState
<1> HIDE DEF t, u, link
<1>4. t = [conn |-> s.conn \cup {m}, cost |-> s.cost, adj |-> link, seq |-> s.seq,
           fwd |-> s.fwd, net |-> s.net, mesg |-> s.mesg, said |-> s.said, floods |-> s.floods]
  BY <1>1, <1>3 DEF IsState
<1>5. /\ IsState(t) /\ t.conn = s.conn \cup {m} /\ t.cost = s.cost /\ t.adj = link
      /\ t.seq = s.seq /\ t.net = s.net /\ t.mesg = s.mesg /\ t.said = s.said
      /\ t.floods = s.floods
  BY <1>4 DEF IsState
<1>6. c \in Nat \ {0} /\ s.cost = [s.cost EXCEPT ![m] = c]
  BY <1>1 DEF CostTable
<1> HIDE DEF c
<1>7. Hist(n, t) = Hist(n, s) /\ Known(Hist(n, t), n, t, {m})
  BY <1>5, <1>6, LinkEntered DEF link
<1>8. Typed(n, t) /\ t.mesg \in Messages
  BY <1>7 DEF Known, Typed
<1>9. /\ IsState(u) /\ GoodTable(n, u) /\ u.fwd = UpdateFwdTable(View(n, u))
      /\ u.conn = t.conn /\ u.cost = t.cost /\ u.adj = t.adj /\ u.seq = t.seq
      /\ u.net = t.net /\ u.mesg = t.mesg /\ u.said = t.said /\ u.floods = t.floods
  BY <1>8, WithTableOK DEF u
<1>10. Hist(n, u) = Hist(n, s) /\ Known(Hist(n, u), n, u, {m})
  BY <1>7, <1>8, <1>9, SameKnowledge
<1>11. Known(Hist(n, u), n, u, u.conn)
  BY <1>5, <1>9, <1>10 DEF Known, ExplainedBut
<1>12. Extends(said, Hist(n, u))
  BY <1>10 DEF Sound
<1>13. QED
  BY <1>2, <1>5, <1>9, <1>11, <1>12

LEMMA HeardFromOK ==
  ASSUME said \in History, up \subseteq Link, NEW n \in Node, NEW s, Sound(n, s),
         NEW m \in Neighbors(n), NEW r, r = HeardFrom(n, s, m)
  PROVE  Sound(n, r) /\ r.mesg = s.mesg /\ r.floods = s.floods /\ r.conn = s.conn \cup {m}
<1>1. CASE m \in s.conn
  BY <1>1 DEF HeardFrom
<1>2. CASE m \notin s.conn
  <2>1. PICK u :
          /\ HeardFrom(n, s, m) = FloodLSP(n, u)
          /\ Extends(said, Hist(n, u)) /\ Known(Hist(n, u), n, u, u.conn) /\ GoodTable(n, u)
          /\ u.conn = s.conn \cup {m} /\ u.mesg = s.mesg /\ u.floods = s.floods
    BY <1>2, NewNeighborIs
  <2>2. Sound(n, r) /\ r.conn = u.conn /\ r.mesg = u.mesg /\ r.floods = u.floods
    BY <2>1, FloodLSPOK
  <2>3. QED
    BY <2>1, <2>2
<1>3. QED
  BY <1>1, <1>2

LEMMA NoteSenderOK ==
  ASSUME said \in History, up \subseteq Link, NEW n \in Node, NEW s, Sound(n, s),
         NEW from \in Neighbors(n) \cup {Manager}, NEW r, r = NoteSender(n, s, from)
  PROVE  Sound(n, r) /\ r.mesg = s.mesg /\ r.floods = s.floods
<1>1. CASE from = Manager
  BY <1>1 DEF NoteSender
<1>2. CASE from # Manager
  <2>1. from \in Neighbors(n) /\ r = HeardFrom(n, s, from)
    BY <1>2 DEF NoteSender
  <2>2. QED
    BY <2>1, HeardFromOK
<1>3. QED
  BY <1>1, <1>2

LEMMA PeriodicFloodOK ==
  ASSUME said \in History, up \subseteq Link, NEW n \in Node, NEW s, Sound(n, s),
         s.floods \in 0 .. MaxFloods, NEW due, due => s.floods < MaxFloods,
         NEW r, r = PeriodicFlood(n, s, due)
  PROVE  Sound(n, r) /\ r.mesg = s.mesg /\ r.floods \in 0 .. MaxFloods
<1>1. CASE ~ due
  BY <1>1 DEF PeriodicFlood
<1>2. CASE due
  <2> DEFINE t == FloodLSP(n, s)
  <2>1. r = [t EXCEPT !.floods = t.floods + 1]
    BY <1>2 DEF PeriodicFlood
  <2> HIDE DEF t
  <2>2. Known(Hist(n, s), n, s, s.conn)
    BY DEF Sound, Known, ExplainedBut
  <2>3. Sound(n, t) /\ t.mesg = s.mesg /\ t.floods = s.floods
    BY <2>2, FloodLSPOK DEF Sound, t
  <2>4. t = [conn |-> t.conn, cost |-> t.cost, adj |-> t.adj, seq |-> t.seq, fwd |-> t.fwd,
             net |-> t.net, mesg |-> t.mesg, said |-> t.said, floods |-> t.floods]
    BY <2>3 DEF Sound, Known, Typed, IsState
  <2>5. r = [conn |-> t.conn, cost |-> t.cost, adj |-> t.adj, seq |-> t.seq, fwd |-> t.fwd,
             net |-> t.net, mesg |-> t.mesg, said |-> t.said, floods |-> t.floods + 1]
    BY <2>1, <2>4
  <2>6. /\ IsState(r) /\ r.conn = t.conn /\ r.cost = t.cost /\ r.adj = t.adj /\ r.seq = t.seq
        /\ r.fwd = t.fwd /\ r.net = t.net /\ r.mesg = t.mesg /\ r.said = t.said
        /\ r.floods = t.floods + 1
    BY <2>5 DEF IsState
  <2>7. r.mesg \in Messages
    BY <2>3, <2>6 DEF Sound, Known, Typed
  <2>8. Hist(n, r) = Hist(n, t) /\ Known(Hist(n, r), n, r, {})
    BY <2>3, <2>6, <2>7, SameKnowledge DEF Sound
  <2>9. Sound(n, r)
    BY <2>3, <2>6, <2>8, SameTable DEF Sound
  <2>10. r.floods \in 0 .. MaxFloods
    <3>1. s.floods < MaxFloods
      BY <1>2
    <3>2. r.floods = s.floods + 1 /\ MaxFloods \in Nat
      BY <2>3, <2>6, LsAssumption
    <3>3. QED
      BY <3>1, <3>2
  <2>11. QED
    BY <2>3, <2>6, <2>9, <2>10
<1>3. QED
  BY <1>1, <1>2

\* The matrix after silent neighbours are dropped.
Cut(n, adj, silent) ==
  [a \in Node |-> [b \in Node |->
    IF n \in {a, b} /\ silent \cap {a, b} # {} THEN Down ELSE adj[a][b]]]

\* What is flooded when neighbours are dropped.
LEMMA DroppedIs ==
  ASSUME said \in History, NEW n \in Node, NEW s, Sound(n, s),
         NEW silent \in SUBSET Neighbors(n), silent # {}
  PROVE  \E u, to :
           /\ DropSilent(n, s, silent) = Flood(n, u, [x \in silent |-> Down], to)
           /\ Extends(said, Hist(n, u)) /\ Known(Hist(n, u), n, u, silent) /\ GoodTable(n, u)
           /\ u.fwd = UpdateFwdTable(View(n, u))
           /\ u.conn = s.conn \ silent /\ u.cost = s.cost /\ u.adj = Cut(n, s.adj, silent)
           /\ u.seq = s.seq /\ u.net = s.net /\ u.mesg = s.mesg /\ u.said = s.said
           /\ u.floods = s.floods
           /\ \A x \in silent : u.adj[n][x] = Down
<1> DEFINE H == Hist(n, s)
           adj == Cut(n, s.adj, silent)
           t == [s EXCEPT !.conn = @ \ silent,
                          !.adj = [a \in Node |-> [b \in Node |->
                            IF n \in {a, b} /\ silent \cap {a, b} # {} THEN Down ELSE @[a][b]]]]
           u == WithTable(n, t)
           news == [x \in silent |-> Down]
           to == {p \in s.conn \X silent : p[1] \in silent => p[2] < p[1]}
<1>1. /\ Typed(n, s) /\ Numbered(H, s) /\ Matches(H, n, s) /\ ExplainedBut(H, n, s, {})
      /\ s.net \in Network(H) /\ Extends(said, H)
  BY DEF Sound, Known
<1>2. DropSilent(n, s, silent) = Flood(n, u, news, to)
  BY DEF DropSilent
<1>3. t = [[s EXCEPT !.conn = s.conn \ silent] EXCEPT !.adj = adj]
  BY <1>1 DEF Typed, IsState, Cut
<1> HIDE DEF t, u, adj, H, to
<1>4. t = [conn |-> s.conn \ silent, cost |-> s.cost, adj |-> adj, seq |-> s.seq,
           fwd |-> s.fwd, net |-> s.net, mesg |-> s.mesg, said |-> s.said, floods |-> s.floods]
  BY <1>1, <1>3 DEF Typed, IsState
<1>5. /\ IsState(t) /\ t.conn = s.conn \ silent /\ t.cost = s.cost /\ t.adj = adj
      /\ t.seq = s.seq /\ t.net = s.net /\ t.mesg = s.mesg /\ t.said = s.said
      /\ t.floods = s.floods
  BY <1>4 DEF IsState
<1>6. Hist(n, t) = H
  BY <1>5 DEF Hist, H
<1>7. silent \subseteq Node \ {n} /\ s.conn \subseteq Node \ {n}
      /\ s.adj \in [Node -> [Node -> Int]]
      /\ \A a, b \in Node : s.adj[a][a] = 0 /\ s.adj[a][b] = s.adj[b][a]
  BY <1>1, NeighborsAreOthers DEF Typed, Matrix
<1>8. /\ adj \in Matrix
      /\ \A x \in silent : adj[n][x] = Down
      /\ \A a, b \in Node : ~ (a = n /\ b \in silent) /\ ~ (b = n /\ a \in silent) =>
           adj[a][b] = s.adj[a][b]
  <2>1. \A a, b \in Node : adj[a][b] = IF n \in {a, b} /\ silent \cap {a, b} # {} THEN Down
                                       ELSE s.adj[a][b]
    BY DEF adj, Cut
  <2>2. \A a, b \in Node : n \in {a, b} /\ silent \cap {a, b} # {} <=>
          (a = n /\ b \in silent) \/ (b = n /\ a \in silent)
    BY <1>7
  <2>3. \A a, b \in Node : adj[a][b] = IF (a = n /\ b \in silent) \/ (b = n /\ a \in silent)
                                       THEN Down ELSE s.adj[a][b]
    BY <2>1, <2>2
  <2>4. adj = [a \in Node |-> [b \in Node |-> adj[a][b]]]
    BY DEF adj, Cut
  <2>5. \A a, b \in Node : adj[a][b] \in Int /\ adj[a][a] = 0 /\ adj[a][b] = adj[b][a]
    BY <1>7, <2>3 DEF Down
  <2>6. adj \in [Node -> [Node -> Int]]
    BY <2>4, <2>5
  <2>7. adj \in Matrix
    BY <2>5, <2>6 DEF Matrix
  <2>8. QED
    BY <1>7, <2>3, <2>7
<1>9. Typed(n, t)
  BY <1>1, <1>5, <1>8 DEF Typed
<1>10. Matches(H, n, t)
  <2>1. SUFFICES ASSUME NEW k \in t.conn
                 PROVE  \/ adj[n][k] = s.cost[k]
                        \/ adj[n][k] = Down /\ Down \in Heard(H, s.seq, k, n)
    BY <1>5 DEF Matches
  <2>2. k \in s.conn /\ k \notin silent /\ adj[n][k] = s.adj[n][k]
    BY <1>5, <1>7, <1>8
  <2>3. QED
    BY <1>1, <2>2 DEF Matches
<1>11. ExplainedBut(H, n, t, silent)
  BY <1>1, <1>5, <1>8 DEF ExplainedBut
<1>12. Known(H, n, t, silent)
  BY <1>1, <1>5, <1>9, <1>10, <1>11 DEF Known, Numbered
<1>13. /\ IsState(u) /\ GoodTable(n, u) /\ u.fwd = UpdateFwdTable(View(n, u))
       /\ u.conn = t.conn /\ u.cost = t.cost /\ u.adj = t.adj /\ u.seq = t.seq
       /\ u.net = t.net /\ u.mesg = t.mesg /\ u.said = t.said /\ u.floods = t.floods
  BY <1>9, WithTableOK DEF u
<1>14. u.mesg \in Messages
  BY <1>9, <1>13 DEF Typed
<1>15. Hist(n, u) = H /\ Known(H, n, u, silent)
  BY <1>6, <1>12, <1>13, <1>14, SameKnowledge
<1>16. news \in [silent -> SaidCost] /\ \A x \in silent : u.adj[n][x] = news[x]
  BY <1>5, <1>8, <1>13 DEF SaidCost
<1>17. /\ u.conn = s.conn \ silent /\ u.cost = s.cost /\ u.adj = Cut(n, s.adj, silent)
       /\ u.seq = s.seq /\ u.net = s.net /\ u.mesg = s.mesg /\ u.said = s.said
       /\ u.floods = s.floods
  BY <1>5, <1>13 DEF adj
<1>18. Extends(said, Hist(n, u)) /\ Known(Hist(n, u), n, u, silent)
  BY <1>1, <1>15
<1>19. \A x \in silent : u.adj[n][x] = Down
  BY <1>16
<1>20. QED
  BY <1>2, <1>13, <1>17, <1>18, <1>19

LEMMA DropSilentOK ==
  ASSUME said \in History, up \subseteq Link, NEW n \in Node, NEW s, Sound(n, s),
         NEW silent \in SUBSET Neighbors(n), NEW r, r = DropSilent(n, s, silent)
  PROVE  Sound(n, r) /\ r.mesg = s.mesg /\ r.floods = s.floods
<1>1. CASE silent = {}
  BY <1>1 DEF DropSilent
<1>2. CASE silent # {}
  <2> DEFINE news == [x \in silent |-> Down]
  <2>1. PICK u, to :
          /\ DropSilent(n, s, silent) = Flood(n, u, news, to)
          /\ Extends(said, Hist(n, u)) /\ Known(Hist(n, u), n, u, silent) /\ GoodTable(n, u)
          /\ u.mesg = s.mesg /\ u.floods = s.floods
          /\ \A x \in silent : u.adj[n][x] = Down
    BY <1>2, DroppedIs
  <2>2. news \in [silent -> SaidCost] /\ \A x \in silent : u.adj[n][x] = news[x]
    BY <2>1 DEF SaidCost
  <2> HIDE DEF news
  <2>3. \A x \in silent : u.adj[n][x] \in {news[x]} \cup Heard(Hist(n, u), u.seq, x, n)
    BY <2>2
  <2>4. /\ Extends(said, Hist(n, r)) /\ Known(Hist(n, r), n, r, {})
        /\ r.conn = u.conn /\ r.cost = u.cost /\ r.adj = u.adj /\ r.fwd = u.fwd
        /\ r.mesg = u.mesg /\ r.floods = u.floods
    BY <2>1, <2>2, <2>3, FloodOK
  <2>5. QED
    BY <2>1, <2>4, SameTable DEF Sound
<1>3. QED
  BY <1>1, <1>2

\* Up to the datagram itself, whatever the clock says.
LEMMA TurnOK ==
  ASSUME said \in History, up \subseteq Link, NEW n \in Node, NEW s, Sound(n, s),
         s.floods = floods, floods \in 0 .. MaxFloods, connections[n] \in SUBSET Neighbors(n),
         NEW from \in Neighbors(n) \cup {Manager}, NEW r \in Turn(n, s, from)
  PROVE  Sound(n, r) /\ r.mesg = s.mesg /\ r.floods \in 0 .. MaxFloods
<1>1. PICK silent \in Silence(n, from), due \in Due :
        r = PeriodicFlood(n, DropSilent(n, NoteSender(n, s, from), silent), due)
  BY DEF Turn
<1> DEFINE t == NoteSender(n, s, from)
           u == DropSilent(n, t, silent)
<1>2. silent \in SUBSET Neighbors(n)
  BY DEF Silence, Dead
<1>3. due => floods < MaxFloods
  BY DEF Due
<1>4. Sound(n, t) /\ t.mesg = s.mesg /\ t.floods = s.floods
  BY NoteSenderOK
<1> HIDE DEF t
<1>5. Sound(n, u) /\ u.mesg = t.mesg /\ u.floods = t.floods
  BY <1>2, <1>4, DropSilentOK
<1> HIDE DEF u
<1>6. r = PeriodicFlood(n, u, due)
  BY <1>1 DEF u, t
<1>7. Sound(n, r) /\ r.mesg = u.mesg /\ r.floods \in 0 .. MaxFloods
  BY <1>3, <1>4, <1>5, <1>6, PeriodicFloodOK
<1>8. QED
  BY <1>4, <1>5, <1>7

-----------------------------------------------------------------------------
(* What the datagrams do.                                                   *)

\* A link-state packet that is news does not come from the node itself.
LEMMA FreshIsNews ==
  ASSUME said \in History, NEW n \in Node, NEW s, Sound(n, s),
         NEW p \in Authentic(Hist(n, s)), Fresh(s, p)
  PROVE  /\ p \in LSP /\ p.node1 \in Node \ {n} /\ p.node2 \in Node /\ p.node1 # p.node2
         /\ p.cost \in SaidCost /\ p.seqNum \in Nat \ {0}
         /\ p.seqNum <= Len(Hist(n, s)[p.node1][p.node2])
         /\ p.cost = Hist(n, s)[p.node1][p.node2][p.seqNum]
         /\ [p EXCEPT !.ttl = @ - 1] \in Authentic(Hist(n, s))
<1> DEFINE H == Hist(n, s)
           said1 == H[p.node1][p.node2]
           q == [p EXCEPT !.ttl = @ - 1]
<1>1. Typed(n, s) /\ H \in History /\ H[n] = s.said
  BY HistType DEF Sound, Known
<1>2. /\ p \in LSP /\ p.node1 \in Node /\ p.node2 \in Node /\ p.node1 # p.node2
      /\ p.seqNum \in 1 .. Len(said1) /\ p.cost = said1[p.seqNum]
  BY DEF Authentic, LSP
<1>3. said1 \in Seq(SaidCost)
  BY <1>1, <1>2 DEF History
<1> HIDE DEF H
<1>4. p.node1 # n
  <2>1. SUFFICES ASSUME p.node1 = n PROVE FALSE
    OBVIOUS
  <2>2. s.seq[n][p.node2] = Len(s.said[p.node2]) /\ said1 = s.said[p.node2]
    BY <2>1, <1>1, <1>2 DEF Typed
  <2>3. p.seqNum > Len(said1)
    BY <2>1, <2>2 DEF Fresh
  <2> HIDE DEF said1
  <2>4. QED
    BY <2>3, <1>2, <1>3
<1>5. p.cost \in SaidCost /\ p.seqNum \in Nat \ {0} /\ p.seqNum <= Len(said1)
  <2> HIDE DEF said1
  <2>1. QED
    BY <1>2, <1>3
<1>6. q \in Authentic(H)
  <2>1. p.ttl \in 1 .. TTL /\ p.ttl - 1 > 0 /\ TTL \in Nat
    BY <1>2, LsAssumption DEF Fresh, LSP
  <2>2. p.ttl - 1 \in 1 .. TTL
    BY <2>1
  <2>3. p = [node1 |-> p.node1, node2 |-> p.node2, cost |-> p.cost, seqNum |-> p.seqNum,
             ttl |-> p.ttl]
    BY <1>2 DEF LSP
  <2>4. q = [node1 |-> p.node1, node2 |-> p.node2, cost |-> p.cost, seqNum |-> p.seqNum,
             ttl |-> p.ttl - 1]
    BY <2>3
  <2> HIDE DEF q, said1
  <2>5. /\ q.node1 = p.node1 /\ q.node2 = p.node2 /\ q.cost = p.cost /\ q.seqNum = p.seqNum
        /\ q \in LSP
    BY <1>2, <2>2, <2>4 DEF LSP
  <2>6. QED
    BY <1>2, <2>5 DEF Authentic, said1
<1>7. QED
  BY <1>2, <1>4, <1>5, <1>6 DEF H

Accepted(n, s, p, from, r) ==
  /\ r.conn = s.conn /\ r.cost = Adopted(n, s.cost, p)
  /\ r.adj = WithLink(s.adj, p.node1, p.node2, p.cost)
  /\ r.seq = [s.seq EXCEPT ![p.node1] = [s.seq[p.node1] EXCEPT ![p.node2] = p.seqNum]]
  /\ r.net = [h \in Hop |-> IF h[1] = n /\ h[2] \in s.conn \ {from} /\ h \in up
                            THEN Append(s.net[h], [p EXCEPT !.ttl = @ - 1]) ELSE s.net[h]]
  /\ r.mesg = s.mesg /\ r.said = s.said /\ r.fwd = UpdateFwdTable(View(n, r))

LEMMA AcceptOK ==
  ASSUME said \in History, up \subseteq Link, NEW n \in Node, NEW s, Sound(n, s),
         NEW p \in Authentic(Hist(n, s)), NEW from, NEW r, r = Accept(n, s, p, from)
  PROVE  Sound(n, r) /\ r.floods = s.floods /\ (Fresh(s, p) => Accepted(n, s, p, from, r))
<1>1. CASE ~ Fresh(s, p)
  BY <1>1 DEF Accept
<1>2. CASE Fresh(s, p)
  <2> DEFINE H == Hist(n, s)
             a == p.node1
             b == p.node2
             seq == [s.seq EXCEPT ![a] = [s.seq[a] EXCEPT ![b] = p.seqNum]]
             adj == WithLink(s.adj, a, b, p.cost)
             cost == Adopted(n, s.cost, p)
             onward == [p EXCEPT !.ttl = @ - 1]
             q == [h \in Hop |-> IF h[1] = n /\ h[2] \in s.conn \ {from} /\ h \in up
                                 THEN Append(s.net[h], onward) ELSE s.net[h]]
             t == [s EXCEPT
                     !.seq[p.node1][p.node2] = p.seqNum,
                     !.adj = WithLink(@, p.node1, p.node2, p.cost),
                     !.cost = Adopted(n, @, p),
                     !.net = [h \in Hop |-> IF h[1] = n /\ h[2] \in s.conn \ {from} /\ h \in up
                                            THEN Append(@[h], [p EXCEPT !.ttl = @ - 1]) ELSE @[h]]]
  <2>1. /\ Typed(n, s) /\ Numbered(H, s) /\ Matches(H, n, s) /\ ExplainedBut(H, n, s, {})
        /\ s.net \in Network(H) /\ Extends(said, H)
    BY DEF Sound, Known
  <2>2. /\ p \in LSP /\ a \in Node \ {n} /\ b \in Node /\ a # b
        /\ p.cost \in SaidCost /\ p.seqNum \in Nat \ {0}
        /\ p.seqNum <= Len(H[a][b]) /\ p.cost = H[a][b][p.seqNum]
        /\ onward \in Authentic(H)
    BY <1>2, FreshIsNews
  <2>3. r = WithTable(n, t)
    BY <1>2 DEF Accept
  <2>4. t = [[[[s EXCEPT !.seq = seq] EXCEPT !.adj = adj] EXCEPT !.cost = cost] EXCEPT !.net = q]
    BY <2>1 DEF Typed, IsState
  <2> HIDE DEF t, seq, adj, cost, q, H
  <2>5. t = [conn |-> s.conn, cost |-> cost, adj |-> adj, seq |-> seq, fwd |-> s.fwd,
             net |-> q, mesg |-> s.mesg, said |-> s.said, floods |-> s.floods]
    BY <2>1, <2>4 DEF Typed, IsState
  <2>6. /\ IsState(t) /\ t.conn = s.conn /\ t.cost = cost /\ t.adj = adj /\ t.seq = seq
        /\ t.net = q /\ t.mesg = s.mesg /\ t.said = s.said /\ t.floods = s.floods
    BY <2>5 DEF IsState
  <2>7. Hist(n, t) = H
    BY <2>6 DEF Hist, H
  <2>8. /\ s.conn \subseteq Node \ {n} /\ s.cost \in CostTable(n) /\ s.adj \in Matrix
        /\ s.seq \in [Node -> [Node -> Nat]] /\ p.cost \in Int
    <3>1. p.cost \in Int
      BY <2>2 DEF SaidCost, Down
    <3>2. QED
      BY <2>1, <3>1, NeighborsAreOthers DEF Typed
  <2>9. /\ adj \in Matrix /\ adj[a][b] = p.cost /\ adj[b][a] = p.cost
        /\ \A x, y \in Node : ~ (x = a /\ y = b) /\ ~ (x = b /\ y = a) => adj[x][y] = s.adj[x][y]
    <3>1. /\ WithLink(s.adj, a, b, p.cost) \in Matrix
          /\ WithLink(s.adj, a, b, p.cost)[a][b] = p.cost
          /\ WithLink(s.adj, a, b, p.cost)[b][a] = p.cost
          /\ \A x, y \in Node : ~ (x = a /\ y = b) /\ ~ (x = b /\ y = a) =>
               WithLink(s.adj, a, b, p.cost)[x][y] = s.adj[x][y]
      <4>1. a \in Node /\ b \in Node /\ a # b /\ p.cost \in Int /\ s.adj \in Matrix
        BY <2>2, <2>8
      <4> HIDE DEF a, b
      <4>2. QED
        BY <4>1, WithLinkIs
    <3>2. QED
      BY <3>1 DEF adj
  <2>10. /\ seq \in [Node -> [Node -> Nat]] /\ seq[a][b] = p.seqNum
         /\ \A x, y \in Node : ~ (x = a /\ y = b) => seq[x][y] = s.seq[x][y]
    BY <2>2, <2>8 DEF seq
  <2>11. /\ cost \in CostTable(n)
         /\ \A x \in Node \ {n} : cost[x] =
              IF b = n /\ x = a /\ p.cost > 0 THEN p.cost ELSE s.cost[x]
    <3>1. cost = IF b = n /\ p.cost > 0 THEN [s.cost EXCEPT ![a] = p.cost] ELSE s.cost
      BY <2>2 DEF cost, Adopted, WithCost
    <3>2. s.cost \in [Node -> Nat] /\ \A x \in Node \ {n} : s.cost[x] > 0
      BY <2>8 DEF CostTable
    <3>3. p.cost > 0 => p.cost \in Nat
      BY <2>8
    <3> HIDE DEF a, b
    <3>4. QED
      BY <2>2, <3>1, <3>2, <3>3 DEF CostTable
  <2> HIDE DEF a, b
  <2>12. Typed(n, t)
    BY <2>1, <2>2, <2>6, <2>9, <2>10, <2>11 DEF Typed
  <2>13. Numbered(H, t)
    BY <2>1, <2>2, <2>6, <2>10 DEF Numbered
  <2>14. /\ Heard(H, seq, a, b) = {p.cost}
         /\ \A x, y \in Node : ~ (x = a /\ y = b) => Heard(H, seq, x, y) = Heard(H, s.seq, x, y)
    BY <2>2, <2>10 DEF Heard
  <2>15. Matches(H, n, t)
    <3>1. SUFFICES ASSUME NEW k \in s.conn
                   PROVE  \/ adj[n][k] = cost[k]
                          \/ adj[n][k] = Down /\ Down \in Heard(H, seq, k, n)
      BY <2>6 DEF Matches
    <3>2. k \in Node \ {n}
      BY <2>8
    <3>3. CASE k = a /\ b = n
      <4>1. adj[n][k] = p.cost /\ Heard(H, seq, k, n) = {p.cost}
        BY <2>9, <2>14, <3>3
      <4>2. p.cost > 0 \/ p.cost = Down
        BY <2>2 DEF SaidCost
      <4>3. p.cost > 0 => cost[k] = p.cost
        BY <2>11, <3>2, <3>3
      <4>4. QED
        BY <4>1, <4>2, <4>3
    <3>4. CASE ~ (k = a /\ b = n)
      <4>1. adj[n][k] = s.adj[n][k] /\ cost[k] = s.cost[k] /\ Heard(H, seq, k, n) = Heard(H, s.seq, k, n)
        BY <2>2, <2>9, <2>11, <2>14, <3>2, <3>4
      <4>2. QED
        BY <2>1, <4>1 DEF Matches
    <3>5. QED
      BY <3>3, <3>4
  <2>16. ExplainedBut(H, n, t, {})
    <3>1. SUFFICES ASSUME NEW x \in Node, NEW y \in Node, x # y
                   PROVE Explains(H, seq, x, y, adj[x][y])
      BY <2>6 DEF ExplainedBut
    <3>2. CASE (x = a /\ y = b) \/ (x = b /\ y = a)
      BY <2>9, <2>14, <3>2 DEF Explains
    <3>3. CASE ~ (x = a /\ y = b) /\ ~ (x = b /\ y = a)
      <4>1. /\ Heard(H, seq, x, y) = Heard(H, s.seq, x, y)
            /\ Heard(H, seq, y, x) = Heard(H, s.seq, y, x) /\ adj[x][y] = s.adj[x][y]
        BY <2>9, <2>14, <3>3
      <4>2. Explains(H, s.seq, x, y, s.adj[x][y])
        BY <2>1, <3>1 DEF ExplainedBut
      <4>3. QED
        BY <4>1, <4>2 DEF Explains
    <3>4. QED
      BY <3>2, <3>3
  <2>17. q \in Network(H)
    <3> HIDE DEF onward
    <3>1. ASSUME NEW h \in Hop
          PROVE  q[h] \in Seq(Authentic(H)) /\ (q[h] # <<>> => h \in Link)
      <4>1. s.net[h] \in Seq(Authentic(H)) /\ (s.net[h] # <<>> => h \in Link)
        BY <2>1 DEF Network
      <4>2. Append(s.net[h], onward) \in Seq(Authentic(H))
        BY <2>2, <4>1, AppendProperties
      <4>3. q[h] = IF h[1] = n /\ h[2] \in s.conn \ {from} /\ h \in up
                   THEN Append(s.net[h], onward) ELSE s.net[h]
        BY DEF q
      <4>4. QED
        BY <4>1, <4>2, <4>3
    <3>2. ASSUME NEW h \in Hop PROVE q[h] \in Seq(LSP)
      <4>1. Authentic(H) \subseteq LSP
        BY DEF Authentic
      <4>2. QED
        BY <4>1, <3>1, SeqMonotonic
    <3>3. q = [h \in Hop |-> q[h]]
      BY DEF q
    <3>4. QED
      BY <3>1, <3>2, <3>3 DEF Network
  <2>18. Known(H, n, t, {})
    BY <2>6, <2>12, <2>13, <2>15, <2>16, <2>17 DEF Known
  <2>19. /\ IsState(r) /\ GoodTable(n, r) /\ r.fwd = UpdateFwdTable(View(n, r))
         /\ r.conn = t.conn /\ r.cost = t.cost /\ r.adj = t.adj /\ r.seq = t.seq
         /\ r.net = t.net /\ r.mesg = t.mesg /\ r.said = t.said /\ r.floods = t.floods
    BY <2>3, <2>12, WithTableOK
  <2>20. t.mesg \in Messages
    BY <2>12 DEF Typed
  <2>21. Hist(n, r) = H /\ Known(H, n, r, {})
    BY <2>7, <2>18, <2>19, <2>20, SameKnowledge
  <2>22. Sound(n, r)
    BY <2>1, <2>6, <2>19, <2>21 DEF Sound
  <2>23. QED
    BY <1>2, <2>6, <2>19, <2>22 DEF Accepted, seq, adj, cost, q, onward, a, b
<1>3. QED
  BY <1>1, <1>2

\* The cost of a link that is not live is only noted.
LEMMA CostNoted ==
  ASSUME NEW n, NEW s, IsState(s), NEW m, m \notin s.conn, NEW c, NEW r, r = SetCost(n, s, m, c)
  PROVE  /\ r.conn = s.conn /\ r.cost = [s.cost EXCEPT ![m] = c] /\ r.adj = s.adj
         /\ r.seq = s.seq /\ r.fwd = s.fwd /\ r.net = s.net /\ r.mesg = s.mesg
         /\ r.said = s.said /\ r.floods = s.floods /\ IsState(r)
<1> DEFINE cost == [s.cost EXCEPT ![m] = c]
<1>1. r = [s EXCEPT !.cost = cost]
  BY DEF SetCost, WithCost
<1> HIDE DEF cost
<1>2. r = [conn |-> s.conn, cost |-> cost, adj |-> s.adj, seq |-> s.seq, fwd |-> s.fwd,
           net |-> s.net, mesg |-> s.mesg, said |-> s.said, floods |-> s.floods]
  BY <1>1 DEF IsState
<1>3. QED
  BY <1>2 DEF IsState, cost

\* What is flooded when the cost of a live link is set.
EntersCost(n, s, m, c, u) ==
  /\ SetCost(n, s, m, c) = WithTable(n, Flood(n, u, [x \in {m} |-> c], s.conn \X {m}))
  /\ Extends(said, Hist(n, u)) /\ Known(Hist(n, u), n, u, {m}) /\ u.adj[n][m] = c
  /\ u.conn = s.conn /\ u.seq = s.seq /\ u.net = s.net /\ u.mesg = s.mesg
  /\ u.said = s.said /\ u.floods = s.floods

LEMMA NewCostIs ==
  ASSUME said \in History, NEW n \in Node, NEW s, Sound(n, s), NEW m \in Node \ {n},
         m \in s.conn, NEW c \in Nat \ {0}
  PROVE  \E u : EntersCost(n, s, m, c, u)
<1> DEFINE cost == [s.cost EXCEPT ![m] = c]
           link == WithLink(s.adj, n, m, c)
           t == [s EXCEPT !.cost = WithCost(@, m, c)]
           u == [t EXCEPT !.adj = WithLink(@, n, m, c)]
           news == [x \in {m} |-> c]
<1>1. /\ Typed(n, s) /\ Extends(said, Hist(n, s)) /\ IsState(s)
      /\ m \in Neighbors(n) /\ m \in Node /\ m # n /\ s.adj \in Matrix /\ c \in Int
  BY NeighborsAreOthers DEF Sound, Known, Typed
<1>2. SetCost(n, s, m, c) = WithTable(n, Flood(n, u, news, s.conn \X {m}))
  BY DEF SetCost
<1>3. t = [s EXCEPT !.cost = cost]
  BY DEF WithCost
<1> HIDE DEF t, cost
<1>4. t = [conn |-> s.conn, cost |-> cost, adj |-> s.adj, seq |-> s.seq, fwd |-> s.fwd,
           net |-> s.net, mesg |-> s.mesg, said |-> s.said, floods |-> s.floods]
  BY <1>1, <1>3 DEF IsState
<1>5. u = [t EXCEPT !.adj = link]
  BY <1>4
<1> HIDE DEF u, link
<1>6. u = [conn |-> s.conn, cost |-> cost, adj |-> link, seq |-> s.seq, fwd |-> s.fwd,
           net |-> s.net, mesg |-> s.mesg, said |-> s.said, floods |-> s.floods]
  BY <1>4, <1>5
<1>7. /\ IsState(u) /\ u.conn = s.conn /\ u.cost = cost /\ u.adj = link /\ u.seq = s.seq
      /\ u.net = s.net /\ u.mesg = s.mesg /\ u.said = s.said /\ u.floods = s.floods
  BY <1>6 DEF IsState
<1>8. u.conn = s.conn \cup {m}
  BY <1>7
<1>9. Hist(n, u) = Hist(n, s) /\ Known(Hist(n, u), n, u, {m})
  BY <1>1, <1>7, <1>8, LinkEntered DEF link, cost
<1>10. u.adj[n][m] = c
  BY <1>1, <1>7, WithLinkIs DEF link
<1> HIDE DEF news
<1>11. Extends(said, Hist(n, u))
  BY <1>1, <1>9
<1>12. EntersCost(n, s, m, c, u)
  BY <1>2, <1>7, <1>9, <1>10, <1>11 DEF EntersCost, news
<1>13. QED
  BY <1>12

LEMMA SetCostOK ==
  ASSUME said \in History, up \subseteq Link, NEW n \in Node, NEW s, Sound(n, s),
         NEW m \in Node \ {n}, NEW c \in Nat \ {0}, NEW r, r = SetCost(n, s, m, c)
  PROVE  Sound(n, r) /\ r.floods = s.floods
<1>1. /\ Typed(n, s) /\ Known(Hist(n, s), n, s, {}) /\ Extends(said, Hist(n, s)) /\ GoodTable(n, s)
      /\ IsState(s)
  BY DEF Sound, Known, Typed
<1>2. CASE m \notin s.conn
  <2>1. /\ r.conn = s.conn /\ r.cost = [s.cost EXCEPT ![m] = c] /\ r.adj = s.adj
        /\ r.seq = s.seq /\ r.fwd = s.fwd /\ r.net = s.net /\ r.mesg = s.mesg
        /\ r.said = s.said /\ r.floods = s.floods /\ IsState(r)
    BY <1>1, <1>2, CostNoted
  <2>2. s.cost \in CostTable(n) /\ s.conn \subseteq Node \ {n}
    BY <1>1, NeighborsAreOthers DEF Typed
  <2>3. r.cost \in CostTable(n) /\ \A x \in Node : x # m => r.cost[x] = s.cost[x]
    <3>1. s.cost \in [Node -> Nat] /\ \A x \in Node \ {n} : s.cost[x] > 0
      BY <2>2 DEF CostTable
    <3>2. /\ r.cost \in [Node -> Nat] /\ r.cost[m] = c
          /\ \A x \in Node : x # m => r.cost[x] = s.cost[x]
      BY <2>1, <3>1
    <3>3. \A x \in Node \ {n} : r.cost[x] > 0
      BY <3>1, <3>2
    <3>4. QED
      BY <3>2, <3>3 DEF CostTable
  <2>4. Hist(n, r) = Hist(n, s)
    BY <2>1 DEF Hist
  <2>5. Typed(n, r)
    BY <1>1, <2>1, <2>3 DEF Typed
  <2>6. \A x \in s.conn : r.cost[x] = s.cost[x]
    BY <1>2, <2>2, <2>3
  <2>7. Known(Hist(n, s), n, r, {})
    BY <1>1, <2>1, <2>5, <2>6 DEF Known, Numbered, Matches, ExplainedBut
  <2>8. GoodTable(n, r)
    <3> DEFINE v == View(n, s)
               w == View(n, r)
    <3>1. /\ v.self = n /\ v.conn = s.conn /\ v.cost = s.cost /\ v.adj = s.adj
          /\ w.self = n /\ w.conn = s.conn /\ w.cost = r.cost /\ w.adj = s.adj
      BY <2>1 DEF View
    <3> HIDE DEF v, w
    <3>2. \A x, y : Weight(w, x, y) = Weight(v, x, y)
      BY <3>1, <2>6 DEF Weight
    <3>3. Nodes(w) = Nodes(v) /\ \A table, d : Before(w, table, d) = Before(v, table, d)
      BY <3>1, <3>2 DEF Before, Nodes
    <3>4. \A table : IsShortest(v, table) => IsShortest(w, table)
      BY <3>1, <3>2, <3>3 DEF IsShortest
    <3>5. OwnLinksAgree(w) => OwnLinksAgree(v)
      BY <3>1, <3>3, <2>6 DEF OwnLinksAgree
    <3>6. \A table : TiesBroken(v, table) => TiesBroken(w, table)
      BY <3>1, <3>3 DEF TiesBroken
    <3>7. QED
      BY <1>1, <2>1, <3>4, <3>5, <3>6 DEF GoodTable, v, w
  <2>9. QED
    BY <1>1, <2>1, <2>4, <2>7, <2>8 DEF Sound
<1>3. CASE m \in s.conn
  <2> DEFINE news == [x \in {m} |-> c]
             to == s.conn \X {m}
  <2>1. PICK u : EntersCost(n, s, m, c, u)
    BY <1>3, NewCostIs
  <2> DEFINE f == Flood(n, u, news, to)
  <2>2. news \in [{m} -> SaidCost] /\ news[m] = c /\ {m} \in SUBSET Neighbors(n)
    BY <1>1, <1>3 DEF SaidCost, Typed
  <2> HIDE DEF news, to, f
  <2>3. \A x \in {m} : u.adj[n][x] \in {news[x]} \cup Heard(Hist(n, u), u.seq, x, n)
    BY <2>1, <2>2 DEF EntersCost
  <2>4. /\ Extends(said, Hist(n, f)) /\ Known(Hist(n, f), n, f, {}) /\ f.floods = u.floods
    BY <2>1, <2>2, <2>3, FloodOK DEF EntersCost, f
  <2>5. Typed(n, f) /\ f.mesg \in Messages /\ r = WithTable(n, f)
    <3>1. r = WithTable(n, f)
      BY <2>1 DEF EntersCost, f, news, to
    <3>2. QED
      BY <2>4, <3>1 DEF Known, Typed
  <2>6. /\ IsState(r) /\ GoodTable(n, r)
        /\ r.conn = f.conn /\ r.cost = f.cost /\ r.adj = f.adj /\ r.seq = f.seq
        /\ r.net = f.net /\ r.mesg = f.mesg /\ r.said = f.said /\ r.floods = f.floods
    BY <2>5, WithTableOK
  <2>7. Hist(n, r) = Hist(n, f) /\ Known(Hist(n, f), n, r, {})
    BY <2>4, <2>5, <2>6, SameKnowledge
  <2>8. QED
    BY <2>1, <2>4, <2>6, <2>7 DEF EntersCost, Sound
<1>4. QED
  BY <1>2, <1>3

\* Messages only change what is under way.
LEMMA OtherTraffic ==
  ASSUME NEW n \in Node, NEW s, Sound(n, s), NEW q \in Network(Hist(n, s)), NEW ms \in Messages,
         NEW r, r = [conn |-> s.conn, cost |-> s.cost, adj |-> s.adj, seq |-> s.seq,
                     fwd |-> s.fwd, net |-> q, mesg |-> ms, said |-> s.said, floods |-> s.floods]
  PROVE  Sound(n, r) /\ r.floods = s.floods /\ r.mesg = ms
<1>1. /\ Typed(n, s) /\ Known(Hist(n, s), n, s, {}) /\ Extends(said, Hist(n, s)) /\ GoodTable(n, s)
  BY DEF Sound, Known
<1>2. /\ IsState(r) /\ r.conn = s.conn /\ r.cost = s.cost /\ r.adj = s.adj /\ r.seq = s.seq
      /\ r.fwd = s.fwd /\ r.net = q /\ r.mesg = ms /\ r.said = s.said /\ r.floods = s.floods
  BY DEF IsState
<1>3. Hist(n, r) = Hist(n, s)
  BY <1>2 DEF Hist
<1>4. Typed(n, r)
  BY <1>1, <1>2 DEF Typed
<1>5. Known(Hist(n, s), n, r, {})
  BY <1>1, <1>2, <1>4 DEF Known, Numbered, Matches, ExplainedBut
<1>6. QED
  BY <1>1, <1>2, <1>3, <1>5, SameTable DEF Sound

LEMMA ForwardOK ==
  ASSUME up \subseteq Link, NEW n \in Node, NEW s, Sound(n, s), NEW d \in Node,
         NEW r, r = Forward(n, s, d)
  PROVE  Sound(n, r) /\ r.floods = s.floods
<1> DEFINE p == [from |-> n, to |-> s.fwd[d].nexthop, dest |-> d]
<1>1. CASE d # n /\ d \in DOMAIN s.fwd /\ <<n, s.fwd[d].nexthop>> \in up
  <2>1. s.fwd[d].nexthop \in Node /\ <<n, s.fwd[d].nexthop>> \in Link
    BY <1>1, MonitorAssumption
  <2>2. p \in Mesg /\ <<p.from, p.to>> \in Link
    BY <2>1 DEF Mesg
  <2>3. s.net \in Network(Hist(n, s)) /\ s.mesg \in Messages /\ IsState(s)
    BY DEF Sound, Known, Typed
  <2>4. r = [s EXCEPT !.mesg = s.mesg \cup {p}]
    BY <1>1 DEF Forward
  <2> HIDE DEF p
  <2>5. s.mesg \cup {p} \in Messages
    BY <2>2, <2>3 DEF Messages
  <2>6. r = [conn |-> s.conn, cost |-> s.cost, adj |-> s.adj, seq |-> s.seq, fwd |-> s.fwd,
             net |-> s.net, mesg |-> s.mesg \cup {p}, said |-> s.said, floods |-> s.floods]
    BY <2>3, <2>4 DEF IsState
  <2>7. QED
    BY <2>3, <2>5, <2>6, OtherTraffic
<1>2. CASE ~ (d # n /\ d \in DOMAIN s.fwd /\ <<n, s.fwd[d].nexthop>> \in up)
  BY <1>2 DEF Forward
<1>3. QED
  BY <1>1, <1>2

-----------------------------------------------------------------------------
(* A turn keeps all nodes sound: those not on turn see the history grow and *)
(* the traffic change.                                                      *)

LEMMA Onlooker ==
  ASSUME NEW H \in History, NEW G \in History, Extends(H, G), NEW k \in Node,
         NEW s, Known(H, k, s, {}), GoodTable(k, s), NEW q \in Network(G), NEW ms \in Messages,
         NEW f, NEW r,
         r = [conn |-> s.conn, cost |-> s.cost, adj |-> s.adj, seq |-> s.seq,
              fwd |-> s.fwd, net |-> q, mesg |-> ms, said |-> s.said, floods |-> f]
  PROVE  Known(G, k, r, {}) /\ GoodTable(k, r)
<1>1. /\ Typed(k, s) /\ Numbered(H, s) /\ Matches(H, k, s) /\ ExplainedBut(H, k, s, {})
  BY DEF Known
<1>2. /\ IsState(r) /\ r.conn = s.conn /\ r.cost = s.cost /\ r.adj = s.adj /\ r.seq = s.seq
      /\ r.fwd = s.fwd /\ r.net = q /\ r.mesg = ms /\ r.said = s.said
  BY DEF IsState
<1>3. Typed(k, r)
  BY <1>1, <1>2 DEF Typed
<1>4. s.seq \in [Node -> [Node -> Nat]] /\ s.conn \subseteq Node \ {k}
  BY <1>1, NeighborsAreOthers DEF Typed
<1>5. ASSUME NEW a \in Node, NEW b \in Node, a # b
      PROVE  Heard(G, s.seq, a, b) = Heard(H, s.seq, a, b)
  <2>1. s.seq[a][b] <= Len(H[a][b])
    BY <1>1, <1>5 DEF Numbered
  <2> DEFINE seq == s.seq
  <2>2. seq \in [Node -> [Node -> Nat]] /\ seq[a][b] <= Len(H[a][b])
    BY <1>4, <2>1
  <2> HIDE DEF seq
  <2>3. Heard(G, seq, a, b) = Heard(H, seq, a, b)
    BY <2>2, HeardKept
  <2>4. QED
    BY <2>3 DEF seq
<1>6. Numbered(G, r)
  <2>1. SUFFICES ASSUME NEW a \in Node, NEW b \in Node, a # b PROVE s.seq[a][b] <= Len(G[a][b])
    BY <1>2 DEF Numbered
  <2>2. s.seq[a][b] <= Len(H[a][b]) /\ Len(H[a][b]) <= Len(G[a][b])
    BY <1>1, <2>1 DEF Numbered, Extends
  <2>3. H[a][b] \in Seq(SaidCost) /\ G[a][b] \in Seq(SaidCost)
    BY DEF History
  <2>4. Len(H[a][b]) \in Nat /\ Len(G[a][b]) \in Nat
    BY <2>3
  <2>5. s.seq[a][b] \in Nat
    BY <1>4
  <2>6. QED
    BY <2>2, <2>4, <2>5
<1>7. Matches(G, k, r)
  BY <1>1, <1>2, <1>4, <1>5 DEF Matches
<1>8. ExplainedBut(G, k, r, {})
  BY <1>1, <1>2, <1>5 DEF ExplainedBut, Explains
<1>9. QED
  BY <1>2, <1>3, <1>6, <1>7, <1>8, SameTable DEF Known

LEMMA HistIsSaid ==
  ASSUME said \in History, NEW n \in Node
  PROVE  /\ Hist(n, State(n)) = said /\ Extends(said, said)
         /\ State(n).said = said[n] /\ State(n).net = net /\ State(n).mesg = mesg
         /\ State(n).floods = floods /\ State(n).conn = connections[n]
<1>1. \A a, b \in Node : Len(said[a][b]) \in Nat
  BY DEF History
<1>2. Extends(said, said)
  BY <1>1 DEF Extends
<1>3. State(n).said = said[n]
  BY DEF State
<1>4. [said EXCEPT ![n] = said[n]] = said
  BY DEF History
<1>5. QED
  BY <1>2, <1>3, <1>4 DEF Hist, State

LEMMA BecomeOK ==
  ASSUME RouterInv, NEW n \in Node, NEW s, Sound(n, s), s.floods \in 0 .. MaxFloods,
         Become(n, s)
  PROVE  /\ said' \in History /\ \A k \in Node : Sound(k, State(k))'
         /\ connections' \in [Node -> SUBSET Node] /\ costs' \in [Node -> [Node -> Nat]]
         /\ adjMatrix' \in [Node -> [Node -> [Node -> Int]]]
         /\ seqNumMatrix' \in [Node -> [Node -> [Node -> Nat]]]
         /\ DOMAIN confirmedMap' = Node
         /\ \A k \in Node : \E D \in SUBSET Node : confirmedMap'[k] \in [D -> Route]
         /\ net' \in [Hop -> Seq(LSP)] /\ mesg' \subseteq Mesg
         /\ floods' \in 0 .. MaxFloods
<1> DEFINE G == Hist(n, s)
<1>1. Known(G, n, s, {}) /\ GoodTable(n, s) /\ Typed(n, s) /\ said \in History /\ LsTypeOK
      /\ s.net \in Network(G) /\ Extends(said, G)
  BY DEF RouterInv, Sound, Known
<1>2. G \in History
  BY <1>1, HistType
<1>3. /\ s.conn \subseteq Node /\ s.cost \in [Node -> Nat] /\ s.adj \in [Node -> [Node -> Int]]
      /\ s.seq \in [Node -> [Node -> Nat]] /\ s.mesg \in Messages
      /\ \E D \in SUBSET Node : s.fwd \in [D -> Route]
  BY <1>1, NeighborsAreOthers DEF Typed, CostTable, Matrix, GoodTable
<1>4. said' = G
  BY DEF Become, Hist
<1>5. /\ connections' = [connections EXCEPT ![n] = s.conn] /\ costs' = [costs EXCEPT ![n] = s.cost]
      /\ adjMatrix' = [adjMatrix EXCEPT ![n] = s.adj]
      /\ seqNumMatrix' = [seqNumMatrix EXCEPT ![n] = s.seq]
      /\ confirmedMap' = [confirmedMap EXCEPT ![n] = s.fwd]
      /\ net' = s.net /\ mesg' = s.mesg /\ floods' = s.floods
      /\ said' = [said EXCEPT ![n] = s.said]
  BY DEF Become
<1>6. /\ connections \in [Node -> SUBSET Node] /\ costs \in [Node -> [Node -> Nat]]
      /\ adjMatrix \in [Node -> [Node -> [Node -> Int]]]
      /\ seqNumMatrix \in [Node -> [Node -> [Node -> Nat]]]
      /\ \A k \in Node : \E D \in SUBSET Node : confirmedMap[k] \in [D -> Route]
  BY <1>1 DEF LsTypeOK, MonitorTypeOK
<1>7. /\ connections' \in [Node -> SUBSET Node] /\ costs' \in [Node -> [Node -> Nat]]
  BY <1>3, <1>5, <1>6
<1>8. /\ adjMatrix' \in [Node -> [Node -> [Node -> Int]]]
      /\ seqNumMatrix' \in [Node -> [Node -> [Node -> Nat]]]
  BY <1>3, <1>5, <1>6
<1>9. DOMAIN confirmedMap = Node
  BY <1>1 DEF LsTypeOK
<1>10. /\ DOMAIN confirmedMap' = Node
       /\ \A k \in Node : \E D \in SUBSET Node : confirmedMap'[k] \in [D -> Route]
  BY <1>3, <1>5, <1>6, <1>9
<1>11. net' \in [Hop -> Seq(LSP)] /\ mesg' \subseteq Mesg /\ floods' \in 0 .. MaxFloods
  BY <1>1, <1>3, <1>5 DEF Network, Messages
<1> HIDE DEF G
<1>12. ASSUME NEW k \in Node PROVE Known(G, k, State(k)', {}) /\ GoodTable(k, State(k)')
  <2>1. CASE k = n
    <3>1. State(n)' = [conn |-> s.conn, cost |-> s.cost, adj |-> s.adj, seq |-> s.seq,
                       fwd |-> s.fwd, net |-> s.net, mesg |-> s.mesg, said |-> s.said,
                       floods |-> s.floods]
      BY <1>1, <1>5, <1>6, <1>9 DEF State, History
    <3>2. State(n)' = s
      BY <1>1, <3>1 DEF Typed, IsState
    <3>3. QED
      BY <1>1, <2>1, <3>2
  <2>2. CASE k # n
    <3> DEFINE t == State(k)
    <3>1. State(k)' = [conn |-> connections[k], cost |-> costs[k], adj |-> adjMatrix[k],
                       seq |-> seqNumMatrix[k], fwd |-> confirmedMap[k], net |-> s.net,
                       mesg |-> s.mesg, said |-> said[k], floods |-> s.floods]
      BY <1>1, <1>5, <1>6, <1>9, <2>2 DEF State, History
    <3>2. t.conn = connections[k] /\ t.cost = costs[k] /\ t.adj = adjMatrix[k]
          /\ t.seq = seqNumMatrix[k] /\ t.fwd = confirmedMap[k] /\ t.said = said[k]
      BY DEF State
    <3>3. Hist(k, t) = said
      BY <1>1, HistIsSaid
    <3>4. Sound(k, t)
      BY DEF RouterInv
    <3> HIDE DEF t
    <3>5. Known(said, k, t, {}) /\ GoodTable(k, t)
      BY <3>3, <3>4 DEF Sound
    <3>6. State(k)' = [conn |-> t.conn, cost |-> t.cost, adj |-> t.adj, seq |-> t.seq,
                       fwd |-> t.fwd, net |-> s.net, mesg |-> s.mesg, said |-> t.said,
                       floods |-> s.floods]
      BY <3>1, <3>2
    <3>7. QED
      BY <1>1, <1>2, <1>3, <3>5, <3>6, Onlooker
  <2>3. QED
    BY <2>1, <2>2
<1>13. ASSUME NEW k \in Node PROVE Sound(k, State(k))'
  <2>1. State(k)'.said = said'[k]
    BY DEF State
  <2>2. Hist(k, State(k))' = said'
    BY <1>2, <1>4, <2>1 DEF Hist, History
  <2>3. Extends(said', said')
    <3>1. \A a, b \in Node : Len(said'[a][b]) \in Nat
      BY <1>2, <1>4 DEF History
    <3>2. QED
      BY <3>1 DEF Extends
  <2>4. Known(said', k, State(k)', {}) /\ GoodTable(k, State(k)')
    BY <1>4, <1>12
  <2>5. QED
    BY <2>2, <2>3, <2>4 DEF Sound
<1>14. QED
  BY <1>2, <1>4, <1>7, <1>8, <1>10, <1>11, <1>13

LEMMA TurnInv ==
  ASSUME RouterInv, NEW n \in Node, NEW s, Sound(n, s), s.floods \in 0 .. MaxFloods,
         Become(n, s), up' = up, changes' \in 0 .. MaxChanges, losses' = losses,
         sends' \in 0 .. MaxSends
  PROVE  RouterInv'
<1>1. LsTypeOK'
  <2>1. said' \in [Node -> [Node -> Seq(Int)]]
    <3>1. said' \in History
      BY BecomeOK
    <3>2. SaidCost \subseteq Int
      BY DEF SaidCost, Down
    <3>3. Seq(SaidCost) \subseteq Seq(Int)
      BY <3>2, SeqMonotonic
    <3>4. QED
      BY <3>1, <3>3 DEF History
  <2>2. QED
    BY <2>1, BecomeOK DEF RouterInv, LsTypeOK, MonitorTypeOK
<1>2. said' \in History /\ \A k \in Node : Sound(k, State(k))'
  BY BecomeOK
<1>3. QED
  BY <1>1, <1>2 DEF RouterInv

-----------------------------------------------------------------------------
(* The actions.                                                             *)

LEMMA TurnStart ==
  ASSUME RouterInv, NEW n \in Node
  PROVE  /\ said \in History /\ up \subseteq Link /\ Sound(n, State(n))
         /\ State(n).floods = floods /\ floods \in 0 .. MaxFloods
         /\ connections[n] \in SUBSET Neighbors(n)
         /\ net \in Network(said) /\ mesg \in Messages
<1>1. said \in History /\ LsTypeOK /\ Sound(n, State(n))
  BY DEF RouterInv
<1>2. /\ Hist(n, State(n)) = said /\ State(n).net = net /\ State(n).mesg = mesg
      /\ State(n).floods = floods /\ State(n).conn = connections[n]
  BY <1>1, HistIsSaid
<1>3. /\ State(n).conn \in SUBSET Neighbors(n) /\ State(n).mesg \in Messages
      /\ State(n).net \in Network(Hist(n, State(n)))
  BY <1>1 DEF Sound, Known, Typed
<1>4. QED
  BY <1>1, <1>2, <1>3 DEF LsTypeOK, MonitorTypeOK

LEMMA HearInv ==
  ASSUME RouterInv, NEW n \in Node, NEW m \in Node, Hear(n, m)
  PROVE  RouterInv'
<1>1. up \subseteq Link /\ m \in Announcing(n)
  BY TurnStart DEF Hear
<1>2. m \in Neighbors(n)
  BY <1>1, NeighborsAreOthers DEF Announcing, Neighbors
<1>3. PICK s \in Turn(n, State(n), m) : Become(n, s)
  BY DEF Hear
<1>4. Sound(n, s) /\ s.floods \in 0 .. MaxFloods
  BY <1>2, TurnStart, TurnOK
<1>5. up' = up /\ changes' \in 0 .. MaxChanges /\ losses' = losses /\ sends' \in 0 .. MaxSends
  BY DEF Hear, RouterInv, LsTypeOK, MonitorTypeOK
<1>6. QED
  BY <1>3, <1>4, <1>5, TurnInv

\* The state that ReceiveLSP starts its turn in: one packet fewer under way.
Taken(n, m) == [State(n) EXCEPT !.net[<<m, n>>] = Tail(@)]

LEMMA TakenIs ==
  ASSUME RouterInv, NEW n \in Node, NEW m \in Node, net[<<m, n>>] # <<>>
  PROVE  /\ Taken(n, m) =
              [conn |-> State(n).conn, cost |-> State(n).cost, adj |-> State(n).adj,
               seq |-> State(n).seq, fwd |-> State(n).fwd,
               net |-> [net EXCEPT ![<<m, n>>] = Tail(@)], mesg |-> mesg,
               said |-> State(n).said, floods |-> State(n).floods]
         /\ Sound(n, Taken(n, m)) /\ Taken(n, m).floods = floods
         /\ m \in Neighbors(n)
         /\ \A t \in Turn(n, Taken(n, m), m) :
              /\ Sound(n, t) /\ t.floods \in 0 .. MaxFloods
              /\ Head(net[<<m, n>>]) \in Authentic(Hist(n, t))
<1> DEFINE h == <<m, n>>
           p == Head(net[h])
           q == [net EXCEPT ![h] = Tail(@)]
           taken == Taken(n, m)
<1>1. /\ said \in History /\ up \subseteq Link /\ Sound(n, State(n)) /\ net \in Network(said)
      /\ State(n).floods = floods /\ floods \in 0 .. MaxFloods /\ mesg \in Messages
      /\ connections[n] \in SUBSET Neighbors(n)
  BY TurnStart
<1>2. Hist(n, State(n)) = said
  BY <1>1, HistIsSaid
<1>3. h \in Hop /\ net[h] # <<>> /\ net[h] \in Seq(Authentic(said)) /\ h \in Link
  BY <1>1 DEF Network, Hop
<1>4. p \in Authentic(said) /\ Tail(net[h]) \in Seq(Authentic(said)) /\ Tail(net[h]) \in Seq(LSP)
  <2>1. p \in Authentic(said) /\ Tail(net[h]) \in Seq(Authentic(said))
    BY <1>3, HeadTailProperties
  <2>2. Authentic(said) \subseteq LSP
    BY DEF Authentic
  <2>3. QED
    BY <2>1, <2>2, SeqMonotonic
<1>5. m \in Neighbors(n)
  BY <1>3, NeighborsAreOthers DEF Neighbors
<1>6. taken = [conn |-> State(n).conn, cost |-> State(n).cost, adj |-> State(n).adj,
               seq |-> State(n).seq, fwd |-> State(n).fwd, net |-> q, mesg |-> mesg,
               said |-> State(n).said, floods |-> State(n).floods]
  <2>1. State(n).net = net
    BY DEF State
  <2>2. taken = [State(n) EXCEPT !.net = q]
    BY <2>1 DEF Taken
  <2> HIDE DEF q, taken
  <2>3. QED
    BY <2>2 DEF State
<1> HIDE DEF h, p
<1>7. q \in Network(said)
  <2>1. net \in [Hop -> Seq(LSP)]
    BY <1>1 DEF Network
  <2>2. q \in [Hop -> Seq(LSP)]
    BY <1>4, <2>1
  <2>3. \A i \in Hop : net[i] \in Seq(Authentic(said)) /\ (net[i] # <<>> => i \in Link)
    BY <1>1 DEF Network
  <2>4. \A i \in Hop : q[i] \in Seq(Authentic(said)) /\ (q[i] # <<>> => i \in Link)
    BY <1>3, <1>4, <2>1, <2>3
  <2>5. QED
    BY <2>2, <2>4 DEF Network
<1> HIDE DEF q, taken
<1>8. Sound(n, taken) /\ taken.floods = floods
  BY <1>1, <1>2, <1>6, <1>7, OtherTraffic
<1>9. ASSUME NEW t \in Turn(n, taken, m)
      PROVE  Sound(n, t) /\ t.floods \in 0 .. MaxFloods /\ p \in Authentic(Hist(n, t))
  <2>1. Sound(n, t) /\ t.floods \in 0 .. MaxFloods
    BY <1>1, <1>5, <1>8, TurnOK
  <2>2. Extends(said, Hist(n, t)) /\ Hist(n, t) \in History
    BY <1>1, <2>1, HistType DEF Sound, Known
  <2>3. QED
    BY <1>1, <1>4, <2>1, <2>2, AuthenticGrows
<1>10. QED
  BY <1>5, <1>6, <1>8, <1>9 DEF h, p, q, taken

LEMMA ReceiveLSPInv ==
  ASSUME RouterInv, NEW n \in Node, NEW m \in Node, ReceiveLSP(n, m)
  PROVE  RouterInv'
<1> DEFINE p == Head(net[<<m, n>>])
<1>1. net[<<m, n>>] # <<>> /\ up \subseteq Link /\ said \in History
  BY TurnStart DEF ReceiveLSP
<1>2. PICK t \in Turn(n, Taken(n, m), m) : Become(n, Accept(n, t, p, m))
  BY DEF ReceiveLSP, Taken
<1>3. Sound(n, t) /\ t.floods \in 0 .. MaxFloods /\ p \in Authentic(Hist(n, t))
  BY <1>1, TakenIs
<1> DEFINE s == Accept(n, t, p, m)
<1>4. Become(n, s) /\ s = Accept(n, t, p, m)
  BY <1>2
<1> HIDE DEF s, p
<1>5. Sound(n, s) /\ s.floods = t.floods
  BY <1>1, <1>3, <1>4, AcceptOK
<1>6. up' = up /\ changes' \in 0 .. MaxChanges /\ losses' = losses /\ sends' \in 0 .. MaxSends
  BY DEF ReceiveLSP, RouterInv, LsTypeOK, MonitorTypeOK
<1>7. QED
  BY <1>3, <1>4, <1>5, <1>6, TurnInv

LEMMA CostCommandInv ==
  ASSUME RouterInv, NEW n \in Node, NEW m \in Node, NEW c \in NewCosts, CostCommand(n, m, c)
  PROVE  RouterInv'
<1>1. m \in Node \ {n}
  BY DEF CostCommand
<1>2. c \in Nat \ {0}
  BY <1>1, LsAssumption, MonitorAssumption DEF PossibleCosts
<1>3. PICK t \in Turn(n, State(n), Manager) : Become(n, SetCost(n, t, m, c))
  BY DEF CostCommand
<1>4. Sound(n, t) /\ t.floods \in 0 .. MaxFloods
  BY TurnStart, TurnOK
<1> DEFINE s == SetCost(n, t, m, c)
<1>5. Become(n, s) /\ Sound(n, s) /\ s.floods = t.floods
  BY <1>1, <1>2, <1>3, <1>4, TurnStart, SetCostOK
<1> HIDE DEF s
<1>6. up' = up /\ changes' \in 0 .. MaxChanges /\ losses' = losses /\ sends' \in 0 .. MaxSends
  <2>1. MaxChanges \in Nat /\ changes \in 0 .. MaxChanges
    BY MonitorAssumption DEF RouterInv, LsTypeOK, MonitorTypeOK
  <2>2. changes' \in 0 .. MaxChanges
    BY <2>1 DEF CostCommand
  <2>3. QED
    BY <2>2 DEF CostCommand, RouterInv, LsTypeOK, MonitorTypeOK
<1>7. QED
  BY <1>4, <1>5, <1>6, TurnInv

LEMMA SendCommandInv ==
  ASSUME RouterInv, NEW n \in Node, NEW d \in Node, SendCommand(n, d)
  PROVE  RouterInv'
<1>1. PICK t \in Turn(n, State(n), Manager) : Become(n, Forward(n, t, d))
  BY DEF SendCommand
<1>2. Sound(n, t) /\ t.floods \in 0 .. MaxFloods
  BY TurnStart, TurnOK
<1> DEFINE s == Forward(n, t, d)
<1>3. Become(n, s) /\ Sound(n, s) /\ s.floods = t.floods
  BY <1>1, <1>2, TurnStart, ForwardOK
<1> HIDE DEF s
<1>4. up' = up /\ changes' \in 0 .. MaxChanges /\ losses' = losses /\ sends' \in 0 .. MaxSends
  <2>1. MaxSends \in Nat /\ sends \in 0 .. MaxSends
    BY LsAssumption DEF RouterInv, LsTypeOK
  <2>2. sends' \in 0 .. MaxSends
    BY <2>1 DEF SendCommand
  <2>3. QED
    BY <2>2 DEF SendCommand, RouterInv, LsTypeOK, MonitorTypeOK
<1>5. QED
  BY <1>2, <1>3, <1>4, TurnInv

\* The state that ReceiveForward starts its turn in: one message fewer under way.
Got(p) == [State(p.to) EXCEPT !.mesg = @ \ {p}]

LEMMA GotIs ==
  ASSUME RouterInv, NEW p \in mesg
  PROVE  /\ p.to \in Node /\ p.dest \in Node /\ p.from \in Neighbors(p.to)
         /\ Got(p) =
              [conn |-> State(p.to).conn, cost |-> State(p.to).cost, adj |-> State(p.to).adj,
               seq |-> State(p.to).seq, fwd |-> State(p.to).fwd, net |-> net,
               mesg |-> mesg \ {p}, said |-> State(p.to).said, floods |-> State(p.to).floods]
         /\ Sound(p.to, Got(p)) /\ Got(p).floods = floods
<1> DEFINE n == p.to
           taken == Got(p)
<1>1. p \in Mesg
  BY DEF RouterInv, LsTypeOK
<1>2. n \in Node /\ p.from \in Node /\ p.dest \in Node
  BY <1>1 DEF Mesg
<1>3. /\ said \in History /\ up \subseteq Link /\ Sound(n, State(n)) /\ net \in Network(said)
      /\ State(n).floods = floods /\ floods \in 0 .. MaxFloods /\ mesg \in Messages
  BY <1>2, TurnStart
<1>4. <<p.from, n>> \in Link /\ mesg \ {p} \in Messages
  BY <1>3 DEF Messages
<1>5. p.from \in Neighbors(n)
  BY <1>2, <1>4, NeighborsAreOthers DEF Neighbors
<1>6. Hist(n, State(n)) = said
  BY <1>2, <1>3, HistIsSaid
<1>7. taken = [conn |-> State(n).conn, cost |-> State(n).cost, adj |-> State(n).adj,
               seq |-> State(n).seq, fwd |-> State(n).fwd, net |-> net, mesg |-> mesg \ {p},
               said |-> State(n).said, floods |-> State(n).floods]
  BY DEF State, Got
<1> HIDE DEF n, taken
<1>8. Sound(n, taken) /\ taken.floods = floods
  BY <1>2, <1>3, <1>4, <1>6, <1>7, OtherTraffic
<1>9. QED
  BY <1>2, <1>5, <1>7, <1>8 DEF n, taken

LEMMA ReceiveForwardInv ==
  ASSUME RouterInv, NEW p \in mesg, ReceiveForward(p)
  PROVE  RouterInv'
<1> DEFINE n == p.to
<1>1. n \in Node /\ p.dest \in Node /\ p.from \in Neighbors(n)
      /\ Sound(n, Got(p)) /\ Got(p).floods = floods
  BY GotIs
<1>2. PICK t \in Turn(n, Got(p), p.from) : Become(n, Forward(n, t, p.dest))
  BY DEF ReceiveForward, Got
<1> HIDE DEF n
<1>3. /\ said \in History /\ up \subseteq Link /\ floods \in 0 .. MaxFloods
      /\ connections[n] \in SUBSET Neighbors(n)
  BY <1>1, TurnStart
<1>4. Sound(n, t) /\ t.floods \in 0 .. MaxFloods
  BY <1>1, <1>3, TurnOK
<1> DEFINE s == Forward(n, t, p.dest)
<1>5. Become(n, s) /\ Sound(n, s) /\ s.floods = t.floods
  BY <1>1, <1>2, <1>3, <1>4, ForwardOK
<1> HIDE DEF s
<1>6. up' = up /\ changes' \in 0 .. MaxChanges /\ losses' = losses /\ sends' \in 0 .. MaxSends
  BY DEF ReceiveForward, RouterInv, LsTypeOK, MonitorTypeOK
<1>7. QED
  BY <1>1, <1>4, <1>5, <1>6, TurnInv

LEMMA LinkChangeInv ==
  ASSUME RouterInv, NEW l \in Link, LinkChange(l), UNCHANGED lsVars
  PROVE  RouterInv'
<1>1. up' \subseteq Link
  BY MonitorAssumption DEF LinkChange, RouterInv, LsTypeOK, MonitorTypeOK
<1>2. changes' \in 0 .. MaxChanges
  BY MonitorAssumption DEF LinkChange, RouterInv, LsTypeOK, MonitorTypeOK
<1>3. LsTypeOK'
  BY <1>1, <1>2 DEF LinkChange, lsVars, RouterInv, LsTypeOK, MonitorTypeOK
<1>4. said' = said /\ \A k \in Node : State(k)' = State(k)
  BY DEF LinkChange, lsVars, State
<1>5. \A k \in Node : Sound(k, State(k))'
  BY <1>4 DEF RouterInv, Sound, Hist
<1>6. QED
  BY <1>3, <1>4, <1>5 DEF RouterInv

LEMMA LoseLSPInv ==
  ASSUME RouterInv, NEW h \in Hop, LoseLSP(h)
  PROVE  RouterInv'
<1>1. PICK k \in Node : TRUE
  BY DEF Hop
<1>2. net \in Network(said) /\ said \in History
  BY <1>1, TurnStart
<1>3. net[h] \in Seq(Authentic(said)) /\ net[h] # <<>> /\ h \in Link
  BY <1>2 DEF Network, LoseLSP
<1>4. Tail(net[h]) \in Seq(Authentic(said)) /\ Tail(net[h]) \in Seq(LSP)
  <2>1. Tail(net[h]) \in Seq(Authentic(said))
    BY <1>3, HeadTailProperties
  <2>2. Authentic(said) \subseteq LSP
    BY DEF Authentic
  <2>3. QED
    BY <2>1, <2>2, SeqMonotonic
<1>5. net' = [net EXCEPT ![h] = Tail(net[h])]
  BY DEF LoseLSP
<1>6. net' \in [Hop -> Seq(LSP)] /\ net' \in Network(said)
  <2>1. net \in [Hop -> Seq(LSP)]
    BY <1>2 DEF Network
  <2>2. net' \in [Hop -> Seq(LSP)]
    BY <1>4, <1>5, <2>1
  <2>3. \A i \in Hop : net[i] \in Seq(Authentic(said)) /\ (net[i] # <<>> => i \in Link)
    BY <1>2 DEF Network
  <2>4. \A i \in Hop : net'[i] \in Seq(Authentic(said)) /\ (net'[i] # <<>> => i \in Link)
    BY <1>3, <1>4, <1>5, <2>1, <2>3
  <2>5. QED
    BY <2>2, <2>4 DEF Network
<1>7. losses' \in 0 .. MaxLosses
  BY LsAssumption DEF LoseLSP, RouterInv, LsTypeOK
<1>8. LsTypeOK'
  BY <1>6, <1>7 DEF LoseLSP, monitorVars, RouterInv, LsTypeOK, MonitorTypeOK
<1>9. said' = said
  BY DEF LoseLSP
<1>10. ASSUME NEW n \in Node PROVE Sound(n, State(n))'
  <2> DEFINE s == State(n)
  <2>1. Sound(n, s) /\ Hist(n, s) = said /\ mesg \in Messages
    BY <1>2, TurnStart, HistIsSaid
  <2>2. State(n)' = [conn |-> s.conn, cost |-> s.cost, adj |-> s.adj, seq |-> s.seq,
                     fwd |-> s.fwd, net |-> net', mesg |-> mesg, said |-> s.said,
                     floods |-> s.floods]
    BY DEF LoseLSP, monitorVars, State
  <2> HIDE DEF s
  <2>3. Sound(n, State(n)')
    BY <1>6, <2>1, <2>2, OtherTraffic
  <2>4. QED
    BY <1>9, <2>3 DEF Sound, Hist
<1>11. QED
  BY <1>2, <1>8, <1>9, <1>10 DEF RouterInv

LEMMA InitInv == Init => RouterInv
<1>1. SUFFICES ASSUME Init PROVE RouterInv
  OBVIOUS
<1> DEFINE none == [a \in Node |-> [b \in Node |-> 0]]
<1>2. /\ up = Link /\ connections = [n \in Node |-> {}] /\ costs = InitialCost /\ changes = 0
      /\ adjMatrix = [n \in Node |-> none] /\ seqNumMatrix = [n \in Node |-> none]
      /\ confirmedMap = [n \in Node |-> <<>>] /\ net = [h \in Hop |-> <<>>] /\ mesg = {}
      /\ said = [a \in Node |-> [b \in Node |-> <<>>]]
      /\ floods = 0 /\ losses = 0 /\ sends = 0
  BY <1>1 DEF Init, LsInit, MonitorInit
<1>3. none \in [Node -> [Node -> Int]] /\ none \in [Node -> [Node -> Nat]]
      /\ \A a, b \in Node : none[a][b] = 0
  OBVIOUS
<1>4. /\ MaxChanges \in Nat /\ MaxFloods \in Nat /\ MaxLosses \in Nat /\ MaxSends \in Nat
      /\ Link \subseteq Node \X Node /\ InitialCost \in [Node -> [Node -> Nat]]
  BY LsAssumption, MonitorAssumption
<1>5. <<>> \in [{} -> Route]
  <2>1. DOMAIN <<>> = {} /\ <<>> = [x \in {} |-> x]
    OBVIOUS
  <2>2. QED
    BY <2>1
<1> HIDE DEF none
<1>6. said \in History
  BY <1>2 DEF History
<1>7. LsTypeOK
  <2>1. MonitorTypeOK
    BY <1>2, <1>4 DEF MonitorTypeOK
  <2>2. /\ adjMatrix \in [Node -> [Node -> [Node -> Int]]]
        /\ seqNumMatrix \in [Node -> [Node -> [Node -> Nat]]]
    BY <1>2, <1>3
  <2>3. DOMAIN confirmedMap = Node /\ \A n \in Node : confirmedMap[n] = <<>>
    BY <1>2
  <2>4. \A n \in Node : \E D \in SUBSET Node : confirmedMap[n] \in [D -> Route]
    BY <1>5, <2>3
  <2>5. net \in [Hop -> Seq(LSP)] /\ mesg \subseteq Mesg /\ said \in [Node -> [Node -> Seq(Int)]]
    BY <1>2
  <2>6. floods \in 0 .. MaxFloods /\ losses \in 0 .. MaxLosses /\ sends \in 0 .. MaxSends
    BY <1>2, <1>4
  <2>7. QED
    BY <2>1, <2>2, <2>3, <2>4, <2>5, <2>6 DEF LsTypeOK
<1>8. ASSUME NEW n \in Node PROVE Sound(n, State(n))
  <2> DEFINE s == State(n)
  <2>1. /\ s.conn = {} /\ s.cost = InitialCost[n] /\ s.adj = none /\ s.seq = none
        /\ s.fwd = <<>> /\ s.net = net /\ s.mesg = {} /\ s.said = said[n] /\ IsState(s)
    BY <1>2 DEF State, IsState
  <2>2. Hist(n, s) = said /\ Extends(said, said)
    BY <1>6, HistIsSaid
  <2> HIDE DEF s
  <2>3. InitialCost[n] \in CostTable(n)
    BY <1>4, LsAssumption DEF CostTable, PossibleCosts
  <2>4. \A a, b \in Node : said[a][b] = <<>>
    BY <1>2
  <2>5. none \in Matrix
    BY <1>3 DEF Matrix
  <2>6. Typed(n, s)
    <3>1. \A x \in Node : s.seq[n][x] = 0 /\ s.said[x] = <<>>
      BY <1>3, <2>1, <2>4
    <3>2. \A x \in Node : s.seq[n][x] = Len(s.said[x])
      BY <3>1
    <3>3. s.said \in [Node -> Seq(SaidCost)]
      BY <1>6, <2>1 DEF History
    <3>4. QED
      BY <1>3, <2>1, <2>3, <2>5, <3>2, <3>3 DEF Typed, Messages
  <2>7. Numbered(said, s)
    <3>1. \A a, b \in Node : s.seq[a][b] = 0 /\ Len(said[a][b]) = 0
      BY <1>3, <2>1, <2>4
    <3>2. QED
      BY <3>1 DEF Numbered
  <2>8. ExplainedBut(said, n, s, {})
    BY <1>3, <2>1 DEF ExplainedBut, Explains, Heard
  <2>9. Matches(said, n, s)
    BY <2>1 DEF Matches
  <2>10. net \in Network(said)
    <3>1. \A h \in Hop : net[h] = <<>>
      BY <1>2
    <3>2. net \in [Hop -> Seq(LSP)]
      BY <1>2
    <3>3. <<>> \in Seq(Authentic(said))
      OBVIOUS
    <3>4. QED
      BY <3>1, <3>2, <3>3 DEF Network
  <2>11. GoodTable(n, s)
    BY <1>5, <2>1 DEF GoodTable
  <2>12. QED
    BY <2>1, <2>2, <2>6, <2>7, <2>8, <2>9, <2>10, <2>11 DEF s, Sound, Known
<1>9. QED
  BY <1>6, <1>7, <1>8 DEF RouterInv

LEMMA StepInv == RouterInv /\ [Next]_vars => RouterInv'
<1>1. SUFFICES ASSUME RouterInv, [Next]_vars PROVE RouterInv'
  OBVIOUS
<1>2. CASE \E n, m \in Node : Hear(n, m)
  BY <1>1, <1>2, HearInv
<1>3. CASE \E n, m \in Node : ReceiveLSP(n, m)
  BY <1>1, <1>3, ReceiveLSPInv
<1>4. CASE \E n, m \in Node, c \in NewCosts : CostCommand(n, m, c)
  BY <1>1, <1>4, CostCommandInv
<1>5. CASE \E n, d \in Node : SendCommand(n, d)
  BY <1>1, <1>5, SendCommandInv
<1>6. CASE \E p \in mesg : ReceiveForward(p)
  BY <1>1, <1>6, ReceiveForwardInv
<1>7. CASE \E l \in Link : LinkChange(l) /\ UNCHANGED lsVars
  BY <1>1, <1>7, LinkChangeInv
<1>8. CASE \E h \in Hop : LoseLSP(h)
  BY <1>1, <1>8, LoseLSPInv
<1>9. CASE UNCHANGED vars
  <2>1. UNCHANGED <<monitorVars, lsVars>>
    BY <1>9 DEF vars
  <2>2. LsTypeOK' /\ said' = said
    BY <1>1, <2>1 DEF RouterInv, LsTypeOK, MonitorTypeOK, monitorVars, lsVars
  <2>3. \A k \in Node : State(k)' = State(k)
    BY <2>1 DEF State, monitorVars, lsVars
  <2>4. \A k \in Node : Sound(k, State(k))'
    BY <1>1, <2>2, <2>3 DEF RouterInv, Sound, Hist
  <2>5. QED
    BY <1>1, <2>2, <2>4 DEF RouterInv
<1>10. QED
  BY <1>1, <1>2, <1>3, <1>4, <1>5, <1>6, <1>7, <1>8, <1>9 DEF Next

-----------------------------------------------------------------------------
\* The theorems.

\* The inductive invariant: whatever order the packets, the losses, the failures and
\* the timers come in, each turn of each router leaves its tables explained by what
\* was flooded, and its forwarding table the best for them.
THEOREM Invariance == Spec => []RouterInv
<1>1. Init => RouterInv
  BY InitInv
<1>2. RouterInv /\ [Next]_vars => RouterInv'
  BY StepInv
<1>3. QED
  BY <1>1, <1>2, PTL DEF Spec

\* The tables and the packets of ls_router.cpp keep their types; whatever the packets of
\* the other ends say, no cost in costs[] becomes that of a link that is gone.
THEOREM TypeCorrect == Spec => []LsTypeOK
<1>1. RouterInv => LsTypeOK
  BY DEF RouterInv
<1>2. QED
  BY <1>1, Invariance, PTL

\* No belief without a packet of an end of the link that says so, the newest there is
\* from that end: for any network, losses, failures and commands.
THEOREM BeliefsAreExplained == Spec => []MatrixExplained
<1>1. RouterInv => MatrixExplained
  <2>1. SUFFICES ASSUME RouterInv, NEW n \in Node, NEW a \in Node, NEW b \in Node, a # b
                 PROVE  /\ seqNumMatrix[n][a][b] <= Len(said[a][b])
                        /\ LET heard == LastHeard(n, a, b) \cup LastHeard(n, b, a) IN
                           adjMatrix[n][a][b] \in IF heard = {} THEN {0} ELSE heard
    BY DEF MatrixExplained
  <2>2. said \in History /\ Sound(n, State(n))
    BY <2>1 DEF RouterInv
  <2>3. Known(said, n, State(n), {})
    BY <2>2, HistIsSaid DEF Sound
  <2>4. State(n).seq = seqNumMatrix[n] /\ State(n).adj = adjMatrix[n]
    BY DEF State
  <2>5. seqNumMatrix[n][a][b] <= Len(said[a][b])
    BY <2>1, <2>3, <2>4 DEF Known, Numbered
  <2>6. Explains(said, seqNumMatrix[n], a, b, adjMatrix[n][a][b])
    BY <2>1, <2>3, <2>4 DEF Known, ExplainedBut
  <2>7. /\ LastHeard(n, a, b) = Heard(said, seqNumMatrix[n], a, b)
        /\ LastHeard(n, b, a) = Heard(said, seqNumMatrix[n], b, a)
    BY DEF LastHeard, Heard
  <2>8. QED
    BY <2>5, <2>6, <2>7 DEF Explains
<1>2. QED
  BY <1>1, Invariance, PTL

\* The two places where ls_router.cpp keeps the cost of a live link agree after every
\* turn, unless the other end has said the link is gone.
THEOREM CostsAgree == Spec => []CostsMatchMatrix
<1>1. RouterInv => CostsMatchMatrix
  <2>1. SUFFICES ASSUME RouterInv, NEW n \in Node, NEW m \in connections[n]
                 PROVE  \/ adjMatrix[n][n][m] = costs[n][m]
                        \/ adjMatrix[n][n][m] = Down /\ Down \in LastHeard(n, m, n)
    BY DEF CostsMatchMatrix
  <2>2. said \in History /\ Sound(n, State(n))
    BY <2>1 DEF RouterInv
  <2>3. Matches(said, n, State(n))
    BY <2>2, HistIsSaid DEF Sound, Known
  <2>4. State(n).seq = seqNumMatrix[n] /\ State(n).adj = adjMatrix[n]
        /\ State(n).conn = connections[n] /\ State(n).cost = costs[n]
    BY DEF State
  <2>5. QED
    BY <2>3, <2>4 DEF Matches, LastHeard, Heard
<1>2. QED
  BY <1>1, Invariance, PTL

\* Every forwarding table is, after every turn, that of the shortest paths through what
\* its node believes: updateFwdTable computes it right (ShortestPaths), and no handler
\* leaves the tables it reads changed without calling it.
THEOREM TablesAreBest == Spec => []RoutesAreBest
<1>1. RouterInv => RoutesAreBest
  <2>1. SUFFICES ASSUME RouterInv, NEW n \in Node, confirmedMap[n] # <<>>
                 PROVE  LET v == View(n, State(n)) IN
                        /\ IsShortest(v, confirmedMap[n])
                        /\ OwnLinksAgree(v) => TiesBroken(v, confirmedMap[n])
                        /\ \A d \in DOMAIN confirmedMap[n] \ {n} :
                             confirmedMap[n][d].nexthop \in connections[n]
    BY DEF RoutesAreBest
  <2>2. GoodTable(n, State(n))
    BY <2>1 DEF RouterInv, Sound
  <2>3. State(n).fwd = confirmedMap[n] /\ State(n).conn = connections[n]
    BY DEF State
  <2>4. QED
    BY <2>1, <2>2, <2>3 DEF GoodTable
<1>2. QED
  BY <1>1, Invariance, PTL
=============================================================================
