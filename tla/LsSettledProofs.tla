--------------------------- MODULE LsSettledProofs ---------------------------
(***************************************************************************)
(* Proofs about LsRouter that build on the invariant of LsRouterProofs:    *)
(* the packets of a link's end come in order, what a node that forgets a   *)
(* failed link must have missed, what a settled network agrees on, and     *)
(* that a steady network leaves itself alone.                              *)
(***************************************************************************)
EXTENDS LsRouterProofs

-----------------------------------------------------------------------------
(* What is under way, last words, and tables that are up to date.           *)

\* FloodsInOrder of one hop from a node with the numbers seq.
InSequence(q, seq) ==
  \A i \in DOMAIN q :
    /\ q[i].seqNum <= seq[q[i].node1][q[i].node2]
    /\ \A j \in 1 .. i - 1 : q[j].node1 = q[i].node1 /\ q[j].node2 = q[i].node2 =>
         q[j].seqNum < q[i].seqNum

\* Seq is later than seq.
Later(seq, Seq2) == \A a, b \in Node : seq[a][b] <= Seq2[a][b]

Own(n) == {h \in Hop : h[1] = n}

\* The last that n said of a link it is not connected by is that it is gone, save for
\* the links to the nodes in X.
LastWords(n, s, X) ==
  \A x \in Node \ {n} : x \notin s.conn \cup X /\ s.said[x] # <<>> =>
    s.said[x][Len(s.said[x])] = Down

\* The table is the one the code would compute now.
Current(n, s) == s.fwd # <<>> => s.fwd = UpdateFwdTable(View(n, s))

Orderly(n, s, X) ==
  LastWords(n, s, X) /\ \A h \in Own(n) : InSequence(s.net[h], s.seq)

Tidy(n, s) == Orderly(n, s, {}) /\ Current(n, s)

\* n sends on its own links only.
Alone(n, s, r) == \A h \in Hop \ Own(n) : r.net[h] = s.net[h]

LEMMA SequenceLater ==
  ASSUME NEW seq \in [Node -> [Node -> Nat]], NEW new \in [Node -> [Node -> Nat]],
         Later(seq, new), NEW q \in Seq(LSP), InSequence(q, seq)
  PROVE  InSequence(q, new)
<1>1. ASSUME NEW i \in DOMAIN q PROVE q[i].seqNum <= new[q[i].node1][q[i].node2]
  <2>1. q[i] \in LSP
    OBVIOUS
  <2> DEFINE a == q[i].node1
             b == q[i].node2
  <2>2. a \in Node /\ b \in Node /\ q[i].seqNum \in Nat
    BY <2>1 DEF LSP
  <2>3. q[i].seqNum <= seq[a][b]
    BY DEF InSequence
  <2> HIDE DEF a, b
  <2>4. q[i].seqNum <= new[a][b]
    BY <2>2, <2>3 DEF Later
  <2>5. QED
    BY <2>4 DEF a, b
<1>2. QED
  BY <1>1 DEF InSequence

LEMMA SequenceTail ==
  ASSUME NEW seq, NEW q \in Seq(LSP), q # <<>>, InSequence(q, seq)
  PROVE  InSequence(Tail(q), seq)
<1> DEFINE t == Tail(q)
<1>1. /\ t \in Seq(LSP) /\ Len(t) = Len(q) - 1 /\ Len(q) \in Nat
      /\ \A i \in 1 .. Len(t) : t[i] = q[i + 1]
  BY HeadTailProperties
<1> HIDE DEF t
<1>2. DOMAIN t = 1 .. Len(t) /\ Len(t) \in Nat
  BY <1>1
<1>3. ASSUME NEW i \in 1 .. Len(t)
      PROVE  /\ t[i].seqNum <= seq[t[i].node1][t[i].node2]
             /\ \A j \in 1 .. i - 1 : t[j].node1 = t[i].node1 /\ t[j].node2 = t[i].node2 =>
                  t[j].seqNum < t[i].seqNum
  <2>1. t[i] = q[i + 1] /\ i + 1 \in DOMAIN q
    BY <1>1
  <2>2. ASSUME NEW j \in 1 .. i - 1 PROVE t[j] = q[j + 1] /\ j + 1 \in 1 .. (i + 1) - 1
    BY <1>1
  <2>3. QED
    BY <2>1, <2>2 DEF InSequence
<1>4. InSequence(t, seq)
  BY <1>2, <1>3 DEF InSequence
<1>5. QED
  BY <1>4 DEF t

\* What is newer than what n knew goes behind what was under way.
LEMMA SequenceConcat ==
  ASSUME NEW seq \in [Node -> [Node -> Nat]], NEW new \in [Node -> [Node -> Nat]],
         Later(seq, new), NEW q \in Seq(LSP), InSequence(q, seq),
         NEW p \in Seq(LSP), InSequence(p, new),
         \A i \in DOMAIN p : p[i].seqNum > seq[p[i].node1][p[i].node2]
  PROVE  InSequence(q \o p, new)
<1> DEFINE c == q \o p
<1>1. /\ c \in Seq(LSP) /\ Len(c) = Len(q) + Len(p) /\ Len(q) \in Nat /\ Len(p) \in Nat
      /\ \A i \in 1 .. Len(c) : c[i] = IF i <= Len(q) THEN q[i] ELSE p[i - Len(q)]
  BY ConcatProperties
<1> HIDE DEF c
<1>2. InSequence(q, new)
  BY SequenceLater
<1>3. DOMAIN c = 1 .. Len(c) /\ Len(c) \in Nat
  BY <1>1
<1>4. ASSUME NEW i \in 1 .. Len(c)
      PROVE  /\ c[i].seqNum <= new[c[i].node1][c[i].node2]
             /\ \A j \in 1 .. i - 1 : c[j].node1 = c[i].node1 /\ c[j].node2 = c[i].node2 =>
                  c[j].seqNum < c[i].seqNum
  <2>1. CASE i <= Len(q)
    <3>1. i \in DOMAIN q /\ c[i] = q[i] /\ \A j \in 1 .. i - 1 : c[j] = q[j]
      BY <1>1, <2>1
    <3>2. QED
      BY <1>2, <3>1 DEF InSequence
  <2>2. CASE i > Len(q)
    <3> DEFINE k == i - Len(q)
    <3>1. k \in DOMAIN p /\ c[i] = p[k] /\ k \in Nat
      BY <1>1, <2>2
    <3>2. c[i].seqNum <= new[c[i].node1][c[i].node2]
      BY <3>1 DEF InSequence
    <3>3. ASSUME NEW j \in 1 .. i - 1, c[j].node1 = c[i].node1, c[j].node2 = c[i].node2
          PROVE  c[j].seqNum < c[i].seqNum
      <4>1. CASE j <= Len(q)
        <5> DEFINE x == c[j].seqNum
                   y == c[i].seqNum
                   z == seq[c[i].node1][c[i].node2]
        <5>1. c[j] = q[j] /\ j \in DOMAIN q /\ c[j] \in LSP /\ c[i] \in LSP
          BY <1>1, <4>1
        <5>2. x <= z
          BY <3>3, <5>1 DEF InSequence
        <5>3. y > z
          BY <3>1
        <5>4. y \in Nat /\ x \in Nat /\ c[i].node1 \in Node /\ c[i].node2 \in Node
          BY <5>1 DEF LSP
        <5>5. z \in Nat
          BY <5>4
        <5> HIDE DEF x, y, z
        <5>6. x < y
          BY <5>2, <5>3, <5>4, <5>5
        <5>7. QED
          BY <5>6 DEF x, y
      <4>2. CASE j > Len(q)
        <5>1. c[j] = p[j - Len(q)] /\ j - Len(q) \in 1 .. k - 1
          BY <1>1, <2>2, <4>2
        <5>2. QED
          BY <3>1, <3>3, <5>1 DEF InSequence
      <4>3. QED
        BY <1>1, <4>1, <4>2
    <3>4. QED
      BY <3>2, <3>3
  <2>3. QED
    BY <1>1, <2>1, <2>2
<1>5. InSequence(c, new)
  BY <1>3, <1>4 DEF InSequence
<1>6. QED
  BY <1>5 DEF c

LEMMA SequenceAppend ==
  ASSUME NEW seq \in [Node -> [Node -> Nat]], NEW new \in [Node -> [Node -> Nat]],
         Later(seq, new), NEW q \in Seq(LSP), InSequence(q, seq), NEW p \in LSP,
         p.seqNum > seq[p.node1][p.node2], p.seqNum <= new[p.node1][p.node2]
  PROVE  InSequence(Append(q, p), new)
<1> DEFINE l == <<p>>
<1>1. l \in Seq(LSP) /\ DOMAIN l = {1} /\ l[1] = p
  OBVIOUS
<1>2. Append(q, p) = q \o l
  BY AppendIsConcat
<1> HIDE DEF l
<1>3. InSequence(l, new)
  BY <1>1 DEF InSequence
<1>4. \A i \in DOMAIN l : l[i].seqNum > seq[l[i].node1][l[i].node2]
  BY <1>1
<1>5. InSequence(q \o l, new)
  BY <1>1, <1>3, <1>4, SequenceConcat
<1>6. QED
  BY <1>2, <1>5

LEMMA FloodTidy ==
  ASSUME NEW n \in Node, NEW s, Typed(n, s), NEW H, s.net \in Network(H),
         NEW X \in SUBSET Neighbors(n), NEW news \in [X -> SaidCost], NEW to,
         Orderly(n, s, X), \A x \in X : x \notin s.conn => news[x] = Down,
         NEW r, r = Flood(n, s, news, to)
  PROVE  Orderly(n, r, {}) /\ Alone(n, s, r) /\ (Current(n, s) => Current(n, r))
<1>1. r = [conn |-> s.conn, cost |-> s.cost, adj |-> s.adj, seq |-> FloodSeq(n, s, X),
           fwd |-> s.fwd, net |-> FloodNet(n, s, news, X, to), mesg |-> s.mesg,
           said |-> FloodSaid(s, news, X), floods |-> s.floods]
  BY FloodIs
<1>2. /\ r.conn = s.conn /\ r.cost = s.cost /\ r.adj = s.adj /\ r.fwd = s.fwd
      /\ r.seq = FloodSeq(n, s, X) /\ r.said = FloodSaid(s, news, X)
      /\ r.net = FloodNet(n, s, news, X, to)
  BY <1>1
<1>3. /\ s.seq \in [Node -> [Node -> Nat]] /\ X \subseteq Node \ {n}
      /\ s.said \in [Node -> Seq(SaidCost)] /\ s.net \in [Hop -> Seq(LSP)]
      /\ \A x \in Node : s.seq[n][x] = Len(s.said[x])
  BY NeighborsAreOthers DEF Typed, Network
<1>4. /\ r.seq \in [Node -> [Node -> Nat]] /\ Later(s.seq, r.seq)
      /\ \A x \in X : r.seq[n][x] = s.seq[n][x] + 1
  BY <1>2, <1>3 DEF FloodSeq, Later
<1>5. ASSUME NEW S \in SUBSET X
      PROVE  /\ Packets(n, s, news, S) \in Seq(LSP)
             /\ InSequence(Packets(n, s, news, S), r.seq)
             /\ \A i \in DOMAIN Packets(n, s, news, S) :
                  Packets(n, s, news, S)[i].seqNum
                    > s.seq[Packets(n, s, news, S)[i].node1][Packets(n, s, news, S)[i].node2]
  <2> DEFINE l == InIdOrder[S]
             k == Cardinality(S)
             p == Packets(n, s, news, S)
  <2>1. S \in SUBSET Node /\ S \subseteq X
    BY <1>3
  <2>2. l \in [1 .. k -> S] /\ k \in Nat /\ \A i, j \in 1 .. k : i < j => l[i] < l[j]
    BY <2>1, InIdOrderType, InIdOrderAscends, InIdOrderFunction
  <2>3. p = [i \in 1 .. k |-> Packet(n, s, news, l[i])]
    BY <2>2 DEF Packets
  <2> HIDE DEF l, k, p
  <2>4. ASSUME NEW i \in 1 .. k
        PROVE  /\ l[i] \in X /\ l[i] \in Nat /\ p[i] \in LSP
               /\ p[i].node1 = n /\ p[i].node2 = l[i] /\ p[i].seqNum = s.seq[n][l[i]] + 1
    <3>1. l[i] \in X /\ l[i] \in Node
      BY <2>1, <2>2
    <3>2. l[i] \in Nat /\ news[l[i]] \in SaidCost /\ s.seq[n][l[i]] \in Nat
      <4>1. Node \subseteq Nat
        BY MonitorAssumption
      <4>2. l[i] \in Nat
        BY <3>1, <4>1
      <4>3. news[l[i]] \in SaidCost
        BY <3>1
      <4>4. s.seq[n][l[i]] \in Nat
        BY <1>3, <3>1
      <4>5. QED
        BY <4>2, <4>3, <4>4
    <3>3. p[i] = Packet(n, s, news, l[i]) /\ TTL \in 1 .. TTL
      BY <2>3, LsAssumption
    <3>4. QED
      BY <3>1, <3>2, <3>3 DEF Packet, LSP, SaidCost, Down
  <2>5. p \in Seq(LSP) /\ DOMAIN p = 1 .. k
    BY <2>2, <2>3, <2>4
  <2>6. \A i \in 1 .. k : /\ p[i].seqNum <= r.seq[p[i].node1][p[i].node2]
                          /\ p[i].seqNum > s.seq[p[i].node1][p[i].node2]
    <3>1. SUFFICES ASSUME NEW i \in 1 .. k
                   PROVE  s.seq[n][l[i]] + 1 <= r.seq[n][l[i]] /\ s.seq[n][l[i]] + 1 > s.seq[n][l[i]]
      BY <2>4
    <3>2. r.seq[n][l[i]] = s.seq[n][l[i]] + 1 /\ s.seq[n][l[i]] \in Nat
      BY <1>3, <1>4, <2>4
    <3>3. QED
      BY <3>2
  <2>7. \A i \in 1 .. k : \A j \in 1 .. i - 1 : p[j].node2 # p[i].node2
    <3>1. SUFFICES ASSUME NEW i \in 1 .. k, NEW j \in 1 .. i - 1 PROVE l[j] # l[i]
      BY <2>2, <2>4
    <3>2. j \in 1 .. k /\ j < i
      BY <2>2
    <3>3. l[j] < l[i] /\ l[j] \in Nat
      BY <2>2, <2>4, <3>2
    <3>4. QED
      BY <3>3
  <2>8. InSequence(p, r.seq)
    BY <2>5, <2>6, <2>7 DEF InSequence
  <2>9. QED
    BY <2>5, <2>6, <2>8 DEF p
<1>6. ASSUME NEW h \in Own(n) PROVE InSequence(r.net[h], r.seq)
  <2> DEFINE S == {x \in X : <<h[2], x>> \in to}
  <2>1. s.net[h] \in Seq(LSP) /\ InSequence(s.net[h], s.seq) /\ h \in Hop /\ h[1] = n
    BY <1>3 DEF Own, Orderly
  <2>2. r.net[h] = IF h[1] = n /\ h \in up THEN s.net[h] \o Packets(n, s, news, S) ELSE s.net[h]
    BY <1>2, <2>1 DEF FloodNet
  <2> DEFINE q == s.net[h]
             p == Packets(n, s, news, S)
             seq == s.seq
             new == r.seq
  <2>3. /\ p \in Seq(LSP) /\ InSequence(p, new)
        /\ \A i \in DOMAIN p : p[i].seqNum > seq[p[i].node1][p[i].node2]
    BY <1>5
  <2>4. /\ q \in Seq(LSP) /\ InSequence(q, seq) /\ Later(seq, new)
        /\ seq \in [Node -> [Node -> Nat]] /\ new \in [Node -> [Node -> Nat]]
    BY <1>3, <1>4, <2>1
  <2> HIDE DEF q, p, seq, new
  <2>5. InSequence(q \o p, new) /\ InSequence(q, new)
    BY <2>3, <2>4, SequenceConcat, SequenceLater
  <2>6. QED
    BY <2>2, <2>5 DEF q, p, new
<1>7. LastWords(n, r, {})
  <2>1. SUFFICES ASSUME NEW x \in Node \ {n}, x \notin s.conn, r.said[x] # <<>>
                 PROVE  r.said[x][Len(r.said[x])] = Down
    BY <1>2 DEF LastWords
  <2>2. CASE x \in X
    <3>1. r.said[x] = Append(s.said[x], Down) /\ s.said[x] \in Seq(SaidCost) /\ Down \in SaidCost
      BY <1>2, <1>3, <2>1, <2>2 DEF FloodSaid, SaidCost
    <3>2. QED
      BY <3>1, AppendProperties
  <2>3. CASE x \notin X
    <3>1. r.said[x] = s.said[x]
      BY <1>2, <2>3 DEF FloodSaid
    <3>2. QED
      BY <2>1, <2>3, <3>1 DEF LastWords, Orderly
  <2>4. QED
    BY <2>2, <2>3
<1>8. Current(n, s) => Current(n, r)
  BY <1>2 DEF Current, View
<1>9. Alone(n, s, r)
  BY <1>2 DEF Alone, FloodNet, Own
<1>10. QED
  BY <1>6, <1>7, <1>8, <1>9 DEF Orderly

\* A flood of all its links leaves a node's last words true.
LEMMA FloodLSPTidy ==
  ASSUME said \in History, NEW n \in Node, NEW s, Known(Hist(n, s), n, s, s.conn),
         Tidy(n, s), NEW r, r = FloodLSP(n, s)
  PROVE  Tidy(n, r) /\ Alone(n, s, r)
<1>1. PICK X \in SUBSET Neighbors(n) :
        /\ s.conn \subseteq X /\ OwnLinks(n, s) \in [X -> SaidCost]
        /\ \A x \in X : IF x \in s.conn THEN OwnLinks(n, s)[x] = s.cost[x]
                        ELSE OwnLinks(n, s)[x] = Down /\ s.adj[n][x] = Down
  BY OwnLinksType
<1>2. Typed(n, s) /\ s.net \in Network(Hist(n, s))
  BY DEF Known
<1>3. Orderly(n, s, X) /\ \A x \in X : x \notin s.conn => OwnLinks(n, s)[x] = Down
  BY <1>1 DEF LastWords, Orderly, Tidy
<1>4. r = Flood(n, s, OwnLinks(n, s), s.conn \X Node)
  BY DEF FloodLSP
<1>5. QED
  BY <1>1, <1>2, <1>3, <1>4, FloodTidy DEF Tidy

LEMMA HeardFromTidy ==
  ASSUME said \in History, up \subseteq Link, NEW n \in Node, NEW s, Sound(n, s), Tidy(n, s),
         NEW m \in Neighbors(n), NEW r, r = HeardFrom(n, s, m)
  PROVE  Tidy(n, r) /\ Alone(n, s, r)
<1>1. CASE m \in s.conn
  BY <1>1 DEF HeardFrom, Alone
<1>2. CASE m \notin s.conn
  <2>1. PICK u :
          /\ HeardFrom(n, s, m) = FloodLSP(n, u)
          /\ Extends(said, Hist(n, u)) /\ Known(Hist(n, u), n, u, u.conn) /\ GoodTable(n, u)
          /\ u.fwd = UpdateFwdTable(View(n, u))
          /\ u.conn = s.conn \cup {m} /\ u.cost = s.cost
          /\ u.seq = s.seq /\ u.net = s.net /\ u.mesg = s.mesg /\ u.said = s.said
          /\ u.floods = s.floods
    BY <1>2, NewNeighborIs
  <2>2. Tidy(n, u)
    BY <2>1 DEF Tidy, Orderly, LastWords, Current
  <2>3. Tidy(n, r) /\ Alone(n, u, r)
    BY <2>1, <2>2, FloodLSPTidy
  <2>4. QED
    BY <2>1, <2>3 DEF Alone
<1>3. QED
  BY <1>1, <1>2

LEMMA NoteSenderTidy ==
  ASSUME said \in History, up \subseteq Link, NEW n \in Node, NEW s, Sound(n, s), Tidy(n, s),
         NEW from \in Neighbors(n) \cup {Manager}, NEW r, r = NoteSender(n, s, from)
  PROVE  Tidy(n, r) /\ Alone(n, s, r)
<1>1. CASE from = Manager
  BY <1>1 DEF NoteSender, Alone
<1>2. CASE from # Manager
  <2>1. from \in Neighbors(n) /\ r = HeardFrom(n, s, from)
    BY <1>2 DEF NoteSender
  <2>2. QED
    BY <2>1, HeardFromTidy
<1>3. QED
  BY <1>1, <1>2

LEMMA DropSilentTidy ==
  ASSUME said \in History, up \subseteq Link, NEW n \in Node, NEW s, Sound(n, s), Tidy(n, s),
         NEW silent \in SUBSET Neighbors(n), NEW r, r = DropSilent(n, s, silent)
  PROVE  Tidy(n, r) /\ Alone(n, s, r)
<1>1. CASE silent = {}
  BY <1>1 DEF DropSilent, Alone
<1>2. CASE silent # {}
  <2> DEFINE news == [x \in silent |-> Down]
  <2>1. PICK u, to :
          /\ DropSilent(n, s, silent) = Flood(n, u, news, to)
          /\ Extends(said, Hist(n, u)) /\ Known(Hist(n, u), n, u, silent) /\ GoodTable(n, u)
          /\ u.fwd = UpdateFwdTable(View(n, u))
          /\ u.conn = s.conn \ silent /\ u.cost = s.cost /\ u.adj = Cut(n, s.adj, silent)
          /\ u.seq = s.seq /\ u.net = s.net /\ u.mesg = s.mesg /\ u.said = s.said
          /\ u.floods = s.floods
          /\ \A x \in silent : u.adj[n][x] = Down
    BY <1>2, DroppedIs
  <2>2. news \in [silent -> SaidCost] /\ \A x \in silent : news[x] = Down
    BY DEF SaidCost
  <2> HIDE DEF news
  <2>3. Orderly(n, u, silent) /\ Current(n, u)
    BY <2>1 DEF Tidy, Orderly, LastWords, Current
  <2>4. Typed(n, u) /\ u.net \in Network(Hist(n, u))
    BY <2>1 DEF Known
  <2>5. Orderly(n, r, {}) /\ Alone(n, u, r) /\ Current(n, r)
    BY <2>1, <2>2, <2>3, <2>4, FloodTidy
  <2>6. QED
    BY <2>1, <2>5 DEF Alone, Tidy
<1>3. QED
  BY <1>1, <1>2

LEMMA PeriodicFloodTidy ==
  ASSUME said \in History, up \subseteq Link, NEW n \in Node, NEW s, Sound(n, s), Tidy(n, s),
         NEW due, NEW r, r = PeriodicFlood(n, s, due)
  PROVE  Tidy(n, r) /\ Alone(n, s, r)
<1>1. CASE ~ due
  BY <1>1 DEF PeriodicFlood, Alone
<1>2. CASE due
  <2> DEFINE t == FloodLSP(n, s)
  <2>1. r = [t EXCEPT !.floods = t.floods + 1]
    BY <1>2 DEF PeriodicFlood
  <2> HIDE DEF t
  <2>2. Known(Hist(n, s), n, s, s.conn)
    BY DEF Sound, Known, ExplainedBut
  <2>3. Sound(n, t)
    BY <2>2, FloodLSPOK DEF Sound, t
  <2>4. Tidy(n, t) /\ Alone(n, s, t)
    BY <2>2, FloodLSPTidy DEF t
  <2>5. t = [conn |-> t.conn, cost |-> t.cost, adj |-> t.adj, seq |-> t.seq, fwd |-> t.fwd,
             net |-> t.net, mesg |-> t.mesg, said |-> t.said, floods |-> t.floods]
    BY <2>3 DEF Sound, Known, Typed, IsState
  <2>6. r = [conn |-> t.conn, cost |-> t.cost, adj |-> t.adj, seq |-> t.seq, fwd |-> t.fwd,
             net |-> t.net, mesg |-> t.mesg, said |-> t.said, floods |-> t.floods + 1]
    BY <2>1, <2>5
  <2>7. /\ r.conn = t.conn /\ r.cost = t.cost /\ r.adj = t.adj /\ r.seq = t.seq
        /\ r.fwd = t.fwd /\ r.net = t.net /\ r.said = t.said
    BY <2>6
  <2>8. QED
    BY <2>4, <2>7 DEF Tidy, Orderly, LastWords, Current, View, Alone
<1>3. QED
  BY <1>1, <1>2

LEMMA TurnTidy ==
  ASSUME said \in History, up \subseteq Link, NEW n \in Node, NEW s, Sound(n, s), Tidy(n, s),
         connections[n] \in SUBSET Neighbors(n),
         NEW from \in Neighbors(n) \cup {Manager}, NEW r \in Turn(n, s, from)
  PROVE  Tidy(n, r) /\ Alone(n, s, r)
<1>1. PICK silent \in Silence(n, from), due \in Due :
        r = PeriodicFlood(n, DropSilent(n, NoteSender(n, s, from), silent), due)
  BY DEF Turn
<1> DEFINE t == NoteSender(n, s, from)
           u == DropSilent(n, t, silent)
<1>2. silent \in SUBSET Neighbors(n)
  BY DEF Silence, Dead
<1>3. Sound(n, t) /\ Tidy(n, t) /\ Alone(n, s, t)
  BY NoteSenderOK, NoteSenderTidy
<1> HIDE DEF t
<1>4. Sound(n, u) /\ Tidy(n, u) /\ Alone(n, t, u)
  BY <1>2, <1>3, DropSilentOK, DropSilentTidy
<1> HIDE DEF u
<1>5. r = PeriodicFlood(n, u, due)
  BY <1>1 DEF u, t
<1>6. Tidy(n, r) /\ Alone(n, u, r)
  BY <1>4, <1>5, PeriodicFloodTidy
<1>7. QED
  BY <1>3, <1>4, <1>6 DEF Alone

\* What is passed on was news.
LEMMA AcceptTidy ==
  ASSUME said \in History, up \subseteq Link, NEW n \in Node, NEW s, Sound(n, s), Tidy(n, s),
         NEW p \in Authentic(Hist(n, s)), NEW from, NEW r, r = Accept(n, s, p, from)
  PROVE  Tidy(n, r) /\ Alone(n, s, r)
<1>1. CASE ~ Fresh(s, p)
  BY <1>1 DEF Accept, Alone
<1>2. CASE Fresh(s, p)
  <2> DEFINE seq == s.seq
             new == r.seq
             onward == [p EXCEPT !.ttl = @ - 1]
  <2>1. Accepted(n, s, p, from, r)
    BY <1>2, AcceptOK
  <2>2. /\ p \in LSP /\ p.node1 \in Node \ {n} /\ p.node2 \in Node /\ p.node1 # p.node2
        /\ p.seqNum \in Nat /\ onward \in Authentic(Hist(n, s))
    BY <1>2, FreshIsNews
  <2>3. onward \in LSP /\ onward.node1 = p.node1 /\ onward.node2 = p.node2
        /\ onward.seqNum = p.seqNum
    <3>1. onward \in LSP
      BY <2>2 DEF Authentic
    <3>2. p = [node1 |-> p.node1, node2 |-> p.node2, cost |-> p.cost, seqNum |-> p.seqNum,
               ttl |-> p.ttl]
      BY <2>2 DEF LSP
    <3>3. onward = [node1 |-> p.node1, node2 |-> p.node2, cost |-> p.cost, seqNum |-> p.seqNum,
                    ttl |-> p.ttl - 1]
      BY <3>2
    <3>4. QED
      BY <3>1, <3>3
  <2>4. seq \in [Node -> [Node -> Nat]] /\ s.net \in [Hop -> Seq(LSP)]
        /\ new = [seq EXCEPT ![p.node1] = [seq[p.node1] EXCEPT ![p.node2] = p.seqNum]]
    BY <2>1 DEF Sound, Known, Typed, Network, Accepted
  <2>5. p.seqNum > seq[p.node1][p.node2]
    BY <1>2 DEF Fresh
  <2>6. r.net = [h \in Hop |-> IF h[1] = n /\ h[2] \in s.conn \ {from} /\ h \in up
                               THEN Append(s.net[h], onward) ELSE s.net[h]]
    BY <2>1 DEF Accepted
  <2> HIDE DEF seq, onward
  <2>7. /\ new \in [Node -> [Node -> Nat]] /\ new[p.node1][p.node2] = p.seqNum
        /\ \A a, b \in Node : ~ (a = p.node1 /\ b = p.node2) => new[a][b] = seq[a][b]
    BY <2>2, <2>4
  <2> HIDE DEF new
  <2>8. Later(seq, new)
    <3>1. SUFFICES ASSUME NEW a \in Node, NEW b \in Node PROVE seq[a][b] <= new[a][b]
      BY DEF Later
    <3>2. CASE a = p.node1 /\ b = p.node2
      <4>1. seq[a][b] \in Nat /\ new[a][b] \in Nat /\ new[a][b] > seq[a][b]
        BY <2>4, <2>5, <2>7, <3>2
      <4>2. QED
        BY <4>1
    <3>3. CASE ~ (a = p.node1 /\ b = p.node2)
      <4>1. new[a][b] = seq[a][b] /\ seq[a][b] \in Nat
        BY <2>4, <2>7, <3>3
      <4>2. QED
        BY <4>1
    <3>4. QED
      BY <3>2, <3>3
  <2>9. ASSUME NEW h \in Own(n) PROVE InSequence(r.net[h], new)
    <3> DEFINE q == s.net[h]
    <3>1. q \in Seq(LSP) /\ InSequence(q, seq)
      BY <2>4 DEF Tidy, Orderly, Own, seq
    <3>2. r.net[h] \in {q, Append(q, onward)}
      BY <2>6 DEF Own
    <3> HIDE DEF q
    <3>3. InSequence(q, new)
      BY <2>4, <2>7, <2>8, <3>1, SequenceLater
    <3>4. onward.seqNum > seq[onward.node1][onward.node2]
      BY <2>3, <2>5
    <3>5. onward.seqNum <= new[onward.node1][onward.node2]
      BY <2>2, <2>3, <2>7
    <3>6. InSequence(Append(q, onward), new)
      BY <2>3, <2>4, <2>7, <2>8, <3>1, <3>4, <3>5, SequenceAppend
    <3>7. QED
      BY <3>2, <3>3, <3>6
  <2>10. LastWords(n, r, {}) /\ Current(n, r)
    BY <2>1 DEF Tidy, Orderly, LastWords, Current, Accepted
  <2>11. Alone(n, s, r)
    BY <2>6 DEF Alone, Own
  <2>12. QED
    BY <2>9, <2>10, <2>11 DEF Tidy, Orderly, new
<1>3. QED
  BY <1>1, <1>2

LEMMA SetCostTidy ==
  ASSUME said \in History, up \subseteq Link, NEW n \in Node, NEW s, Sound(n, s), Tidy(n, s),
         NEW m \in Node \ {n}, NEW c \in Nat \ {0}, NEW r, r = SetCost(n, s, m, c)
  PROVE  Tidy(n, r) /\ Alone(n, s, r)
<1>1. Typed(n, s) /\ IsState(s)
  BY DEF Sound, Known, Typed
<1>2. CASE m \notin s.conn
  <2>1. /\ r.conn = s.conn /\ r.cost = [s.cost EXCEPT ![m] = c] /\ r.adj = s.adj
        /\ r.seq = s.seq /\ r.fwd = s.fwd /\ r.net = s.net /\ r.said = s.said
    BY <1>1, <1>2, CostNoted
  <2>2. UpdateFwdTable(View(n, r)) = UpdateFwdTable(View(n, s))
    <3> DEFINE v == View(n, s)
               w == View(n, r)
    <3>1. IsFiniteSet(Nodes(v))
      BY <1>1, ViewOK, MonitorAssumption
    <3>2. /\ v.self = n /\ v.conn = s.conn /\ v.cost = s.cost /\ v.adj = s.adj
          /\ w.self = n /\ w.conn = s.conn /\ w.cost = r.cost /\ w.adj = s.adj
      BY <2>1 DEF View
    <3> HIDE DEF v, w
    <3>3. s.cost \in [Node -> Nat] /\ s.conn \subseteq Node
      BY <1>1, NeighborsAreOthers DEF Typed, CostTable
    <3>4. \A x \in v.conn : w.cost[x] = v.cost[x]
      BY <1>2, <2>1, <3>2, <3>3
    <3>5. UpdateFwdTable(w) = UpdateFwdTable(v)
      BY <3>1, <3>2, <3>4, UnusedCosts
    <3>6. QED
      BY <3>5 DEF v, w
  <2>3. QED
    BY <2>1, <2>2 DEF Tidy, Orderly, LastWords, Current, Alone
<1>3. CASE m \in s.conn
  <2> DEFINE news == [x \in {m} |-> c]
             to == s.conn \X {m}
  <2>1. PICK u : EntersCost(n, s, m, c, u)
    BY <1>3, NewCostIs
  <2> DEFINE f == Flood(n, u, news, to)
  <2>2. news \in [{m} -> SaidCost] /\ news[m] = c /\ {m} \in SUBSET Neighbors(n)
    BY <1>1, <1>3 DEF SaidCost, Typed
  <2>3. r = WithTable(n, f)
    BY <2>1 DEF EntersCost
  <2> HIDE DEF news, to, f
  <2>4. Orderly(n, u, {m}) /\ u.net = s.net
    BY <2>1 DEF EntersCost, Tidy, Orderly, LastWords
  <2>5. Typed(n, u) /\ u.net \in Network(Hist(n, u)) /\ \A x \in {m} : x \in u.conn
    BY <1>3, <2>1 DEF EntersCost, Known
  <2>6. Orderly(n, f, {}) /\ Alone(n, u, f)
    BY <2>2, <2>4, <2>5, FloodTidy DEF f
  <2>7. \A x \in {m} : u.adj[n][x] \in {news[x]} \cup Heard(Hist(n, u), u.seq, x, n)
    BY <2>1, <2>2 DEF EntersCost
  <2>8. Known(Hist(n, f), n, f, {})
    BY <2>1, <2>2, <2>7, FloodOK DEF EntersCost, f
  <2>9. Typed(n, f)
    BY <2>8 DEF Known
  <2>10. /\ r.fwd = UpdateFwdTable(View(n, r))
         /\ r.conn = f.conn /\ r.seq = f.seq /\ r.net = f.net /\ r.said = f.said
    BY <2>3, <2>9, WithTableOK
  <2>11. QED
    BY <2>4, <2>6, <2>10 DEF Tidy, Orderly, LastWords, Current, Alone
<1>4. QED
  BY <1>2, <1>3

LEMMA ForwardTidy ==
  ASSUME NEW n \in Node, NEW s, IsState(s), Tidy(n, s), NEW d, NEW r, r = Forward(n, s, d)
  PROVE  Tidy(n, r) /\ Alone(n, s, r)
<1> DEFINE ms == s.mesg \cup {[from |-> n, to |-> s.fwd[d].nexthop, dest |-> d]}
<1>1. r = s \/ r = [s EXCEPT !.mesg = ms]
  BY DEF Forward
<1> HIDE DEF ms
<1>2. /\ r.conn = s.conn /\ r.cost = s.cost /\ r.adj = s.adj /\ r.seq = s.seq
      /\ r.fwd = s.fwd /\ r.net = s.net /\ r.said = s.said
  BY <1>1 DEF IsState
<1>3. QED
  BY <1>2 DEF Tidy, Orderly, LastWords, Current, View, Alone

\* The invariant.
TidyInv == \A n \in Node : Tidy(n, State(n))

\* A turn keeps all nodes tidy: it sends on n's links only, and takes one packet at most.
LEMMA BecomeTidy ==
  ASSUME RouterInv, TidyInv, NEW n \in Node, NEW s, Typed(n, s), Tidy(n, s), Become(n, s),
         \A h \in Hop \ Own(n) : InSequence(s.net[h], seqNumMatrix[h[1]])
  PROVE  TidyInv'
<1>1. LsTypeOK /\ said \in History
  BY DEF RouterInv
<1>2. /\ connections \in [Node -> SUBSET Node] /\ costs \in [Node -> [Node -> Nat]]
      /\ adjMatrix \in [Node -> [Node -> [Node -> Int]]]
      /\ seqNumMatrix \in [Node -> [Node -> [Node -> Nat]]]
      /\ DOMAIN confirmedMap = Node /\ said \in [Node -> [Node -> Seq(SaidCost)]]
  BY <1>1 DEF LsTypeOK, MonitorTypeOK, History
<1>3. SUFFICES ASSUME NEW k \in Node PROVE Tidy(k, State(k)')
  BY DEF TidyInv, Tidy, Orderly, InSequence, LastWords, Current, View, Own
<1>4. CASE k = n
  <2>1. State(n)' = [conn |-> s.conn, cost |-> s.cost, adj |-> s.adj, seq |-> s.seq,
                     fwd |-> s.fwd, net |-> s.net, mesg |-> s.mesg, said |-> s.said,
                     floods |-> s.floods]
    BY <1>2 DEF State, Become
  <2>2. State(n)' = s
    BY <2>1 DEF Typed, IsState
  <2>3. QED
    BY <1>4, <2>2
<1>5. CASE k # n
  <2> DEFINE t == State(k)
             r == State(k)'
  <2>1. Tidy(k, t)
    BY DEF TidyInv
  <2>2. t.conn = connections[k] /\ t.cost = costs[k] /\ t.adj = adjMatrix[k]
        /\ t.seq = seqNumMatrix[k] /\ t.fwd = confirmedMap[k] /\ t.said = said[k]
    BY DEF State
  <2>3. r.conn = connections[k] /\ r.cost = costs[k] /\ r.adj = adjMatrix[k]
        /\ r.seq = seqNumMatrix[k] /\ r.fwd = confirmedMap[k] /\ r.said = said[k]
        /\ r.net = s.net
    BY <1>2, <1>5 DEF State, Become
  <2> HIDE DEF t, r
  <2>4. \A h \in Own(k) : InSequence(r.net[h], r.seq)
    BY <1>5, <2>3 DEF Own
  <2>5. LastWords(k, r, {}) /\ Current(k, r)
    BY <2>1, <2>2, <2>3 DEF Tidy, Orderly, LastWords, Current, View
  <2>6. QED
    BY <2>4, <2>5 DEF Tidy, Orderly, r
<1>6. QED
  BY <1>4, <1>5

LEMMA TurnKeepsTidy ==
  ASSUME RouterInv, TidyInv, NEW n \in Node, NEW s, Typed(n, s), Tidy(n, s), Become(n, s),
         Alone(n, State(n), s)
  PROVE  TidyInv'
<1>1. State(n).net = net
  BY DEF State
<1>2. ASSUME NEW h \in Hop \ Own(n) PROVE InSequence(s.net[h], seqNumMatrix[h[1]])
  <2>1. s.net[h] = net[h]
    BY <1>1 DEF Alone
  <2>2. h[1] \in Node /\ h \in Own(h[1])
    BY DEF Hop, Own
  <2>3. Tidy(h[1], State(h[1]))
    BY <2>2 DEF TidyInv
  <2>4. State(h[1]).net = net /\ State(h[1]).seq = seqNumMatrix[h[1]]
    BY DEF State
  <2>5. QED
    BY <2>1, <2>2, <2>3, <2>4 DEF Tidy, Orderly
<1>3. QED
  BY <1>2, BecomeTidy

LEMMA HearTidy ==
  ASSUME RouterInv, TidyInv, NEW n \in Node, NEW m \in Node, Hear(n, m)
  PROVE  TidyInv'
<1>1. up \subseteq Link /\ m \in Announcing(n)
  BY TurnStart DEF Hear
<1>2. m \in Neighbors(n)
  BY <1>1, NeighborsAreOthers DEF Announcing, Neighbors
<1>3. PICK s \in Turn(n, State(n), m) : Become(n, s)
  BY DEF Hear
<1>4. Sound(n, s)
  BY <1>2, TurnStart, TurnOK
<1>5. Tidy(n, s) /\ Alone(n, State(n), s)
  BY <1>2, TurnStart, TurnTidy DEF TidyInv
<1>6. QED
  BY <1>3, <1>4, <1>5, TurnKeepsTidy DEF Sound, Known

LEMMA CostCommandTidy ==
  ASSUME RouterInv, TidyInv, NEW n \in Node, NEW m \in Node, NEW c \in NewCosts,
         CostCommand(n, m, c)
  PROVE  TidyInv'
<1>1. m \in Node \ {n} /\ c \in Nat \ {0} /\ said \in History /\ up \subseteq Link
  BY TurnStart, LsAssumption, MonitorAssumption DEF CostCommand, PossibleCosts
<1>2. PICK t \in Turn(n, State(n), Manager) : Become(n, SetCost(n, t, m, c))
  BY DEF CostCommand
<1>3. Sound(n, t) /\ Tidy(n, t) /\ Alone(n, State(n), t)
  BY TurnStart, TurnOK, TurnTidy DEF TidyInv
<1> DEFINE s == SetCost(n, t, m, c)
<1>4. Become(n, s) /\ Sound(n, s) /\ Tidy(n, s) /\ Alone(n, t, s)
  BY <1>1, <1>2, <1>3, SetCostOK, SetCostTidy
<1> HIDE DEF s
<1>5. Alone(n, State(n), s)
  BY <1>3, <1>4 DEF Alone
<1>6. QED
  BY <1>4, <1>5, TurnKeepsTidy DEF Sound, Known

LEMMA SendCommandTidy ==
  ASSUME RouterInv, TidyInv, NEW n \in Node, NEW d \in Node, SendCommand(n, d)
  PROVE  TidyInv'
<1>1. PICK t \in Turn(n, State(n), Manager) : Become(n, Forward(n, t, d))
  BY DEF SendCommand
<1>2. Sound(n, t) /\ Tidy(n, t) /\ Alone(n, State(n), t) /\ up \subseteq Link
  BY TurnStart, TurnOK, TurnTidy DEF TidyInv
<1>t. IsState(t)
  BY <1>2 DEF Sound, Known, Typed
<1> DEFINE s == Forward(n, t, d)
<1>s. Become(n, s) /\ s = Forward(n, t, d)
  BY <1>1
<1> HIDE DEF s
<1>3. Sound(n, s) /\ Tidy(n, s) /\ Alone(n, t, s)
  BY <1>2, <1>t, <1>s, ForwardOK, ForwardTidy
<1>4. Alone(n, State(n), s)
  BY <1>2, <1>3 DEF Alone
<1>5. QED
  BY <1>s, <1>3, <1>4, TurnKeepsTidy DEF Sound, Known

LEMMA ReceiveForwardTidy ==
  ASSUME RouterInv, TidyInv, NEW p \in mesg, ReceiveForward(p)
  PROVE  TidyInv'
<1> DEFINE n == p.to
           g == Got(p)
<1>1. /\ n \in Node /\ p.dest \in Node /\ p.from \in Neighbors(n)
      /\ g = [conn |-> State(n).conn, cost |-> State(n).cost, adj |-> State(n).adj,
              seq |-> State(n).seq, fwd |-> State(n).fwd, net |-> net, mesg |-> mesg \ {p},
              said |-> State(n).said, floods |-> State(n).floods]
      /\ Sound(n, g) /\ g.floods = floods
  BY GotIs
<1>2. PICK t \in Turn(n, g, p.from) : Become(n, Forward(n, t, p.dest))
  BY DEF ReceiveForward, Got
<1> HIDE DEF n, g
<1>3. State(n).net = net /\ Tidy(n, State(n))
  BY <1>1 DEF TidyInv, State
<1>4. Tidy(n, g) /\ Alone(n, State(n), g)
  BY <1>1, <1>3 DEF Tidy, Orderly, LastWords, Current, View, Alone
<1>5. /\ said \in History /\ up \subseteq Link /\ floods \in 0 .. MaxFloods
      /\ connections[n] \in SUBSET Neighbors(n)
  BY <1>1, TurnStart
<1>6. Sound(n, t)
  BY <1>1, <1>2, <1>5, TurnOK
<1>7. Tidy(n, t) /\ Alone(n, g, t)
  BY <1>1, <1>2, <1>4, <1>5, TurnTidy
<1>8. IsState(t)
  BY <1>6 DEF Sound, Known, Typed
<1> DEFINE s == Forward(n, t, p.dest)
<1>9. Become(n, s) /\ s = Forward(n, t, p.dest)
  BY <1>2
<1> HIDE DEF s
<1>10. Sound(n, s) /\ Tidy(n, s) /\ Alone(n, t, s)
  BY <1>1, <1>5, <1>6, <1>7, <1>8, <1>9, ForwardOK, ForwardTidy
<1>11. Alone(n, State(n), s)
  BY <1>4, <1>7, <1>10 DEF Alone
<1>12. QED
  BY <1>1, <1>9, <1>10, <1>11, TurnKeepsTidy DEF Sound, Known

\* The node a packet is taken from has it no longer under way.
LEMMA TailInSequence ==
  ASSUME RouterInv, TidyInv, NEW h \in Hop, net[h] # <<>>, NEW q,
         q = [net EXCEPT ![h] = Tail(@)]
  PROVE  \A i \in Hop : InSequence(q[i], seqNumMatrix[i[1]])
<1>1. net \in [Hop -> Seq(LSP)]
  BY DEF RouterInv, LsTypeOK
<1>2. ASSUME NEW i \in Hop PROVE InSequence(net[i], seqNumMatrix[i[1]])
  <2>1. i[1] \in Node /\ i \in Own(i[1])
    BY DEF Hop, Own
  <2>2. Tidy(i[1], State(i[1]))
    BY <2>1 DEF TidyInv
  <2>3. State(i[1]).net = net /\ State(i[1]).seq = seqNumMatrix[i[1]]
    BY DEF State
  <2>4. QED
    BY <2>1, <2>2, <2>3 DEF Tidy, Orderly
<1>3. InSequence(Tail(net[h]), seqNumMatrix[h[1]])
  BY <1>1, <1>2, SequenceTail
<1>4. QED
  BY <1>1, <1>2, <1>3

LEMMA TakenTidy ==
  ASSUME RouterInv, TidyInv, NEW n \in Node, NEW m \in Node, net[<<m, n>>] # <<>>
  PROVE  /\ Tidy(n, Taken(n, m))
         /\ \A h \in Hop : InSequence(Taken(n, m).net[h], seqNumMatrix[h[1]])
<1> DEFINE h == <<m, n>>
           q == [net EXCEPT ![h] = Tail(@)]
           g == Taken(n, m)
<1>1. h \in Hop
  BY DEF Hop
<1>2. g = [conn |-> State(n).conn, cost |-> State(n).cost, adj |-> State(n).adj,
           seq |-> State(n).seq, fwd |-> State(n).fwd, net |-> q, mesg |-> mesg,
           said |-> State(n).said, floods |-> State(n).floods]
  BY TakenIs
<1>3. \A i \in Hop : InSequence(q[i], seqNumMatrix[i[1]])
  BY <1>1, TailInSequence
<1> HIDE DEF q, g
<1>4. State(n).seq = seqNumMatrix[n] /\ Tidy(n, State(n))
  BY DEF TidyInv, State
<1>5. Tidy(n, g)
  BY <1>2, <1>3, <1>4 DEF Tidy, Orderly, LastWords, Current, View, Own
<1>6. QED
  BY <1>2, <1>3, <1>5 DEF g

LEMMA ReceiveLSPTidy ==
  ASSUME RouterInv, TidyInv, NEW n \in Node, NEW m \in Node, ReceiveLSP(n, m)
  PROVE  TidyInv'
<1> DEFINE p == Head(net[<<m, n>>])
           g == Taken(n, m)
<1>1. net[<<m, n>>] # <<>> /\ up \subseteq Link /\ said \in History
  BY TurnStart DEF ReceiveLSP
<1>2. PICK t \in Turn(n, g, m) : Become(n, Accept(n, t, p, m))
  BY DEF ReceiveLSP, Taken
<1>3. Sound(n, g) /\ m \in Neighbors(n) /\ Sound(n, t) /\ p \in Authentic(Hist(n, t))
  BY <1>1, TakenIs
<1>4. Tidy(n, g) /\ \A h \in Hop : InSequence(g.net[h], seqNumMatrix[h[1]])
  BY <1>1, TakenTidy
<1> HIDE DEF p, g
<1>5. Tidy(n, t) /\ Alone(n, g, t)
  BY <1>1, <1>2, <1>3, <1>4, TurnStart, TurnTidy
<1> DEFINE s == Accept(n, t, p, m)
<1>6. Become(n, s) /\ s = Accept(n, t, p, m)
  BY <1>2
<1> HIDE DEF s
<1>7. Sound(n, s) /\ Tidy(n, s) /\ Alone(n, t, s)
  BY <1>1, <1>3, <1>5, <1>6, AcceptOK, AcceptTidy
<1>8. ASSUME NEW i \in Hop \ Own(n) PROVE InSequence(s.net[i], seqNumMatrix[i[1]])
  <2>1. s.net[i] = g.net[i]
    BY <1>5, <1>7 DEF Alone
  <2>2. QED
    BY <1>4, <2>1
<1>9. QED
  BY <1>6, <1>7, <1>8, BecomeTidy DEF Sound, Known

LEMMA LoseLSPTidy ==
  ASSUME RouterInv, TidyInv, NEW h \in Hop, LoseLSP(h)
  PROVE  TidyInv'
<1>1. \A i \in Hop : InSequence(net'[i], seqNumMatrix[i[1]])
  BY TailInSequence DEF LoseLSP
<1>2. ASSUME NEW k \in Node PROVE Tidy(k, State(k)')
  <2> DEFINE s == State(k)
             r == State(k)'
  <2>1. /\ r.conn = s.conn /\ r.cost = s.cost /\ r.adj = s.adj /\ r.seq = s.seq
        /\ r.fwd = s.fwd /\ r.said = s.said /\ r.net = net' /\ s.seq = seqNumMatrix[k]
    BY DEF State, LoseLSP, monitorVars
  <2>2. Tidy(k, s)
    BY DEF TidyInv
  <2> HIDE DEF s, r
  <2>3. Tidy(k, r)
    BY <1>1, <2>1, <2>2 DEF Tidy, Orderly, LastWords, Current, View, Own
  <2>4. QED
    BY <2>3 DEF r
<1>3. QED
  BY <1>2 DEF TidyInv, Tidy, Orderly, InSequence, LastWords, Current, View, Own

LEMMA TidyInit == Init => TidyInv
<1>1. SUFFICES ASSUME Init, NEW n \in Node PROVE Tidy(n, State(n))
  BY DEF TidyInv
<1> DEFINE s == State(n)
<1>2. /\ s.fwd = <<>> /\ \A x \in Node : s.said[x] = <<>>
      /\ \A h \in Hop : s.net[h] = <<>>
  BY <1>1 DEF Init, LsInit, State
<1> HIDE DEF s
<1>3. \A seq : InSequence(<<>>, seq)
  BY DEF InSequence
<1>4. Tidy(n, s)
  BY <1>2, <1>3 DEF Tidy, Orderly, LastWords, Current, Own
<1>5. QED
  BY <1>4 DEF s

LEMMA TidyStep == RouterInv /\ TidyInv /\ [Next]_vars => TidyInv'
<1>1. SUFFICES ASSUME RouterInv, TidyInv, [Next]_vars PROVE TidyInv'
  OBVIOUS
<1>2. CASE \E n, m \in Node : Hear(n, m)
  BY <1>1, <1>2, HearTidy
<1>3. CASE \E n, m \in Node : ReceiveLSP(n, m)
  BY <1>1, <1>3, ReceiveLSPTidy
<1>4. CASE \E n, m \in Node, c \in NewCosts : CostCommand(n, m, c)
  BY <1>1, <1>4, CostCommandTidy
<1>5. CASE \E n, d \in Node : SendCommand(n, d)
  BY <1>1, <1>5, SendCommandTidy
<1>6. CASE \E p \in mesg : ReceiveForward(p)
  BY <1>1, <1>6, ReceiveForwardTidy
<1>7. CASE \E h \in Hop : LoseLSP(h)
  BY <1>1, <1>7, LoseLSPTidy
<1>8. CASE UNCHANGED vars \/ \E l \in Link : LinkChange(l) /\ UNCHANGED lsVars
  <2>1. UNCHANGED <<connections, costs, lsVars>>
    BY <1>8 DEF vars, monitorVars, LinkChange
  <2>2. \A k \in Node : State(k)' = State(k)
    BY <2>1 DEF State, lsVars
  <2>3. \A k \in Node : Tidy(k, State(k)')
    BY <1>1, <2>2 DEF TidyInv
  <2>4. QED
    BY <2>3 DEF TidyInv, Tidy, Orderly, InSequence, LastWords, Current, View, Own
<1>9. QED
  BY <1>1, <1>2, <1>3, <1>4, <1>5, <1>6, <1>7, <1>8 DEF Next

LEMMA Tidiness == Spec => []TidyInv
  BY TidyInit, TidyStep, Invariance, PTL DEF Spec

\* Whatever cycles the floods go round, and whatever is lost: no packet of a link's end
\* crosses a hop twice, and none gets ahead of what its sender knows.
THEOREM PacketsInOrder == Spec => []FloodsInOrder
<1>1. TidyInv => FloodsInOrder
  <2>1. SUFFICES ASSUME TidyInv, NEW h \in Hop PROVE InSequence(net[h], seqNumMatrix[h[1]])
    BY DEF FloodsInOrder, InSequence
  <2>2. h[1] \in Node /\ h \in Own(h[1])
    BY DEF Hop, Own
  <2>3. Tidy(h[1], State(h[1]))
    BY <2>1, <2>2 DEF TidyInv
  <2>4. State(h[1]).net = net /\ State(h[1]).seq = seqNumMatrix[h[1]]
    BY DEF State
  <2>5. QED
    BY <2>2, <2>3, <2>4 DEF Tidy, Orderly
<1>2. QED
  BY <1>1, Tidiness, PTL

\* A node takes up a link of its own again in one way only: by the other end's word, and
\* if that is the last the other end has said then that end is still connected.
THEOREM ForgettingIsMissing == Spec => []ForgottenMeansMissed
<1>1. RouterInv /\ TidyInv => ForgottenMeansMissed
  <2>1. SUFFICES ASSUME RouterInv, TidyInv, NEW a \in Node, NEW b \in Node, a # b,
                        b \notin connections[a], adjMatrix[a][a][b] > 0,
                        a \notin connections[b], ~ (seqNumMatrix[a][b][a] < Len(said[b][a]))
                 PROVE  FALSE
    BY DEF ForgottenMeansMissed
  <2>2. /\ Known(said, a, State(a), {}) /\ said \in History
        /\ Tidy(a, State(a)) /\ Tidy(b, State(b))
    BY <2>1, HistIsSaid DEF RouterInv, Sound, TidyInv
  <2>3. /\ State(a).conn = connections[a] /\ State(b).conn = connections[b]
        /\ State(a).adj = adjMatrix[a] /\ State(a).seq = seqNumMatrix[a]
        /\ State(a).said = said[a] /\ State(b).said = said[b]
    BY DEF State
  <2>4. Explains(said, seqNumMatrix[a], a, b, adjMatrix[a][a][b])
    BY <2>1, <2>2, <2>3 DEF Known, ExplainedBut
  <2>5. /\ seqNumMatrix[a] \in [Node -> [Node -> Nat]] /\ seqNumMatrix[a][a][b] = Len(said[a][b])
        /\ seqNumMatrix[a][b][a] <= Len(said[b][a])
    BY <2>1, <2>2, <2>3 DEF Known, Typed, Numbered
  <2>6. said[a][b] \in Seq(SaidCost) /\ said[b][a] \in Seq(SaidCost)
    BY <2>2 DEF History
  <2>7. seqNumMatrix[a][b][a] = Len(said[b][a])
    <3>1. seqNumMatrix[a][b][a] \in Nat /\ Len(said[b][a]) \in Nat
      BY <2>5, <2>6
    <3>2. QED
      BY <2>1, <2>5, <3>1
  <2>8. ASSUME NEW x \in Node, NEW y \in Node, x # y, y \notin connections[x],
               Tidy(x, State(x)), State(x).conn = connections[x], State(x).said = said[x],
               said[x][y] # <<>>
        PROVE  said[x][y][Len(said[x][y])] = Down
    BY <2>8 DEF Tidy, Orderly, LastWords
  <2>9. Heard(said, seqNumMatrix[a], a, b) \subseteq {Down}
    <3>1. CASE said[a][b] = <<>>
      <4>1. Len(said[a][b]) = 0
        BY <3>1
      <4>2. QED
        BY <2>5, <4>1 DEF Heard
    <3>2. CASE said[a][b] # <<>>
      BY <2>1, <2>2, <2>3, <2>5, <2>8, <3>2 DEF Heard
    <3>3. QED
      BY <3>1, <3>2
  <2>10. Heard(said, seqNumMatrix[a], b, a) \subseteq {Down}
    <3>1. CASE said[b][a] = <<>>
      <4>1. Len(said[b][a]) = 0
        BY <3>1
      <4>2. QED
        BY <2>7, <4>1 DEF Heard
    <3>2. CASE said[b][a] # <<>>
      BY <2>1, <2>2, <2>3, <2>7, <2>8, <3>2 DEF Heard
    <3>3. QED
      BY <3>1, <3>2
  <2>11. adjMatrix[a][a][b] \in {0, Down}
    BY <2>4, <2>9, <2>10 DEF Explains
  <2>12. QED
    BY <2>1, <2>11 DEF Down
<1>2. QED
  BY <1>1, Invariance, Tidiness, PTL

-----------------------------------------------------------------------------
(* A settled network is right about itself, forgotten links apart.          *)

LEMMA LinksGoBothWays == Spec => []BothWays
<1>1. Init => BothWays
  BY MonitorAssumption DEF Init, MonitorInit, BothWays
<1>2. BothWays /\ [Next]_vars => BothWays'
  <2>1. SUFFICES ASSUME BothWays, [Next]_vars PROVE BothWays'
    OBVIOUS
  <2>2. CASE up' = up
    BY <2>1, <2>2 DEF BothWays
  <2>3. ASSUME NEW l \in Link, LinkChange(l) PROVE BothWays'
    BY <2>1, <2>3, LinkChangeBothWays
  <2>4. QED
    BY <2>1, <2>2, <2>3
      DEF Next, Hear, ReceiveLSP, CostCommand, SendCommand, ReceiveForward, LoseLSP,
          vars, monitorVars
<1>3. QED
  BY <1>1, <1>2, PTL DEF Spec

\* What its tables tell of n's own links.
LEMMA OwnTables ==
  ASSUME RouterInv, NEW n \in Node
  PROVE  /\ connections[n] \subseteq Node \ {n}
         /\ costs[n] \in [Node -> Nat] /\ \A m \in Node \ {n} : costs[n][m] > 0
         /\ adjMatrix[n] \in Matrix
         /\ \A a, b \in Node : a # b /\ seqNumMatrix[n][a][b] = 0 /\ seqNumMatrix[n][b][a] = 0 =>
              adjMatrix[n][a][b] = 0
         /\ \A a, b \in Node : a # b /\ seqNumMatrix[n][a][b] # 0 => <<a, b>> \in Link
         /\ IsView(View(n, State(n))) /\ Nodes(View(n, State(n))) = Node
<1>1. said \in History /\ Sound(n, State(n))
  BY DEF RouterInv
<1>2. Known(said, n, State(n), {}) /\ Typed(n, State(n))
  BY <1>1, HistIsSaid DEF Sound, Known
<1>3. State(n).seq = seqNumMatrix[n] /\ State(n).adj = adjMatrix[n]
      /\ State(n).conn = connections[n] /\ State(n).cost = costs[n]
  BY DEF State
<1>4. connections[n] \subseteq Node \ {n} /\ costs[n] \in CostTable(n) /\ adjMatrix[n] \in Matrix
      /\ seqNumMatrix[n] \in [Node -> [Node -> Nat]]
  BY <1>2, <1>3, NeighborsAreOthers DEF Typed
<1>5. ASSUME NEW a \in Node, NEW b \in Node, a # b,
             seqNumMatrix[n][a][b] = 0, seqNumMatrix[n][b][a] = 0
      PROVE  adjMatrix[n][a][b] = 0
  <2>1. Explains(said, seqNumMatrix[n], a, b, adjMatrix[n][a][b])
    BY <1>2, <1>3, <1>5 DEF Known, ExplainedBut
  <2>2. QED
    BY <2>1, <1>5 DEF Explains, Heard
<1>6. ASSUME NEW a \in Node, NEW b \in Node, a # b, seqNumMatrix[n][a][b] # 0
      PROVE  <<a, b>> \in Link
  <2>1. seqNumMatrix[n][a][b] \in Nat /\ seqNumMatrix[n][a][b] <= Len(said[a][b])
    BY <1>2, <1>3, <1>4, <1>6 DEF Known, Numbered
  <2>2. said[a][b] # <<>>
    <3>1. SUFFICES ASSUME said[a][b] = <<>> PROVE FALSE
      OBVIOUS
    <3>2. Len(said[a][b]) = 0
      BY <3>1
    <3>3. QED
      BY <2>1, <3>2, <1>6
  <2>3. QED
    BY <2>2, <1>1 DEF History
<1>7. IsView(View(n, State(n))) /\ Nodes(View(n, State(n))) = Node
  BY <1>2, ViewOK
<1>8. QED
  BY <1>4, <1>5, <1>6, <1>7 DEF CostTable

\* A node near enough knows what one floods of its links.
LEMMA NewsKnown ==
  ASSUME NothingNew, NEW a \in Hearing, NEW e \in Node \ {a}, <<a, e>> \in Within[TTL - 1],
         NEW x \in Node \ {a}, x \in connections[a] \/ adjMatrix[a][a][x] = Down
  PROVE  Knows(e, a, x, IF x \in connections[a] THEN costs[a][x] ELSE Down)
<1> DEFINE news == OwnLinks(a, State(a))
<1>1. x \in DOMAIN news /\ news[x] = IF x \in connections[a] THEN costs[a][x] ELSE Down
  BY DEF OwnLinks, State
<1> HIDE DEF news
<1>2. \A d \in Node \ {a}, y \in DOMAIN news :
        <<a, d>> \in Within[TTL - 1] => Knows(d, a, y, news[y])
  BY DEF NothingNew, news
<1>3. Knows(e, a, x, news[x])
  BY <1>1, <1>2
<1>4. QED
  BY <1>1, <1>3

\* What n believes of the links of a node p in its reach, its own included.
LEMMA BeliefsAreTrue ==
  ASSUME RouterInv, BothWays, Settled, NoLinkForgotten, EveryoneInReach,
         NEW n \in Hearing, NEW p \in Hearing, <<p, n>> \in Within[TTL - 1], NEW d \in Node
  PROVE  IF <<p, d>> \in up THEN adjMatrix[n][p][d] = costs[p][d] ELSE adjMatrix[n][p][d] <= 0
<1>1. n \in Node /\ p \in Node /\ n \in Hearing
  BY DEF Hearing
<1>2. \A a \in Hearing : connections[a] = Announcing(a)
  BY DEF Settled
<1>3. ASSUME NEW a \in Node, NEW b \in Node, <<a, b>> \in up
      PROVE a # b /\ b \in Announcing(a) /\ a \in Announcing(b) /\ a \in Hearing /\ b \in Hearing
  BY <1>3, MonitorAssumption DEF BothWays, Announcing, Hearing
<1>4. ASSUME NEW a \in Hearing, NEW e \in Node \ {a}, <<a, e>> \in Within[TTL - 1],
             NEW x \in Node \ {a}, x \in connections[a] \/ adjMatrix[a][a][x] = Down
      PROVE  LET c == IF x \in connections[a] THEN costs[a][x] ELSE Down IN
             adjMatrix[e][a][x] = c /\ (e = x /\ c > 0 => costs[e][a] = c)
  <2>1. Knows(e, a, x, IF x \in connections[a] THEN costs[a][x] ELSE Down)
    BY <1>4, NewsKnown DEF Settled
  <2>2. QED
    BY <1>4, <2>1 DEF Knows
<1>5. adjMatrix[n] \in Matrix
  BY <1>1, OwnTables
<1>6. CASE <<p, d>> \in up /\ p # n
  <2>1. d \in connections[p] /\ d # p
    BY <1>1, <1>2, <1>3, <1>6
  <2>2. adjMatrix[n][p][d] = costs[p][d]
    BY <1>1, <1>4, <1>6, <2>1
  <2>3. QED
    BY <1>6, <2>2
<1>7. CASE <<p, d>> \in up /\ p = n
  <2>1. d # n /\ d \in Hearing /\ n \in connections[d] /\ n \in Announcing(d)
    BY <1>1, <1>2, <1>3, <1>7
  <2>2. <<d, n>> \in Within[TTL - 1]
    BY <1>1, <2>1 DEF EveryoneInReach
  <2>3. adjMatrix[n][d][n] = costs[d][n] /\ costs[n][d] = costs[d][n]
    <3>1. d \in Node \ {n} /\ costs[d][n] > 0
      BY <1>1, <2>1, OwnTables
    <3>2. QED
      BY <1>1, <1>4, <2>1, <2>2, <3>1
  <2>4. adjMatrix[n][n][d] = adjMatrix[n][d][n]
    BY <1>1, <1>5 DEF Matrix
  <2>5. QED
    BY <1>7, <2>3, <2>4
<1>8. CASE <<p, d>> \notin up /\ p # d
  <2>1. d \notin connections[p]
    BY <1>1, <1>2, <1>3, <1>8 DEF Announcing
  <2>2. CASE adjMatrix[p][p][d] = Down
    <3>1. CASE p = n
      BY <3>1, <2>2, <1>8 DEF Down
    <3>2. CASE p # n
      <4>1. adjMatrix[n][p][d] = Down
        BY <1>1, <1>4, <1>8, <2>1, <2>2, <3>2
      <4>2. QED
        BY <4>1, <1>8 DEF Down
    <3>3. QED
      BY <3>1, <3>2
  <2>3. CASE adjMatrix[p][p][d] # Down
    <3>1. seqNumMatrix[n][p][d] = 0 /\ seqNumMatrix[n][d][p] = 0
      BY <1>1, <1>8, <2>3 DEF NoLinkForgotten
    <3>2. adjMatrix[n][p][d] = 0
      BY <1>1, <1>8, <3>1, OwnTables
    <3>3. QED
      BY <3>2, <1>8
  <2>4. QED
    BY <2>2, <2>3
<1>9. CASE p = d
  <2>1. adjMatrix[n][p][d] = 0 /\ <<p, d>> \notin up
    BY <1>1, <1>3, <1>5, <1>9 DEF Matrix
  <2>2. QED
    BY <2>1
<1>10. QED
  BY <1>6, <1>7, <1>8, <1>9

\* So its table is that of the network as it is.
LEMMA SettledTable ==
  ASSUME RouterInv, BothWays, Settled, NoLinkForgotten, EveryoneInReach, NEW n \in Hearing
  PROVE  /\ IsShortest(TrueView(n), confirmedMap[n])
         /\ TiesBroken(TrueView(n), confirmedMap[n])
<1> DEFINE v == View(n, State(n))
           w == TrueView(n)
           R == {p \in Hearing : <<p, n>> \in Within[TTL - 1]}
           table == confirmedMap[n]
<1>1. n \in Node /\ n \in R
  BY DEF Hearing, EveryoneInReach
<1>2. connections[n] = Announcing(n) /\ connections[n] # {}
  BY DEF Settled, Hearing
<1>3. /\ v.self = n /\ v.conn = connections[n] /\ v.cost = costs[n] /\ v.adj = adjMatrix[n]
      /\ w.self = n /\ w.conn = connections[n] /\ w.cost = costs[n]
      /\ w.adj = [a \in Node |-> [b \in Node |-> IF <<a, b>> \in up THEN costs[a][b] ELSE 0]]
  BY <1>2 DEF View, State, TrueView
<1>4. IsView(v) /\ Nodes(v) = Node
  BY <1>1, OwnTables
<1>5. Nodes(w) = Node
  BY <1>3 DEF Nodes
<1>6. GoodTable(n, State(n)) /\ State(n).fwd = table /\ State(n).conn = connections[n]
  BY <1>1 DEF RouterInv, Sound, State
<1>7. /\ IsShortest(v, table) /\ (OwnLinksAgree(v) => TiesBroken(v, table))
      /\ \E D \in SUBSET Node : table \in [D -> Route]
  BY <1>2, <1>6 DEF GoodTable
<1> HIDE DEF v, w, R, table
<1>8. DOMAIN table \subseteq Node /\ \A d \in DOMAIN table : table[d].cost \in Nat
  BY <1>7 DEF Route
<1>9. ASSUME NEW p \in R, NEW d \in Node
      PROVE  IF <<p, d>> \in up THEN adjMatrix[n][p][d] = costs[p][d] ELSE adjMatrix[n][p][d] <= 0
  BY <1>1, BeliefsAreTrue DEF R
<1>10. ASSUME NEW p \in R, NEW d \in Node, <<p, d>> \in up PROVE d \in R
  <2>1. p \in Node /\ <<d, p>> \in up /\ <<p, n>> \in Within[TTL - 1]
    BY <1>10 DEF BothWays, R, Hearing
  <2>2. d \in Hearing /\ p \in Announcing(d)
    BY <1>10, <2>1 DEF Hearing, Announcing
  <2>3. QED
    BY <1>1, <2>1, <2>2 DEF EveryoneInReach, R
<1>11. ASSUME NEW d \in Node PROVE d \in connections[n] <=> <<n, d>> \in up
  BY <1>1, <1>2 DEF Announcing, BothWays
<1>12. \A p \in Node : adjMatrix[n][p] \in [Node -> Int] /\ costs[n] \in [Node -> Nat]
  BY <1>1, OwnTables DEF Matrix
<1>13. ASSUME NEW p \in R, NEW d \in Node
       PROVE  /\ Weight(v, p, d) > 0 => d \in R
              /\ Weight(v, p, d) > 0 <=> Weight(w, p, d) > 0
              /\ Weight(v, p, d) > 0 => Weight(v, p, d) = Weight(w, p, d)
  <2>1. p \in Node
    BY DEF R, Hearing
  <2>2. CASE p = n
    <3>1. Weight(v, p, d) = Weight(w, p, d)
      BY <1>3, <2>2 DEF Weight
    <3>2. Weight(v, p, d) > 0 => d \in connections[n]
      BY <1>3, <2>2 DEF Weight
    <3>3. QED
      BY <1>10, <1>11, <2>2, <3>1, <3>2
  <2>3. CASE p # n
    <3>1. Weight(v, p, d) = adjMatrix[n][p][d] /\ adjMatrix[n][p][d] \in Int
          /\ Weight(w, p, d) = IF <<p, d>> \in up THEN costs[p][d] ELSE 0
      BY <1>3, <1>12, <2>1, <2>3 DEF Weight
    <3>2. CASE <<p, d>> \in up
      BY <1>9, <1>10, <3>1, <3>2
    <3>3. CASE <<p, d>> \notin up
      <4>1. adjMatrix[n][p][d] <= 0
        BY <1>9, <3>3
      <4>2. QED
        BY <3>1, <3>3, <4>1
    <3>4. QED
      BY <3>2, <3>3
  <2>4. QED
    BY <2>2, <2>3
<1>14. R \in SUBSET Node
  BY DEF R, Hearing
<1>15. IsShortest(w, table) /\ (TiesBroken(v, table) => TiesBroken(w, table))
  <2>1. /\ v.self = w.self /\ Nodes(v) = Nodes(w) /\ IsView(v) /\ IsShortest(v, table)
        /\ R \in SUBSET Nodes(v) /\ v.self \in R
        /\ DOMAIN table \subseteq Nodes(v) /\ \A d \in DOMAIN table : table[d].cost \in Nat
    BY <1>1, <1>3, <1>4, <1>5, <1>7, <1>8, <1>14
  <2>2. \A p \in R, d \in Nodes(v) : Weight(v, p, d) > 0 => d \in R
    BY <1>4, <1>13
  <2>3. \A p \in R, d \in Nodes(v) :
          /\ Weight(v, p, d) > 0 <=> Weight(w, p, d) > 0
          /\ Weight(v, p, d) > 0 => Weight(v, p, d) = Weight(w, p, d)
    BY <1>4, <1>13
  <2>4. QED
    BY <2>1, <2>2, <2>3, OnlyReachMatters
<1>16. OwnLinksAgree(v)
  <2>1. SUFFICES ASSUME NEW m \in Node
                 PROVE  IF m \in connections[n] THEN adjMatrix[n][m][n] = costs[n][m]
                        ELSE adjMatrix[n][m][n] <= 0
    BY <1>3, <1>4 DEF OwnLinksAgree
  <2>2. adjMatrix[n][m][n] = adjMatrix[n][n][m]
    BY <1>1, OwnTables DEF Matrix
  <2>3. QED
    BY <1>1, <1>9, <1>11, <2>2
<1>17. QED
  BY <1>7, <1>15, <1>16 DEF w, table

LEMMA SettledIsRight ==
  RouterInv /\ BothWays /\ NoLinkForgotten /\ EveryoneInReach => SettledIsConverged
  BY SettledTable DEF SettledIsConverged, Converged

\* However floods, failures and losses were interleaved: once no flood has anything to
\* tell, every node routes by the shortest paths of the network as it is, unless an end of
\* a failed link let its news be overwritten.
THEOREM OnlyForgettingMisleads == Spec => []OnlyForgottenLinksMislead
<1>1. RouterInv /\ BothWays => OnlyForgottenLinksMislead
  BY SettledIsRight DEF OnlyForgottenLinksMislead
<1>2. QED
  BY <1>1, Invariance, LinksGoBothWays, PTL

\* In particular, whatever has failed before and whatever the nodes then forgot, when all
\* the links there can be work again the network settles on nothing but the truth.
THEOREM RepairedIsConverged ==
  Spec => [](up = Link /\ EveryoneInReach => SettledIsConverged)
<1>1. RouterInv /\ BothWays /\ up = Link => NoLinkForgotten
  <2>1. SUFFICES ASSUME RouterInv, up = Link, NEW a \in Hearing, NEW b \in Node \ {a},
                        <<a, b>> \notin up, NEW n \in Hearing
                 PROVE  seqNumMatrix[n][a][b] = 0 /\ seqNumMatrix[n][b][a] = 0
    BY DEF NoLinkForgotten
  <2>2. a \in Node /\ n \in Node
    BY DEF Hearing
  <2>3. <<a, b>> \notin Link /\ <<b, a>> \notin Link
    BY <2>1, MonitorAssumption
  <2>4. QED
    BY <2>1, <2>2, <2>3, OwnTables
<1>2. RouterInv /\ BothWays => (up = Link /\ EveryoneInReach => SettledIsConverged)
  BY <1>1, SettledIsRight
<1>3. QED
  BY <1>2, Invariance, LinksGoBothWays, PTL

-----------------------------------------------------------------------------
(* Reach: Within is what its recursive definition says. There is such a     *)
(* function, since that is how the paths of at most k links grow.           *)

\* A path of j links from a to d, a step of it to somebody the node before hears.
Leads(a, d, j, p) ==
  /\ p \in [0 .. j -> Node] /\ p[0] = a /\ p[j] = d
  /\ \A i \in 0 .. j - 1 : p[i + 1] \in Announcing(p[i])

EndsWithin(k) == {h \in Hop : \E j \in 0 .. k : \E p : Leads(h[1], h[2], j, p)}

LEMMA EndsHere == EndsWithin(0) = {<<n, n>> : n \in Node}
<1>1. ASSUME NEW h \in EndsWithin(0) PROVE h \in {<<n, n>> : n \in Node}
  <2>j. PICK j \in 0 .. 0 : \E p : Leads(h[1], h[2], j, p)
    BY DEF EndsWithin
  <2>1. PICK p : Leads(h[1], h[2], j, p)
    BY <2>j
  <2>2. h[1] = h[2] /\ h \in Node \X Node
    BY <2>1 DEF Leads, EndsWithin, Hop
  <2>3. QED
    BY <2>2
<1>2. ASSUME NEW n \in Node PROVE <<n, n>> \in EndsWithin(0)
  <2> DEFINE p == [i \in 0 .. 0 |-> n]
             h == <<n, n>>
  <2>1. Leads(n, n, 0, p) /\ p \in [0 .. 0 -> Node]
    BY DEF Leads
  <2> HIDE DEF p
  <2>2. h \in Hop /\ h[1] = n /\ h[2] = n /\ 0 \in 0 .. 0
    BY DEF Hop
  <2>3. QED
    BY <2>1, <2>2 DEF EndsWithin
<1>3. QED
  BY <1>1, <1>2

LEMMA EndsGrow ==
  ASSUME NEW k \in Nat \ {0}
  PROVE  EndsWithin(k) = EndsWithin(k - 1) \cup
           {h \in Hop : \E m \in Announcing(h[1]) : <<m, h[2]>> \in EndsWithin(k - 1)}
<1>1. ASSUME NEW h \in EndsWithin(k), h \notin EndsWithin(k - 1)
      PROVE  \E m \in Announcing(h[1]) : <<m, h[2]>> \in EndsWithin(k - 1)
  <2>j. PICK j \in 0 .. k : \E p : Leads(h[1], h[2], j, p)
    BY DEF EndsWithin
  <2>1. PICK p : Leads(h[1], h[2], j, p)
    BY <2>j
  <2>2. j = k /\ k - 1 \in Nat
    BY <1>1, <2>1 DEF EndsWithin
  <2> DEFINE q == [i \in 0 .. k - 1 |-> p[i + 1]]
             m == p[1]
             g == <<m, h[2]>>
  <2>3. m \in Announcing(h[1]) /\ m \in Node /\ h[2] \in Node
    BY <2>1, <2>2 DEF Leads, EndsWithin, Hop
  <2>4. q \in [0 .. k - 1 -> Node] /\ q[0] = m /\ q[k - 1] = h[2]
    BY <2>1, <2>2 DEF Leads
  <2>5. ASSUME NEW i \in 0 .. (k - 1) - 1 PROVE q[i + 1] \in Announcing(q[i])
    <3>1. i + 1 \in 0 .. k - 1 /\ i \in 0 .. k - 1
      BY <2>2
    <3>2. q[i] = p[i + 1] /\ q[i + 1] = p[(i + 1) + 1]
      BY <3>1
    <3>3. QED
      BY <2>1, <2>2, <3>1, <3>2 DEF Leads
  <2> HIDE DEF q, m
  <2>6. Leads(m, h[2], k - 1, q)
    BY <2>4, <2>5 DEF Leads
  <2>7. g \in Hop /\ g[1] = m /\ g[2] = h[2] /\ k - 1 \in 0 .. k - 1
    BY <2>2, <2>3 DEF Hop
  <2>8. g \in EndsWithin(k - 1)
    BY <2>4, <2>6, <2>7 DEF EndsWithin
  <2>9. QED
    BY <2>3, <2>8
<1>2. ASSUME NEW h \in Hop, NEW m \in Announcing(h[1]), <<m, h[2]>> \in EndsWithin(k - 1)
      PROVE  h \in EndsWithin(k)
  <2>j. PICK j \in 0 .. k - 1 : \E p : Leads(m, h[2], j, p)
    BY <1>2 DEF EndsWithin
  <2>1. PICK p : Leads(m, h[2], j, p)
    BY <2>j
  <2> DEFINE q == [i \in 0 .. j + 1 |-> IF i = 0 THEN h[1] ELSE p[i - 1]]
  <2>2. j \in Nat /\ j + 1 \in 0 .. k /\ h[1] \in Node
    BY DEF Hop
  <2>3. q \in [0 .. j + 1 -> Node] /\ q[0] = h[1] /\ q[j + 1] = h[2]
    BY <2>1, <2>2 DEF Leads
  <2>4. ASSUME NEW i \in 0 .. (j + 1) - 1 PROVE q[i + 1] \in Announcing(q[i])
    <3>1. i \in 0 .. j /\ i + 1 \in 0 .. j + 1 /\ q[i + 1] = p[i]
      BY <2>2
    <3>2. CASE i = 0
      BY <2>1, <2>3, <3>1, <3>2 DEF Leads
    <3>3. CASE i # 0
      <4>1. i - 1 \in 0 .. j - 1 /\ q[i] = p[i - 1] /\ (i - 1) + 1 = i
        BY <2>2, <3>1, <3>3
      <4>2. QED
        BY <2>1, <3>1, <4>1 DEF Leads
    <3>4. QED
      BY <3>2, <3>3
  <2> HIDE DEF q
  <2>5. Leads(h[1], h[2], j + 1, q)
    BY <2>3, <2>4 DEF Leads
  <2>6. QED
    BY <2>2, <2>3, <2>5 DEF EndsWithin
<1>3. EndsWithin(k - 1) \subseteq EndsWithin(k) /\ EndsWithin(k) \subseteq Hop
  BY DEF EndsWithin
<1>4. QED
  BY <1>1, <1>2, <1>3

WithinUnfolds ==
  \A k \in Nat : Within[k] =
    IF k = 0 THEN {<<n, n>> : n \in Node}
    ELSE Within[k - 1] \cup
         {h \in Hop : \E m \in Announcing(h[1]) : <<m, h[2]>> \in Within[k - 1]}

LEMMA WithinIs == WithinUnfolds
<1> DEFINE Def(f) == [k \in Nat |->
             IF k = 0 THEN {<<n, n>> : n \in Node}
             ELSE f[k - 1] \cup {h \in Hop : \E m \in Announcing(h[1]) : <<m, h[2]>> \in f[k - 1]}]
           r == [k \in Nat |-> EndsWithin(k)]
<1>1. \A k \in Nat : r[k] = IF k = 0 THEN {<<n, n>> : n \in Node}
        ELSE r[k - 1] \cup {h \in Hop : \E m \in Announcing(h[1]) : <<m, h[2]>> \in r[k - 1]}
  <2>1. r[0] = {<<n, n>> : n \in Node}
    BY EndsHere
  <2>2. ASSUME NEW k \in Nat \ {0}
        PROVE  r[k] = r[k - 1] \cup
                 {h \in Hop : \E m \in Announcing(h[1]) : <<m, h[2]>> \in r[k - 1]}
    <3>1. k - 1 \in Nat /\ r[k] = EndsWithin(k) /\ r[k - 1] = EndsWithin(k - 1)
      OBVIOUS
    <3>2. QED
      BY <3>1, EndsGrow
  <2> HIDE DEF r
  <2>3. QED
    BY <2>1, <2>2
<1>2. r = [k \in Nat |-> r[k]]
  OBVIOUS
<1> HIDE DEF r
<1>3. r = Def(r)
  BY <1>1, <1>2
<1> HIDE DEF Def
<1>4. Within = CHOOSE f : f = Def(f)
  BY DEF Within, Def
<1>5. Within = Def(Within)
  BY <1>3, <1>4
<1>6. QED
  BY <1>5 DEF Def, WithinUnfolds

LEMMA WithinSame == up' = up => Within' = Within
  BY DEF Within, Announcing, Hop

LEMMA WithinNone == Within[0] = {<<n, n>> : n \in Node}
<1>1. 0 \in Nat /\ WithinUnfolds
  BY WithinIs
<1>2. QED
  BY <1>1 DEF WithinUnfolds

LEMMA WithinMore ==
  ASSUME NEW k \in Nat
  PROVE  Within[k + 1] = Within[k] \cup
           {h \in Hop : \E m \in Announcing(h[1]) : <<m, h[2]>> \in Within[k]}
<1> DEFINE j == k + 1
<1>1. j \in Nat /\ j # 0 /\ j - 1 = k /\ WithinUnfolds
  BY WithinIs
<1> HIDE DEF j
<1>2. Within[j] = Within[j - 1] \cup
        {h \in Hop : \E m \in Announcing(h[1]) : <<m, h[2]>> \in Within[j - 1]}
  BY <1>1 DEF WithinUnfolds
<1>3. Within[j] = Within[k] \cup
        {h \in Hop : \E m \in Announcing(h[1]) : <<m, h[2]>> \in Within[k]}
  BY <1>1, <1>2
<1>4. QED
  BY <1>3 DEF j

\* Everybody is near itself.
LEMMA NearItself ==
  ASSUME NEW n \in Node, NEW k \in Nat
  PROVE  <<n, n>> \in Within[k]
<1> DEFINE Bad == {j \in Nat : <<n, n>> \notin Within[j]}
<1>1. SUFFICES ASSUME Bad # {} PROVE FALSE
  OBVIOUS
<1>2. PICK j \in Bad : \A i \in Bad : j <= i
  BY <1>1, LeastElement
<1>3. CASE j = 0
  BY <1>2, <1>3, WithinNone
<1>4. CASE j # 0
  <2>1. j - 1 \in Nat /\ (j - 1) + 1 = j /\ ~ (j <= j - 1)
    BY <1>2, <1>4
  <2>2. <<n, n>> \in Within[j - 1]
    BY <1>2, <2>1
  <2>3. <<n, n>> \in Within[(j - 1) + 1]
    BY <2>1, <2>2, WithinMore
  <2>4. QED
    BY <1>2, <2>1, <2>3
<1>5. QED
  BY <1>3, <1>4

\* Who is near a node that n hears is one link farther from n.
LEMMA NearNeighbors ==
  ASSUME NEW n \in Node, NEW m \in Announcing(n), NEW d \in Node, NEW k \in Nat,
         <<m, d>> \in Within[k]
  PROVE  <<n, d>> \in Within[k + 1]
<1> DEFINE h == <<n, d>>
<1>1. h \in Hop /\ h[1] = n /\ h[2] = d
  BY DEF Hop
<1> HIDE DEF h
<1>2. h \in Within[k + 1]
  BY <1>1, WithinMore
<1>3. QED
  BY <1>2 DEF h

\* Whoever is in reach of a node that hears somebody hears somebody.
LEMMA NearHears ==
  ASSUME BothWays, NEW n \in Hearing, NEW k \in Nat, NEW d \in Node, <<n, d>> \in Within[k]
  PROVE  d \in Hearing
<1> DEFINE Bad == {j \in Nat : \E a \in Hearing : <<a, d>> \in Within[j]}
<1>1. SUFFICES ASSUME d \notin Hearing PROVE FALSE
  OBVIOUS
<1>2. k \in Bad
  OBVIOUS
<1>3. PICK j \in Bad : \A i \in Bad : j <= i
  BY <1>2, LeastElement
<1>4. PICK a \in Hearing : <<a, d>> \in Within[j]
  BY <1>3
<1>5. CASE j = 0
  <2>1. <<a, d>> \in {<<x, x>> : x \in Node}
    BY <1>4, <1>5, WithinNone
  <2>2. QED
    BY <1>1, <1>4, <2>1
<1>6. CASE j # 0
  <2> DEFINE h == <<a, d>>
  <2>1. j - 1 \in Nat /\ j - 1 \notin Bad
    <3>1. j - 1 \in Nat /\ ~ (j <= j - 1)
      BY <1>3, <1>6
    <3>2. QED
      BY <1>3, <3>1
  <2>2. h \notin Within[j - 1]
    BY <2>1
  <2>3. h[1] = a /\ h[2] = d
    OBVIOUS
  <2> HIDE DEF h
  <2>4. PICK m \in Announcing(h[1]) : <<m, h[2]>> \in Within[j - 1]
    <3>1. h \in Within[(j - 1) + 1]
      <4>1. (j - 1) + 1 = j
        BY <1>3
      <4>2. QED
        BY <1>4, <4>1 DEF h
    <3>2. QED
      BY <2>1, <2>2, <3>1, WithinMore
  <2>5. m \in Hearing
    BY <1>4, <2>3, <2>4 DEF BothWays, Hearing, Announcing
  <2>6. QED
    BY <2>1, <2>3, <2>4, <2>5
<1>7. QED
  BY <1>5, <1>6

-----------------------------------------------------------------------------
(* A steady network stays so.                                               *)

\* In a turn of n that has come to s, p tells nobody on its way anything new, except
\* that it is n's own and nobody is to tell n.
Idle(n, s, p, m) ==
  \A d \in NewsTo(p) : CanReach(p, m, d) => d = n /\ p.seqNum <= s.seq[n][p.node2] /\ p.node1 = n

\* A turn of n that has come to s has changed nothing that counts.
Calm(n, s) ==
  /\ s.cost = costs[n] /\ Later(seqNumMatrix[n], s.seq)
  /\ n \in Hearing => s.conn = connections[n] /\ s.adj = adjMatrix[n] /\ s.fwd = confirmedMap[n]
  /\ \A h \in Hop : s.net[h] # <<>> => h \in up
  /\ \A h \in Hop : \A i \in DOMAIN s.net[h] : Idle(n, s, s.net[h][i], h[2])
  /\ \A p \in s.mesg : <<p.from, p.to>> \in up

\* Nodes that hear each other.
LEMMA UpHears ==
  ASSUME BothWays, NEW n \in Node, NEW m \in Node, <<n, m>> \in up
  PROVE  n \in Hearing /\ m \in Hearing /\ m \in Announcing(n) /\ n \in Announcing(m)
<1>1. <<m, n>> \in up
  BY DEF BothWays
<1>2. QED
  BY <1>1 DEF Hearing, Announcing

LEMMA CalmStart ==
  ASSUME RouterInv, Steady, NEW n \in Node
  PROVE  Calm(n, State(n))
<1> DEFINE s == State(n)
<1>1. /\ s.conn = connections[n] /\ s.cost = costs[n] /\ s.adj = adjMatrix[n]
      /\ s.seq = seqNumMatrix[n] /\ s.fwd = confirmedMap[n] /\ s.net = net /\ s.mesg = mesg
  BY DEF State
<1> HIDE DEF s
<1>2. Later(seqNumMatrix[n], s.seq)
  <2>1. seqNumMatrix[n] \in [Node -> [Node -> Nat]]
    BY DEF RouterInv, LsTypeOK
  <2>2. QED
    BY <1>1, <2>1 DEF Later
<1>3. \A h \in Hop : \A i \in DOMAIN net[h] : Idle(n, s, net[h][i], h[2])
  BY DEF Steady, Idle
<1>4. QED
  BY <1>1, <1>2, <1>3 DEF Calm, Steady, s

\* A newer number takes the place of the one before.
LEMMA NumberEntered ==
  ASSUME NEW seq \in [Node -> [Node -> Nat]], NEW a \in Node, NEW b \in Node,
         NEW k \in Nat, k > seq[a][b],
         NEW new, new = [seq EXCEPT ![a] = [seq[a] EXCEPT ![b] = k]]
  PROVE  new \in [Node -> [Node -> Nat]] /\ new[a][b] = k /\ Later(seq, new)
<1>1. /\ new \in [Node -> [Node -> Nat]] /\ new[a][b] = k
      /\ \A x, y \in Node : ~ (x = a /\ y = b) => new[x][y] = seq[x][y]
  OBVIOUS
<1>2. ASSUME NEW x \in Node, NEW y \in Node PROVE seq[x][y] <= new[x][y]
  <2>1. seq[x][y] \in Nat
    OBVIOUS
  <2>2. CASE x = a /\ y = b
    BY <1>1, <2>1, <2>2
  <2>3. CASE ~ (x = a /\ y = b)
    BY <1>1, <2>1, <2>3
  <2>4. QED
    BY <2>2, <2>3
<1>3. QED
  BY <1>1, <1>2 DEF Later

LEMMA LaterOn ==
  ASSUME NEW q \in [Node -> [Node -> Nat]], NEW r \in [Node -> [Node -> Nat]],
         NEW s \in [Node -> [Node -> Nat]], Later(q, r), Later(r, s)
  PROVE  Later(q, s)
<1>1. SUFFICES ASSUME NEW a \in Node, NEW b \in Node PROVE q[a][b] <= s[a][b]
  BY DEF Later
<1>2. /\ q[a][b] \in Nat /\ r[a][b] \in Nat /\ s[a][b] \in Nat
      /\ q[a][b] <= r[a][b] /\ r[a][b] <= s[a][b]
  BY DEF Later
<1>3. QED
  BY <1>2

LEMMA IdleLater ==
  ASSUME NEW n \in Node, NEW s, NEW r, s.seq \in [Node -> [Node -> Nat]],
         r.seq \in [Node -> [Node -> Nat]], Later(s.seq, r.seq),
         NEW p \in LSP, NEW m, Idle(n, s, p, m)
  PROVE  Idle(n, r, p, m)
<1>1. p.node2 \in Node /\ p.seqNum \in Nat /\ s.seq[n][p.node2] \in Nat
      /\ r.seq[n][p.node2] \in Nat /\ s.seq[n][p.node2] <= r.seq[n][p.node2]
  BY DEF LSP, Later
<1>2. QED
  BY <1>1 DEF Idle

\* What a flood changes of a calm state.
LEMMA FloodCalm ==
  ASSUME RouterInv, NEW n \in Node, NEW s, Typed(n, s), Calm(n, s), s.net \in Network(Hist(n, s)),
         NEW X \in SUBSET Neighbors(n), NEW news \in [X -> SaidCost], NEW to,
         NEW r, r = Flood(n, s, news, to),
         \A x \in X : \A m \in Node, d \in Node \ {n} :
           <<n, m>> \in up /\ <<m, x>> \in to /\ CanReach(Packet(n, s, news, x), m, d)
             => Knows(d, n, x, news[x])
  PROVE  Calm(n, r) /\ r.conn = s.conn
<1>1. r = [conn |-> s.conn, cost |-> s.cost, adj |-> s.adj, seq |-> FloodSeq(n, s, X),
           fwd |-> s.fwd, net |-> FloodNet(n, s, news, X, to), mesg |-> s.mesg,
           said |-> FloodSaid(s, news, X), floods |-> s.floods]
  BY FloodIs
<1>2. /\ r.conn = s.conn /\ r.cost = s.cost /\ r.adj = s.adj /\ r.fwd = s.fwd /\ r.mesg = s.mesg
      /\ r.seq = FloodSeq(n, s, X) /\ r.net = FloodNet(n, s, news, X, to)
  BY <1>1
<1>3. s.seq \in [Node -> [Node -> Nat]] /\ X \subseteq Node \ {n} /\ s.net \in [Hop -> Seq(LSP)]
  BY NeighborsAreOthers DEF Typed, Network
<1>4. /\ r.seq \in [Node -> [Node -> Nat]] /\ Later(s.seq, r.seq)
      /\ \A x \in X : r.seq[n][x] = s.seq[n][x] + 1
  <2>1. /\ r.seq \in [Node -> [Node -> Nat]]
        /\ \A a, b \in Node :
             r.seq[a][b] = IF a = n /\ b \in X THEN s.seq[a][b] + 1 ELSE s.seq[a][b]
    BY <1>2, <1>3 DEF FloodSeq
  <2>2. ASSUME NEW a \in Node, NEW b \in Node PROVE s.seq[a][b] <= r.seq[a][b]
    <3>1. s.seq[a][b] \in Nat
      BY <1>3
    <3>2. QED
      BY <2>1, <3>1
  <2>3. QED
    BY <1>3, <2>1, <2>2 DEF Later
<1>5. Later(seqNumMatrix[n], r.seq)
  <2>1. seqNumMatrix[n] \in [Node -> [Node -> Nat]]
    BY DEF RouterInv, LsTypeOK
  <2>2. QED
    BY <1>3, <1>4, <2>1, LaterOn DEF Calm
<1>6. ASSUME NEW h \in Hop, NEW i \in DOMAIN s.net[h] PROVE Idle(n, r, s.net[h][i], h[2])
  <2>1. s.net[h][i] \in LSP /\ Idle(n, s, s.net[h][i], h[2])
    BY <1>3 DEF Calm
  <2>2. QED
    BY <1>3, <1>4, <2>1, IdleLater
<1>7. ASSUME NEW x \in X, NEW m \in Node, <<n, m>> \in up, <<m, x>> \in to
      PROVE  Idle(n, r, Packet(n, s, news, x), m)
  <2> DEFINE p == Packet(n, s, news, x)
  <2>1. p.node1 = n /\ p.node2 = x /\ p.cost = news[x] /\ p.seqNum = r.seq[n][x]
    BY <1>4 DEF Packet
  <2>2. \A d \in Node \ {n} : CanReach(p, m, d) => Knows(d, n, x, news[x])
    BY <1>7
  <2> HIDE DEF p
  <2>3. p.seqNum <= r.seq[n][p.node2]
    <3>1. r.seq[n][x] \in Nat
      BY <1>3, <1>4
    <3>2. QED
      BY <2>1, <3>1
  <2>4. Idle(n, r, p, m)
    BY <2>1, <2>2, <2>3 DEF Idle, NewsTo
  <2>5. QED
    BY <2>4 DEF p
<1>8. ASSUME NEW h \in Hop
      PROVE  /\ r.net[h] # <<>> => h \in up
             /\ \A i \in DOMAIN r.net[h] : Idle(n, r, r.net[h][i], h[2])
  <2> DEFINE S == {x \in X : <<h[2], x>> \in to}
             l == InIdOrder[S]
             added == Packets(n, s, news, S)
             q == s.net[h]
  <2>1. CASE h[1] = n /\ h \in up
    <3>1. r.net[h] = q \o added
      BY <1>2, <2>1 DEF FloodNet
    <3>2. l \in Seq(S)
      BY NeighborsAreOthers, InIdOrderType
    <3>3. added = [i \in DOMAIN l |-> Packet(n, s, news, l[i])]
      BY DEF Packets
    <3>4. h[2] \in Node /\ <<n, h[2]>> \in up
      BY <2>1 DEF Hop
    <3>5. \A x \in S : Idle(n, r, Packet(n, s, news, x), h[2])
      BY <3>4, <1>7
    <3> HIDE DEF l, S
    <3>6. Len(l) \in Nat /\ DOMAIN l = 1 .. Len(l) /\ \A i \in 1 .. Len(l) : l[i] \in S
      BY <3>2
    <3>7. /\ DOMAIN added = 1 .. Len(l)
          /\ \A i \in 1 .. Len(l) : Idle(n, r, added[i], h[2])
      BY <3>3, <3>5, <3>6
    <3> HIDE DEF added
    <3>8. q \in Seq(LSP) /\ \A i \in DOMAIN q : Idle(n, r, q[i], h[2])
      BY <1>3, <1>6
    <3> HIDE DEF q
    <3>9. Len(q) \in Nat /\ DOMAIN q = 1 .. Len(q) /\ Len(added) = Len(l)
      BY <3>6, <3>7, <3>8
    <3>10. /\ DOMAIN (q \o added) = 1 .. Len(q) + Len(l)
           /\ \A i \in 1 .. Len(q) + Len(l) :
                (q \o added)[i] = IF i <= Len(q) THEN q[i] ELSE added[i - Len(q)]
      BY <3>6, <3>9
    <3>11. ASSUME NEW i \in 1 .. Len(q) + Len(l) PROVE Idle(n, r, (q \o added)[i], h[2])
      <4>1. CASE i <= Len(q)
        <5>1. i \in DOMAIN q /\ (q \o added)[i] = q[i]
          BY <3>9, <3>10, <4>1
        <5>2. QED
          BY <3>8, <5>1
      <4>2. CASE ~ (i <= Len(q))
        <5>1. i - Len(q) \in 1 .. Len(l) /\ (q \o added)[i] = added[i - Len(q)]
          BY <3>6, <3>9, <3>10, <4>2
        <5>2. QED
          BY <3>7, <5>1
      <4>3. QED
        BY <4>1, <4>2
    <3>12. QED
      BY <2>1, <3>1, <3>10, <3>11
  <2>2. CASE ~ (h[1] = n /\ h \in up)
    <3>1. r.net[h] = q
      BY <1>2, <2>2 DEF FloodNet
    <3>2. QED
      BY <3>1, <1>6 DEF Calm
  <2>3. QED
    BY <2>1, <2>2
<1>9. QED
  BY <1>2, <1>5, <1>8 DEF Calm

\* The periodic flood repeats what everybody in reach knows.
LEMMA FloodLSPCalm ==
  ASSUME RouterInv, BothWays, Steady, NEW n \in Node, NEW s, Sound(n, s), Calm(n, s),
         NEW r, r = FloodLSP(n, s)
  PROVE  Calm(n, r) /\ r.conn = s.conn
<1>1. /\ said \in History /\ Typed(n, s) /\ Known(Hist(n, s), n, s, s.conn)
      /\ s.net \in Network(Hist(n, s))
  BY DEF RouterInv, Sound, Known, ExplainedBut
<1>2. PICK X \in SUBSET Neighbors(n) :
        /\ s.conn \subseteq X /\ OwnLinks(n, s) \in [X -> SaidCost]
        /\ \A x \in X : IF x \in s.conn THEN OwnLinks(n, s)[x] = s.cost[x]
                        ELSE OwnLinks(n, s)[x] = Down /\ s.adj[n][x] = Down
  BY <1>1, OwnLinksType
<1> DEFINE news == OwnLinks(n, s)
           to == s.conn \X Node
<1>3. ASSUME NEW x \in X, NEW m \in Node, NEW d \in Node \ {n},
             <<n, m>> \in up, <<m, x>> \in to, CanReach(Packet(n, s, news, x), m, d)
      PROVE  Knows(d, n, x, news[x])
  <2>1. n \in Hearing /\ m \in Announcing(n)
    BY <1>3, UpHears
  <2>2. s.conn = connections[n] /\ s.cost = costs[n] /\ s.adj = adjMatrix[n]
    BY <2>1 DEF Calm
  <2>3. TTL > 1 /\ <<m, d>> \in Within[TTL - 2]
    BY <1>3 DEF CanReach, Packet
  <2>4. TTL - 2 \in Nat /\ (TTL - 2) + 1 = TTL - 1
    BY <2>3, LsAssumption
  <2>5. <<n, d>> \in Within[TTL - 1]
    <3>1. <<n, d>> \in Within[(TTL - 2) + 1]
      BY <2>1, <2>3, <2>4, NearNeighbors
    <3>2. QED
      BY <2>4, <3>1
  <2>6. x \in Node \ {n} /\ (x \in connections[n] \/ adjMatrix[n][n][x] = Down)
    BY <1>2, <2>2, NeighborsAreOthers
  <2>7. Knows(d, n, x, IF x \in connections[n] THEN costs[n][x] ELSE Down)
    BY <2>1, <2>5, <2>6, NewsKnown DEF Steady
  <2>8. QED
    BY <1>2, <2>2, <2>7
<1>4. r = Flood(n, s, news, to)
  BY DEF FloodLSP
<1> HIDE DEF news, to
<1>5. QED
  BY <1>1, <1>2, <1>3, <1>4, FloodCalm DEF news

LEMMA PeriodicFloodCalm ==
  ASSUME RouterInv, BothWays, Steady, NEW n \in Node, NEW s, Sound(n, s),
         NEW due, NEW r, r = PeriodicFlood(n, s, due)
  PROVE  r.conn = s.conn /\ (Calm(n, s) => Calm(n, r))
<1>1. CASE ~ due
  BY <1>1 DEF PeriodicFlood
<1>2. CASE due
  <2> DEFINE t == FloodLSP(n, s)
  <2>1. r = [t EXCEPT !.floods = t.floods + 1]
    BY <1>2 DEF PeriodicFlood
  <2> HIDE DEF t
  <2>2. said \in History /\ up \subseteq Link /\ Known(Hist(n, s), n, s, s.conn)
    BY DEF RouterInv, LsTypeOK, MonitorTypeOK, Sound, Known, ExplainedBut
  <2>3. Sound(n, t) /\ t.conn = s.conn
    BY <2>2, FloodLSPOK DEF Sound, t
  <2>4. Calm(n, s) => Calm(n, t)
    BY FloodLSPCalm DEF t
  <2>5. t = [conn |-> t.conn, cost |-> t.cost, adj |-> t.adj, seq |-> t.seq, fwd |-> t.fwd,
             net |-> t.net, mesg |-> t.mesg, said |-> t.said, floods |-> t.floods]
    BY <2>3 DEF Sound, Known, Typed, IsState
  <2>6. r = [conn |-> t.conn, cost |-> t.cost, adj |-> t.adj, seq |-> t.seq, fwd |-> t.fwd,
             net |-> t.net, mesg |-> t.mesg, said |-> t.said, floods |-> t.floods + 1]
    BY <2>1, <2>5
  <2>7. /\ r.conn = t.conn /\ r.cost = t.cost /\ r.adj = t.adj /\ r.seq = t.seq
        /\ r.fwd = t.fwd /\ r.net = t.net /\ r.mesg = t.mesg
    BY <2>6
  <2>8. QED
    BY <2>3, <2>4, <2>7 DEF Calm, Idle
<1>3. QED
  BY <1>1, <1>2

\* Who drops a neighbour hears nobody, and so tells nobody.
LEMMA DropSilentCalm ==
  ASSUME RouterInv, BothWays, NEW n \in Node, NEW s, Sound(n, s),
         NEW silent \in SUBSET Neighbors(n), NEW r, r = DropSilent(n, s, silent)
  PROVE  /\ r.conn = s.conn \ silent
         /\ Calm(n, s) /\ (n \in Hearing => silent = {}) => Calm(n, r)
<1>1. CASE silent = {}
  BY <1>1 DEF DropSilent
<1>2. CASE silent # {}
  <2> DEFINE news == [x \in silent |-> Down]
  <2>1. PICK u, to :
          /\ DropSilent(n, s, silent) = Flood(n, u, news, to)
          /\ Extends(said, Hist(n, u)) /\ Known(Hist(n, u), n, u, silent) /\ GoodTable(n, u)
          /\ u.fwd = UpdateFwdTable(View(n, u))
          /\ u.conn = s.conn \ silent /\ u.cost = s.cost /\ u.adj = Cut(n, s.adj, silent)
          /\ u.seq = s.seq /\ u.net = s.net /\ u.mesg = s.mesg /\ u.said = s.said
          /\ u.floods = s.floods
          /\ \A x \in silent : u.adj[n][x] = Down
    BY <1>2, DroppedIs DEF RouterInv
  <2>2. news \in [silent -> SaidCost]
    BY DEF SaidCost
  <2> HIDE DEF news
  <2>3. Typed(n, u) /\ u.net \in Network(Hist(n, u))
    BY <2>1 DEF Known
  <2>4. r.conn = u.conn
    BY <2>1, <2>2, <2>3, FloodIs
  <2>5. ASSUME Calm(n, s), n \notin Hearing PROVE Calm(n, r)
    <3>1. Calm(n, u)
      BY <2>1, <2>5 DEF Calm, Idle
    <3>2. \A m \in Node : <<n, m>> \notin up
      BY <2>5, UpHears
    <3>3. QED
      BY <2>1, <2>2, <2>3, <3>1, <3>2, FloodCalm
  <2>6. QED
    BY <1>2, <2>1, <2>4, <2>5
<1>3. QED
  BY <1>1, <1>2

\* Neighbours are known, and none is silent.
LEMMA TurnCalm ==
  ASSUME RouterInv, BothWays, Steady, NEW n \in Node, NEW s, Sound(n, s), Calm(n, s),
         NEW from \in Neighbors(n) \cup {Manager}, from # Manager => <<from, n>> \in up,
         NEW r \in Turn(n, s, from), FalseAlarms /\ n \in Hearing => connections[n] \subseteq r.conn
  PROVE  Calm(n, r)
<1>1. PICK silent \in Silence(n, from), due \in Due :
        r = PeriodicFlood(n, DropSilent(n, NoteSender(n, s, from), silent), due)
  BY DEF Turn
<1>2. n \in Hearing => s.conn = connections[n] /\ connections[n] = Announcing(n)
  BY DEF Calm, Steady
<1>3. NoteSender(n, s, from) = s
  <2>1. CASE from = Manager
    BY <2>1 DEF NoteSender
  <2>2. CASE from # Manager
    <3>1. from \in Node
      BY <2>2 DEF Neighbors
    <3>2. n \in Hearing /\ from \in Announcing(n)
      BY <2>2, <3>1 DEF Hearing, Announcing
    <3>3. QED
      BY <1>2, <2>2, <3>2 DEF NoteSender, HeardFrom
  <2>3. QED
    BY <2>1, <2>2
<1> DEFINE u == DropSilent(n, s, silent)
<1>4. /\ silent \subseteq connections[n] /\ silent \in SUBSET Neighbors(n)
      /\ n \in Hearing /\ ~ FalseAlarms => silent = {}
  <2>1. silent \subseteq connections[n]
    BY DEF Silence, Dead
  <2>2. connections[n] \subseteq Neighbors(n)
    BY TurnStart
  <2>3. n \in Hearing => Dead(n) = {}
    BY <1>2 DEF Dead, Announcing
  <2>4. n \in Hearing /\ ~ FalseAlarms => silent = {}
    BY <2>3 DEF Silence
  <2>5. QED
    BY <2>1, <2>2, <2>4
<1>5. said \in History /\ up \subseteq Link
  BY TurnStart
<1>6. Sound(n, u) /\ u.conn = s.conn \ silent
  BY <1>4, <1>5, DropSilentOK, DropSilentCalm
<1>7. r = PeriodicFlood(n, u, due)
  BY <1>1, <1>3
<1> HIDE DEF u
<1>8. r.conn = s.conn \ silent
  BY <1>6, <1>7, PeriodicFloodCalm
<1>9. n \in Hearing => silent = {}
  BY <1>2, <1>4, <1>8
<1>10. Calm(n, u)
  BY <1>4, <1>9, DropSilentCalm DEF u
<1>11. QED
  BY <1>6, <1>7, <1>10, PeriodicFloodCalm

\* A packet that is fresh to n tells it nothing new, nor do those it passes on.
LEMMA AcceptCalm ==
  ASSUME RouterInv, BothWays, Steady, NEW n \in Node, NEW m \in Node, <<m, n>> \in up,
         NEW s, Sound(n, s), Calm(n, s), Current(n, s),
         NEW p \in Authentic(Hist(n, s)), \A d \in NewsTo(p) : ~ CanReach(p, n, d),
         NEW r, r = Accept(n, s, p, m)
  PROVE  Calm(n, r) /\ r.conn = s.conn
<1>1. CASE ~ Fresh(s, p)
  BY <1>1 DEF Accept
<1>2. CASE Fresh(s, p)
  <2> DEFINE a == p.node1
             b == p.node2
             onward == [p EXCEPT !.ttl = @ - 1]
             seq == s.seq
             new == r.seq
  <2>1. said \in History /\ up \subseteq Link
    BY TurnStart
  <2>2. Accepted(n, s, p, m, r)
    BY <1>2, <2>1, AcceptOK
  <2>3. /\ p \in LSP /\ a \in Node \ {n} /\ b \in Node /\ a # b
        /\ p.cost \in Int /\ p.seqNum \in Nat /\ p.ttl \in Nat
    <3>1. /\ p \in LSP /\ a \in Node \ {n} /\ b \in Node /\ a # b
      BY <1>2, <2>1, FreshIsNews
    <3>2. QED
      BY <3>1, LsAssumption DEF LSP
  <2>4. /\ onward.node1 = a /\ onward.node2 = b /\ onward.cost = p.cost
        /\ onward.seqNum = p.seqNum /\ onward.ttl = p.ttl - 1
    BY <2>3 DEF LSP
  <2>5. /\ n \in Hearing /\ s.conn = connections[n] /\ connections[n] = Announcing(n)
        /\ s.adj = adjMatrix[n] /\ s.cost = costs[n] /\ s.fwd = confirmedMap[n]
    <3>1. n \in Hearing
      BY UpHears
    <3>2. QED
      BY <3>1 DEF Calm, Steady
  <2>6. /\ seq \in [Node -> [Node -> Nat]] /\ s.net \in [Hop -> Seq(LSP)] /\ s.adj \in Matrix
        /\ s.cost \in [Node -> Nat] /\ seqNumMatrix[n] \in [Node -> [Node -> Nat]]
        /\ Later(seqNumMatrix[n], seq)
    BY DEF Sound, Known, Typed, Network, CostTable, RouterInv, LsTypeOK, Calm
  <2>7. /\ p.seqNum > seq[a][b] /\ p.ttl > 1 /\ p.ttl - 2 \in Nat
    BY <1>2, <2>3 DEF Fresh
  <2>8. p.seqNum > seqNumMatrix[n][a][b]
    <3>1. seqNumMatrix[n][a][b] <= seq[a][b]
      BY <2>3, <2>6 DEF Later
    <3>2. seqNumMatrix[n][a][b] \in Nat /\ seq[a][b] \in Nat
      BY <2>3, <2>6
    <3>3. QED
      BY <2>3, <2>7, <3>1, <3>2
  <2>9. Knows(n, a, b, p.cost)
    <3>1. CanReach(p, n, n)
      BY <2>7, NearItself DEF CanReach
    <3>2. QED
      BY <2>8, <3>1 DEF NewsTo
  <2>10. r.adj = s.adj
    <3>1. s.adj[a][b] = p.cost /\ s.adj[b][a] = p.cost
      BY <2>3, <2>5, <2>6, <2>9 DEF Knows, Matrix
    <3>2. r.adj = WithLink(s.adj, a, b, p.cost)
      BY <2>2 DEF Accepted
    <3>a. a \in Node /\ b \in Node /\ a # b /\ p.cost \in Int /\ s.adj \in Matrix
      BY <2>3, <2>6
    <3> DEFINE c == p.cost
               adj == s.adj
    <3> HIDE DEF a, b, c, adj
    <3>b. /\ WithLink(adj, a, b, c) \in Matrix /\ WithLink(adj, a, b, c)[a][b] = c
          /\ WithLink(adj, a, b, c)[b][a] = c
          /\ \A x, y \in Node : ~ (x = a /\ y = b) /\ ~ (x = b /\ y = a) =>
               WithLink(adj, a, b, c)[x][y] = adj[x][y]
      BY <3>a, WithLinkIs DEF c, adj
    <3>3. /\ r.adj \in Matrix /\ r.adj[a][b] = p.cost /\ r.adj[b][a] = p.cost
          /\ \A x, y \in Node : ~ (x = a /\ y = b) /\ ~ (x = b /\ y = a) =>
               r.adj[x][y] = s.adj[x][y]
      BY <3>b, <3>2 DEF c, adj
    <3>4. \A x, y \in Node : r.adj[x][y] = s.adj[x][y]
      BY <3>1, <3>3
    <3>5. r.adj \in [Node -> [Node -> Int]] /\ s.adj \in [Node -> [Node -> Int]]
      BY <2>6, <3>3 DEF Matrix
    <3>6. \A x \in Node : r.adj[x] = s.adj[x]
      BY <3>4, <3>5
    <3>7. QED
      BY <3>5, <3>6
  <2>11. r.cost = s.cost
    <3>1. CASE b = n /\ p.cost > 0
      <4>1. s.cost[a] = p.cost
        BY <2>3, <2>5, <2>9, <3>1 DEF Knows
      <4>2. r.cost = [s.cost EXCEPT ![a] = p.cost]
        BY <2>2, <3>1 DEF Accepted, Adopted, WithCost
      <4> HIDE DEF a
      <4>3. QED
        BY <2>6, <4>1, <4>2
    <3>2. CASE ~ (b = n /\ p.cost > 0)
      BY <2>2, <2>3, <3>2 DEF Accepted, Adopted
    <3>3. QED
      BY <3>1, <3>2
  <2>12. r.fwd = s.fwd
    <3>1. s.fwd # <<>>
      BY <2>5 DEF Hearing, Sound, GoodTable
    <3>2. r.fwd = UpdateFwdTable(View(n, r)) /\ View(n, r) = View(n, s)
      BY <2>2, <2>10, <2>11 DEF Accepted, View
    <3>3. QED
      BY <3>1, <3>2 DEF Current
  <2>13. new \in [Node -> [Node -> Nat]] /\ Later(seq, new)
    <3>1. new = [seq EXCEPT ![a] = [seq[a] EXCEPT ![b] = p.seqNum]]
      BY <2>2 DEF Accepted
    <3> HIDE DEF a, b, seq, new
    <3>2. QED
      BY <2>3, <2>6, <2>7, <3>1, NumberEntered
  <2>14. Later(seqNumMatrix[n], new)
    BY <2>6, <2>13, LaterOn
  <2>15. ASSUME NEW h \in Hop
         PROVE  /\ r.net[h] # <<>> => h \in up
                /\ \A i \in DOMAIN r.net[h] : Idle(n, r, r.net[h][i], h[2])
    <3> DEFINE q == s.net[h]
    <3>1. r.net[h] = IF h[1] = n /\ h[2] \in s.conn \ {m} /\ h \in up THEN Append(q, onward) ELSE q
      BY <2>2 DEF Accepted
    <3>2. q \in Seq(LSP) /\ (q # <<>> => h \in up)
      BY <2>6 DEF Calm
    <3>3. \A i \in DOMAIN q : q[i] \in LSP /\ Idle(n, s, q[i], h[2])
      BY <3>2 DEF Calm
    <3>4. \A i \in DOMAIN q : Idle(n, r, q[i], h[2])
      BY <2>6, <2>13, <3>3, IdleLater
    <3> HIDE DEF q, onward
    <3>5. CASE h[1] = n /\ h[2] \in s.conn \ {m} /\ h \in up
      <4>1. h[2] \in Announcing(n) /\ h[2] \in Node
        BY <2>5, <3>5 DEF Hop
      <4>2. ASSUME NEW d \in NewsTo(onward), CanReach(onward, h[2], d) PROVE FALSE
        <5>1. p.ttl - 3 \in Nat /\ (p.ttl - 3) + 1 = p.ttl - 2 /\ <<h[2], d>> \in Within[p.ttl - 3]
          BY <2>3, <2>4, <4>2 DEF CanReach
        <5>2. d \in NewsTo(p) /\ d \in Node
          BY <2>4, <4>2 DEF NewsTo
        <5>3. <<n, d>> \in Within[(p.ttl - 3) + 1]
          BY <4>1, <5>1, <5>2, NearNeighbors
        <5>4. CanReach(p, n, d)
          BY <2>7, <5>1, <5>3 DEF CanReach
        <5>5. QED
          BY <5>2, <5>4
      <4>3. Idle(n, r, onward, h[2])
        BY <4>2 DEF Idle
      <4>4. /\ DOMAIN Append(q, onward) = 1 .. Len(q) + 1
            /\ DOMAIN q = 1 .. Len(q) /\ Len(q) \in Nat
            /\ \A i \in 1 .. Len(q) + 1 :
                 Append(q, onward)[i] = IF i = Len(q) + 1 THEN onward ELSE q[i]
        BY <3>2
      <4>5. \A i \in 1 .. Len(q) + 1 : Idle(n, r, Append(q, onward)[i], h[2])
        BY <3>4, <4>3, <4>4
      <4>6. QED
        BY <3>1, <3>5, <4>4, <4>5
    <3>6. CASE ~ (h[1] = n /\ h[2] \in s.conn \ {m} /\ h \in up)
      BY <3>1, <3>2, <3>4, <3>6
    <3>7. QED
      BY <3>5, <3>6
  <2>16. QED
    BY <2>2, <2>10, <2>11, <2>12, <2>14, <2>15 DEF Calm, Accepted
<1>3. QED
  BY <1>1, <1>2

LEMMA ForwardCalm ==
  ASSUME NEW n \in Node, NEW s, IsState(s), NEW d, NEW r, r = Forward(n, s, d)
  PROVE  r.conn = s.conn /\ (Calm(n, s) => Calm(n, r))
<1> DEFINE p == [from |-> n, to |-> s.fwd[d].nexthop, dest |-> d]
<1>1. CASE d # n /\ d \in DOMAIN s.fwd /\ <<n, s.fwd[d].nexthop>> \in up
  <2>1. <<p.from, p.to>> \in up
    BY <1>1
  <2>2. r = [s EXCEPT !.mesg = s.mesg \cup {p}]
    BY <1>1 DEF Forward
  <2> HIDE DEF p
  <2>3. /\ r.conn = s.conn /\ r.cost = s.cost /\ r.adj = s.adj /\ r.seq = s.seq /\ r.fwd = s.fwd
        /\ r.net = s.net /\ r.mesg = s.mesg \cup {p}
    BY <2>2 DEF IsState
  <2>4. QED
    BY <2>1, <2>3 DEF Calm, Idle
<1>2. CASE ~ (d # n /\ d \in DOMAIN s.fwd /\ <<n, s.fwd[d].nexthop>> \in up)
  BY <1>2 DEF Forward
<1>3. QED
  BY <1>1, <1>2

\* Packets have been taken from the hops of q, one from each at most.
Fewer(q, r) == \A h \in Hop : r[h] = q[h] \/ (q[h] # <<>> /\ r[h] = Tail(q[h]))

\* Fewer packets and messages under way.
LEMMA FewerCalm ==
  ASSUME RouterInv, NEW n \in Node, NEW s, s.net \in [Hop -> Seq(LSP)], Calm(n, s),
         NEW r, r.conn = s.conn, r.cost = s.cost, r.adj = s.adj, r.seq = s.seq, r.fwd = s.fwd,
         Fewer(s.net, r.net),
         r.mesg \subseteq s.mesg
  PROVE  Calm(n, r)
<1>1. ASSUME NEW h \in Hop
      PROVE  /\ r.net[h] # <<>> => h \in up
             /\ \A i \in DOMAIN r.net[h] : Idle(n, r, r.net[h][i], h[2])
  <2> DEFINE q == s.net[h]
  <2>1. q \in Seq(LSP) /\ (q # <<>> => h \in up) /\ \A i \in DOMAIN q : Idle(n, r, q[i], h[2])
    BY DEF Calm, Idle
  <2>2. r.net[h] = q \/ (q # <<>> /\ r.net[h] = Tail(q))
    BY DEF Fewer
  <2> HIDE DEF q
  <2>3. ASSUME q # <<>> PROVE \A i \in DOMAIN Tail(q) : Idle(n, r, Tail(q)[i], h[2])
    <3> DEFINE t == Tail(q)
    <3>1. /\ t \in Seq(LSP) /\ Len(t) = Len(q) - 1 /\ Len(q) \in Nat
          /\ \A i \in 1 .. Len(t) : t[i] = q[i + 1]
      BY <2>1, <2>3, HeadTailProperties
    <3> HIDE DEF t
    <3>2. DOMAIN t = 1 .. Len(t) /\ DOMAIN q = 1 .. Len(q)
      BY <2>1, <3>1
    <3>3. \A i \in 1 .. Len(t) : i + 1 \in 1 .. Len(q)
      BY <3>1
    <3>4. \A i \in 1 .. Len(t) : Idle(n, r, t[i], h[2])
      BY <2>1, <3>1, <3>2, <3>3
    <3>5. QED
      BY <3>2, <3>4 DEF t
  <2>4. QED
    BY <2>1, <2>2, <2>3
<1>2. QED
  BY <1>1 DEF Calm

\* A step that disturbs nothing.
Undisturbed ==
  /\ Steady' /\ UNCHANGED costs
  /\ \A k \in Hearing : adjMatrix'[k] = adjMatrix[k] /\ confirmedMap'[k] = confirmedMap[k]

NoFalseAlarm == FalseAlarms => \A n \in Hearing : connections[n] \subseteq connections'[n]

\* NothingNew, with what a node would flood written out.
AllTold ==
  \A k \in Hearing : \A d \in Node \ {k} : <<k, d>> \in Within[TTL - 1] =>
    \A x : x \in connections[k] \/ (x \in Node \ {k} /\ adjMatrix[k][k][x] = Down) =>
      Knows(d, k, x, IF x \in connections[k] THEN costs[k][x] ELSE Down)

LEMMA ToldIsNoNews == AllTold => NothingNew
<1>1. SUFFICES ASSUME AllTold, NEW k \in Hearing, NEW d \in Node \ {k},
                      NEW x \in DOMAIN OwnLinks(k, State(k)), <<k, d>> \in Within[TTL - 1]
               PROVE  Knows(d, k, x, OwnLinks(k, State(k))[x])
  BY DEF NothingNew
<1>2. /\ x \in connections[k] \/ (x \in Node \ {k} /\ adjMatrix[k][k][x] = Down)
      /\ OwnLinks(k, State(k))[x] = IF x \in connections[k] THEN costs[k][x] ELSE Down
  BY DEF OwnLinks, State
<1>3. Knows(d, k, x, IF x \in connections[k] THEN costs[k][x] ELSE Down)
  BY <1>1, <1>2 DEF AllTold
<1>4. QED
  BY <1>2, <1>3

\* What a turn of n that ends in s leaves.
Leaves(n, s) ==
  /\ up' = up /\ costs' = [costs EXCEPT ![n] = s.cost] /\ net' = s.net /\ mesg' = s.mesg
  /\ \A k \in Node : /\ connections'[k] = IF k = n THEN s.conn ELSE connections[k]
                     /\ adjMatrix'[k] = IF k = n THEN s.adj ELSE adjMatrix[k]
                     /\ seqNumMatrix'[k] = IF k = n THEN s.seq ELSE seqNumMatrix[k]
                     /\ confirmedMap'[k] = IF k = n THEN s.fwd ELSE confirmedMap[k]

\* A calm turn leaves the network steady.
LEMMA CalmStays ==
  ASSUME RouterInv, BothWays, Steady, NEW n \in Node, NEW s, s.net \in [Hop -> Seq(LSP)],
         s.seq \in [Node -> [Node -> Nat]], Calm(n, s), Leaves(n, s)
  PROVE  Undisturbed
<1>1. /\ costs \in [Node -> [Node -> Nat]] /\ seqNumMatrix \in [Node -> [Node -> [Node -> Nat]]]
      /\ up' = up
  BY DEF RouterInv, LsTypeOK, MonitorTypeOK, Leaves
<1>2. /\ Hearing' = Hearing /\ \A k \in Node : Announcing(k)' = Announcing(k)
      /\ Within' = Within
  BY <1>1, WithinSame DEF Hearing, Announcing
<1>3. costs' = costs
  <2>1. costs' = [costs EXCEPT ![n] = costs[n]]
    BY DEF Leaves, Calm
  <2>2. QED
    BY <1>1, <2>1
<1>4. ASSUME NEW k \in Hearing
      PROVE  /\ connections'[k] = connections[k] /\ adjMatrix'[k] = adjMatrix[k]
             /\ confirmedMap'[k] = confirmedMap[k]
  <2>1. k \in Node
    BY DEF Hearing
  <2>2. QED
    BY <1>1, <2>1 DEF Leaves, Calm
<1>5. ASSUME NEW d \in Hearing, NEW a, NEW b, NEW c
      PROVE  Knows(d, a, b, c)' <=> Knows(d, a, b, c)
  BY <1>3, <1>4 DEF Knows
<1>6. NothingNew'
  <2>1. SUFFICES ASSUME NEW k \in Hearing, NEW d \in Node \ {k}, <<k, d>> \in Within[TTL - 1],
                        NEW x, \/ x \in connections[k]
                               \/ x \in Node \ {k} /\ adjMatrix[k][k][x] = Down
                 PROVE  Knows(d, k, x, IF x \in connections[k] THEN costs[k][x] ELSE Down)'
    <3>1. \A k \in Hearing : connections'[k] = connections[k] /\ adjMatrix'[k] = adjMatrix[k]
      BY <1>4
    <3>2. AllTold' => NothingNew'
      BY ToldIsNoNews, PTL
    <3>3. QED
      BY <1>2, <2>1, <3>1, <3>2 DEF AllTold, Knows
  <2>2. k \in Node /\ x \in Node \ {k}
    BY <2>1, OwnTables DEF Hearing
  <2>3. d \in Hearing
    BY <2>1, LsAssumption, NearHears
  <2>4. Knows(d, k, x, IF x \in connections[k] THEN costs[k][x] ELSE Down)
    BY <2>1, <2>2, NewsKnown DEF Steady
  <2>5. connections'[k] = connections[k] /\ adjMatrix'[d] = adjMatrix[d]
    BY <1>4, <2>3
  <2>6. QED
    BY <1>3, <2>4, <2>5 DEF Knows
<1>7. ASSUME NEW h \in Hop, NEW i \in DOMAIN net'[h], NEW d \in NewsTo(net[h][i])',
             CanReach(net[h][i], h[2], d)'
      PROVE  FALSE
  <2> DEFINE p == s.net[h][i]
  <2>1. net' = s.net /\ s.net[h] # <<>> /\ i \in DOMAIN s.net[h]
    BY DEF Leaves
  <2>2. p \in LSP
    BY <2>1
  <2>3. h \in up /\ Idle(n, s, p, h[2])
    BY <2>1 DEF Calm
  <2>4. d \in Node /\ p.seqNum > seqNumMatrix'[d][p.node1][p.node2]
        /\ ~ Knows(d, p.node1, p.node2, p.cost)' /\ CanReach(p, h[2], d)
    BY <1>2, <1>7, <2>1 DEF NewsTo, CanReach
  <2> HIDE DEF p
  <2>5. h[2] \in Hearing
    <3>1. h = <<h[1], h[2]>> /\ h[1] \in Node /\ h[2] \in Node
      BY DEF Hop
    <3>2. <<h[1], h[2]>> \in up
      BY <2>3, <3>1
    <3>3. QED
      BY <3>1, <3>2, UpHears
  <2>6. d \in Hearing
    <3>1. p.ttl > 1 /\ <<h[2], d>> \in Within[p.ttl - 2]
      BY <2>4 DEF CanReach
    <3>2. p.ttl \in Nat
      BY <2>2, LsAssumption DEF LSP
    <3>3. p.ttl - 2 \in Nat
      BY <3>1, <3>2
    <3>4. QED
      BY <2>4, <2>5, <3>1, <3>3, NearHears
  <2>7. ~ Knows(d, p.node1, p.node2, p.cost)
    BY <1>5, <2>4, <2>6
  <2> DEFINE old == seqNumMatrix[d]
             new == seqNumMatrix'[d]
  <2>8. /\ old \in [Node -> [Node -> Nat]] /\ new \in [Node -> [Node -> Nat]]
        /\ Later(old, new) /\ (d = n => new = s.seq)
    <3>1. d # n => new = old
      BY <1>1, <2>4 DEF Leaves
    <3>2. d = n => new = s.seq
      BY <1>1, <2>4 DEF Leaves
    <3>3. old \in [Node -> [Node -> Nat]]
      BY <1>1, <2>4
    <3> HIDE DEF new
    <3>4. Later(old, old)
      BY <3>3 DEF Later
    <3>5. d = n => Later(old, s.seq)
      BY DEF Calm
    <3>6. QED
      BY <3>1, <3>2, <3>3, <3>4, <3>5
  <2>9. p.node1 \in Node /\ p.node2 \in Node /\ p.seqNum \in Nat
    BY <2>2 DEF LSP
  <2>10. p.seqNum > new[p.node1][p.node2]
    BY <2>4
  <2>11. p.seqNum > old[p.node1][p.node2]
    <3> HIDE DEF old, new
    <3>1. old[p.node1][p.node2] \in Nat /\ new[p.node1][p.node2] \in Nat
      BY <2>8, <2>9
    <3>2. old[p.node1][p.node2] <= new[p.node1][p.node2]
      BY <2>8, <2>9 DEF Later
    <3>3. QED
      BY <2>9, <2>10, <3>1, <3>2
  <2>12. d = n /\ p.seqNum <= s.seq[n][p.node2] /\ p.node1 = n
    BY <2>3, <2>4, <2>7, <2>11 DEF Idle, NewsTo
  <2>13. p.seqNum > s.seq[n][p.node2]
    BY <2>8, <2>10, <2>12
  <2>14. s.seq[n][p.node2] \in Nat
    BY <2>9
  <2>15. QED
    BY <2>9, <2>12, <2>13, <2>14
<1>8. /\ \A k \in Hearing' : connections'[k] = Announcing(k)'
      /\ \A h \in Hop : net'[h] # <<>> => h \in up'
      /\ \A p \in mesg' : <<p.from, p.to>> \in up'
  <2>1. Hearing \subseteq Node
    BY DEF Hearing
  <2>2. QED
    BY <1>2, <1>4, <2>1 DEF Steady, Leaves, Calm
<1>9. Steady'
  BY <1>6, <1>7, <1>8 DEF Steady
<1>10. QED
  BY <1>3, <1>4, <1>9 DEF Undisturbed

LEMMA BecomeCalm ==
  ASSUME RouterInv, BothWays, Steady, NEW n \in Node, NEW s, Sound(n, s), Calm(n, s),
         Become(n, s), up' = up
  PROVE  Undisturbed
<1>1. /\ connections \in [Node -> SUBSET Node] /\ adjMatrix \in [Node -> [Node -> [Node -> Int]]]
      /\ seqNumMatrix \in [Node -> [Node -> [Node -> Nat]]] /\ DOMAIN confirmedMap = Node
  BY DEF RouterInv, LsTypeOK, MonitorTypeOK
<1>2. Leaves(n, s)
  BY <1>1 DEF Become, Leaves
<1>3. s.net \in [Hop -> Seq(LSP)] /\ s.seq \in [Node -> [Node -> Nat]]
  BY DEF Sound, Known, Typed, Network
<1>4. QED
  BY <1>2, <1>3, CalmStays

LEMMA HearCalm ==
  ASSUME RouterInv, BothWays, Steady, NoFalseAlarm, NEW n \in Node, NEW m \in Node, Hear(n, m)
  PROVE  Undisturbed
<1>1. up \subseteq Link /\ m \in Announcing(n) /\ up' = up /\ <<m, n>> \in up
  BY TurnStart DEF Hear, Announcing
<1>2. m \in Neighbors(n)
  BY <1>1, NeighborsAreOthers DEF Neighbors
<1>3. PICK s \in Turn(n, State(n), m) : Become(n, s)
  BY DEF Hear
<1>4. Sound(n, s)
  BY <1>2, TurnStart, TurnOK
<1>5. FalseAlarms /\ n \in Hearing => connections[n] \subseteq s.conn
  BY <1>3 DEF NoFalseAlarm, Become, RouterInv, LsTypeOK, MonitorTypeOK
<1>6. Calm(n, s)
  BY <1>1, <1>2, <1>5, TurnStart, CalmStart, TurnCalm
<1>7. QED
  BY <1>1, <1>3, <1>4, <1>6, BecomeCalm

LEMMA ReceiveLSPCalm ==
  ASSUME RouterInv, BothWays, TidyInv, Steady, NoFalseAlarm,
         NEW n \in Node, NEW m \in Node, ReceiveLSP(n, m)
  PROVE  Undisturbed
<1> DEFINE h == <<m, n>>
           p == Head(net[h])
           g == Taken(n, m)
<1>1. net[h] # <<>> /\ h \in Hop /\ up' = up
  BY DEF ReceiveLSP, Hop
<1>2. /\ said \in History /\ up \subseteq Link /\ connections[n] \in SUBSET Neighbors(n)
      /\ net \in [Hop -> Seq(LSP)]
  BY TurnStart DEF Network
<1>3. PICK t \in Turn(n, g, m) : Become(n, Accept(n, t, p, m))
  BY DEF ReceiveLSP, Taken
<1>4. /\ g = [conn |-> State(n).conn, cost |-> State(n).cost, adj |-> State(n).adj,
              seq |-> State(n).seq, fwd |-> State(n).fwd, net |-> [net EXCEPT ![h] = Tail(@)],
              mesg |-> mesg, said |-> State(n).said, floods |-> State(n).floods]
      /\ Sound(n, g) /\ m \in Neighbors(n) /\ Sound(n, t) /\ p \in Authentic(Hist(n, t))
  BY <1>1, TakenIs
<1>5. h \in up /\ <<m, n>> \in up
  BY <1>1 DEF Steady
<1>6. Calm(n, g)
  <2>1. State(n).net = net /\ State(n).mesg = mesg /\ Calm(n, State(n))
    BY CalmStart DEF State
  <2> HIDE DEF g, h
  <2>2. /\ g.conn = State(n).conn /\ g.cost = State(n).cost /\ g.adj = State(n).adj
        /\ g.seq = State(n).seq /\ g.fwd = State(n).fwd /\ g.net = [net EXCEPT ![h] = Tail(@)]
        /\ g.mesg = mesg
    BY <1>4
  <2>3. Fewer(State(n).net, g.net)
    BY <1>1, <1>2, <2>1, <2>2 DEF Fewer
  <2>4. QED
    BY <1>2, <2>1, <2>2, <2>3, FewerCalm
<1>7. \A d \in NewsTo(p) : ~ CanReach(p, n, d)
  <2>1. net[h] \in Seq(LSP) /\ h[2] = n
    BY <1>1, <1>2
  <2> HIDE DEF h
  <2>2. 1 \in DOMAIN net[h] /\ net[h][1] = p
    BY <1>1, <2>1
  <2> HIDE DEF p
  <2>3. \A d \in NewsTo(net[h][1]) : ~ CanReach(net[h][1], h[2], d)
    BY <1>1, <2>2 DEF Steady
  <2>4. QED
    BY <2>1, <2>2, <2>3
<1>8. Tidy(n, g)
  BY <1>1, TakenTidy
<1> HIDE DEF p, g
<1>9. Current(n, t)
  BY <1>2, <1>3, <1>4, <1>8, TurnTidy DEF Tidy
<1> DEFINE s == Accept(n, t, p, m)
<1>10. Become(n, s) /\ s = Accept(n, t, p, m)
  BY <1>3
<1> HIDE DEF s
<1>11. Sound(n, s) /\ s.conn = t.conn
  <2>1. Sound(n, s) /\ (Fresh(t, p) => Accepted(n, t, p, m, s))
    BY <1>2, <1>4, <1>10, AcceptOK
  <2>2. QED
    BY <1>10, <2>1 DEF Accept, Accepted
<1>12. FalseAlarms /\ n \in Hearing => connections[n] \subseteq t.conn
  BY <1>10, <1>11 DEF NoFalseAlarm, Become, RouterInv, LsTypeOK, MonitorTypeOK
<1>13. Calm(n, t)
  BY <1>3, <1>4, <1>5, <1>6, <1>12, TurnCalm
<1>14. Calm(n, s)
  BY <1>4, <1>5, <1>7, <1>9, <1>10, <1>13, AcceptCalm
<1>15. QED
  BY <1>1, <1>10, <1>11, <1>14, BecomeCalm

LEMMA SendCommandCalm ==
  ASSUME RouterInv, BothWays, Steady, NoFalseAlarm, NEW n \in Node, NEW d \in Node,
         SendCommand(n, d)
  PROVE  Undisturbed
<1>1. up \subseteq Link /\ up' = up /\ Sound(n, State(n))
  BY TurnStart DEF SendCommand
<1>2. PICK t \in Turn(n, State(n), Manager) : Become(n, Forward(n, t, d))
  BY DEF SendCommand
<1>3. Sound(n, t)
  BY TurnStart, TurnOK
<1>4. IsState(t)
  BY <1>3 DEF Sound, Known, Typed
<1> DEFINE s == Forward(n, t, d)
<1>5. Become(n, s) /\ s = Forward(n, t, d)
  BY <1>2
<1> HIDE DEF s
<1>6. Sound(n, s)
  BY <1>1, <1>3, <1>5, ForwardOK
<1>7. s.conn = t.conn /\ (Calm(n, t) => Calm(n, s))
  BY <1>4, <1>5, ForwardCalm
<1>8. FalseAlarms /\ n \in Hearing => connections[n] \subseteq t.conn
  BY <1>5, <1>7 DEF NoFalseAlarm, Become, RouterInv, LsTypeOK, MonitorTypeOK
<1>9. Calm(n, t)
  BY <1>1, <1>2, <1>8, CalmStart, TurnCalm
<1>10. QED
  BY <1>1, <1>5, <1>6, <1>7, <1>9, BecomeCalm

LEMMA ReceiveForwardCalm ==
  ASSUME RouterInv, BothWays, Steady, NoFalseAlarm, NEW p \in mesg, ReceiveForward(p)
  PROVE  Undisturbed
<1> DEFINE n == p.to
           g == Got(p)
<1>1. /\ n \in Node /\ p.dest \in Node /\ p.from \in Neighbors(n)
      /\ g = [conn |-> State(n).conn, cost |-> State(n).cost, adj |-> State(n).adj,
              seq |-> State(n).seq, fwd |-> State(n).fwd, net |-> net, mesg |-> mesg \ {p},
              said |-> State(n).said, floods |-> State(n).floods]
      /\ Sound(n, g) /\ g.floods = floods
  BY GotIs
<1>2. PICK t \in Turn(n, g, p.from) : Become(n, Forward(n, t, p.dest))
  BY DEF ReceiveForward, Got
<1>3. up' = up /\ <<p.from, n>> \in up
  BY DEF ReceiveForward, Steady
<1> HIDE DEF n, g
<1>4. /\ said \in History /\ up \subseteq Link /\ floods \in 0 .. MaxFloods
      /\ connections[n] \in SUBSET Neighbors(n) /\ net \in [Hop -> Seq(LSP)]
  BY <1>1, TurnStart DEF Network
<1>5. Calm(n, g)
  <2>1. State(n).net = net /\ State(n).mesg = mesg /\ Calm(n, State(n))
    BY <1>1, CalmStart DEF State
  <2>2. /\ g.conn = State(n).conn /\ g.cost = State(n).cost /\ g.adj = State(n).adj
        /\ g.seq = State(n).seq /\ g.fwd = State(n).fwd /\ g.net = net
        /\ g.mesg = mesg \ {p}
    BY <1>1
  <2>3. Fewer(State(n).net, g.net)
    BY <2>1, <2>2 DEF Fewer
  <2>4. QED
    BY <1>1, <1>4, <2>1, <2>2, <2>3, FewerCalm
<1>6. Sound(n, t)
  BY <1>1, <1>2, <1>4, TurnOK
<1>7. IsState(t)
  BY <1>6 DEF Sound, Known, Typed
<1> DEFINE s == Forward(n, t, p.dest)
<1>8. Become(n, s) /\ s = Forward(n, t, p.dest)
  BY <1>2
<1> HIDE DEF s
<1>9. Sound(n, s)
  BY <1>1, <1>4, <1>6, <1>8, ForwardOK
<1>10. s.conn = t.conn /\ (Calm(n, t) => Calm(n, s))
  BY <1>1, <1>7, <1>8, ForwardCalm
<1>11. FalseAlarms /\ n \in Hearing => connections[n] \subseteq t.conn
  BY <1>1, <1>8, <1>10 DEF NoFalseAlarm, Become, RouterInv, LsTypeOK, MonitorTypeOK
<1>12. Calm(n, t)
  BY <1>1, <1>2, <1>3, <1>5, <1>11, TurnCalm
<1>13. QED
  BY <1>1, <1>3, <1>8, <1>9, <1>10, <1>12, BecomeCalm

\* A loss is a turn in which some node does nothing but see a packet fewer under way.
LEMMA LoseLSPCalm ==
  ASSUME RouterInv, BothWays, Steady, NEW h \in Hop, LoseLSP(h)
  PROVE  Undisturbed
<1>1. PICK n \in Node : TRUE
  BY DEF Hop
<1>2. /\ net[h] # <<>> /\ net' = [net EXCEPT ![h] = Tail(@)] /\ up' = up
      /\ connections' = connections /\ costs' = costs /\ adjMatrix' = adjMatrix
      /\ seqNumMatrix' = seqNumMatrix /\ confirmedMap' = confirmedMap /\ mesg' = mesg
  BY DEF LoseLSP, monitorVars
<1>3. /\ net \in [Hop -> Seq(LSP)] /\ costs \in [Node -> [Node -> Nat]]
      /\ seqNumMatrix \in [Node -> [Node -> [Node -> Nat]]]
  BY DEF RouterInv, LsTypeOK, MonitorTypeOK
<1>4. net' \in [Hop -> Seq(LSP)]
  BY LoseLSPInv DEF RouterInv, LsTypeOK
<1> DEFINE g == State(n)
           s == [g EXCEPT !.net = net']
<1>5. /\ g.conn = connections[n] /\ g.cost = costs[n] /\ g.adj = adjMatrix[n]
      /\ g.seq = seqNumMatrix[n] /\ g.fwd = confirmedMap[n] /\ g.net = net /\ g.mesg = mesg
      /\ Calm(n, g)
  BY CalmStart DEF State
<1>6. /\ s.conn = g.conn /\ s.cost = g.cost /\ s.adj = g.adj /\ s.seq = g.seq /\ s.fwd = g.fwd
      /\ s.net = net' /\ s.mesg = mesg
  BY DEF State
<1> HIDE DEF g, s
<1>7. Calm(n, s)
  <2>1. Fewer(g.net, s.net)
    BY <1>2, <1>3, <1>5, <1>6 DEF Fewer
  <2>2. g.net \in [Hop -> Seq(LSP)] /\ s.mesg \subseteq g.mesg /\ Calm(n, g)
    BY <1>3, <1>5, <1>6
  <2>3. QED
    BY <1>6, <2>1, <2>2, FewerCalm
<1>8. Leaves(n, s)
  BY <1>2, <1>3, <1>5, <1>6 DEF Leaves
<1>9. QED
  BY <1>3, <1>4, <1>5, <1>6, <1>7, <1>8, CalmStays

\* Once every node in its reach knows all a node can tell, and what is under way tells
\* nobody anything new, the turns of ls_router.cpp only repeat it, in any network whose
\* links work both ways: whatever is sent, lost, passed on or flooded periodically, no
\* matrix and no table of a node that hears anybody changes. Nothing is assumed of the
\* TTL: who is out of reach is told nothing.
THEOREM SteadyNetworkStays == Spec => SteadyStays
<1> DEFINE A == UNCHANGED changes /\ Steady
                /\ (FalseAlarms => \A n \in Hearing : connections[n] \subseteq connections'[n])
                  => /\ Steady' /\ UNCHANGED costs
                     /\ \A n \in Hearing : /\ adjMatrix'[n] = adjMatrix[n]
                                            /\ confirmedMap'[n] = confirmedMap[n]
<1>1. RouterInv /\ BothWays /\ TidyInv /\ [Next]_vars => [A]_vars
  <2>1. SUFFICES ASSUME RouterInv, BothWays, TidyInv, Next, changes' = changes, Steady,
                        NoFalseAlarm
                 PROVE  Undisturbed
    BY DEF NoFalseAlarm, Undisturbed
  <2>2. CASE \E n, m \in Node : Hear(n, m)
    BY <2>1, <2>2, HearCalm
  <2>3. CASE \E n, m \in Node : ReceiveLSP(n, m)
    BY <2>1, <2>3, ReceiveLSPCalm
  <2>4. changes \in Nat
    BY <2>1, MonitorAssumption DEF RouterInv, LsTypeOK, MonitorTypeOK
  <2>5. ASSUME NEW n \in Node, NEW m \in Node, NEW c \in NewCosts, CostCommand(n, m, c)
        PROVE  FALSE
    <3>1. changes' = changes + 1
      BY <2>5 DEF CostCommand
    <3>2. QED
      BY <2>1, <2>4, <3>1
  <2>6. CASE \E n, d \in Node : SendCommand(n, d)
    BY <2>1, <2>6, SendCommandCalm
  <2>7. CASE \E p \in mesg : ReceiveForward(p)
    BY <2>1, <2>7, ReceiveForwardCalm
  <2>8. ASSUME NEW l \in Link, LinkChange(l) PROVE FALSE
    <3>1. changes' = changes + 1
      BY <2>8 DEF LinkChange
    <3>2. QED
      BY <2>1, <2>4, <3>1
  <2>9. CASE \E h \in Hop : LoseLSP(h)
    BY <2>1, <2>9, LoseLSPCalm
  <2>10. QED
    BY <2>1, <2>2, <2>3, <2>5, <2>6, <2>7, <2>8, <2>9 DEF Next
<1>2. QED
  BY <1>1, Invariance, LinksGoBothWays, Tidiness, PTL DEF Spec, SteadyStays
=============================================================================
