-------------------------- MODULE VecHistoryProofs --------------------------
(***************************************************************************)
(* Proofs about VecRouterHistory: routers that have missed nothing follow  *)
(* their next hops, for every network, whatever goes wrong elsewhere.      *)
(***************************************************************************)
EXTENDS VecRouterHistory, VecRouterProofs

-----------------------------------------------------------------------------
(* Words under way.                                                         *)

LEMMA AppendCurrent ==
  ASSUME NEW p \in Seq(Update), NEW u \in Seq(Update), NEW dv, NEW dw, NEW k,
         \A i \in 1 .. Len(u) : u[i].dist = Advertised(dw[u[i].dest], k),
         \A d \in Node : Says(u, d) \/ dw[d] = dv[d]
  PROVE  /\ \A d \in Node : Says(p \o u, d) <=> Says(p, d) \/ Says(u, d)
         /\ Current(p, dv, k) => Current(p \o u, dw, k)
<1> DEFINE q == p \o u
<1>1. Len(p) \in Nat /\ Len(u) \in Nat /\ DOMAIN p = 1 .. Len(p) /\ DOMAIN u = 1 .. Len(u)
  OBVIOUS
<1>2. /\ q \in Seq(Update) /\ DOMAIN q = 1 .. Len(p) + Len(u)
      /\ \A i \in 1 .. Len(p) : q[i] = p[i]
      /\ \A i \in 1 .. Len(u) : Len(p) + i \in DOMAIN q /\ q[Len(p) + i] = u[i]
  BY ConcatProperties
<1>3. ASSUME NEW i \in DOMAIN q, i \notin 1 .. Len(p)
      PROVE  i - Len(p) \in 1 .. Len(u) /\ q[i] = u[i - Len(p)]
  BY <1>1, <1>2, <1>3, ConcatProperties
<1> HIDE DEF q
<1>4. ASSUME NEW d \in Node PROVE Says(q, d) <=> Says(p, d) \/ Says(u, d)
  <2>1. Says(q, d) => Says(p, d) \/ Says(u, d)
    BY <1>1, <1>2, <1>3 DEF Says
  <2>2. Says(p, d) => Says(q, d)
    BY <1>1, <1>2 DEF Says
  <2>3. Says(u, d) => Says(q, d)
    BY <1>1, <1>2 DEF Says
  <2>4. QED
    BY <2>1, <2>2, <2>3
<1>5. ASSUME Current(p, dv, k) PROVE Current(q, dw, k)
  <2>1. SUFFICES ASSUME NEW i \in DOMAIN q
                 PROVE \/ \E j \in DOMAIN q : i < j /\ q[j].dest = q[i].dest
                       \/ q[i].dist = Advertised(dw[q[i].dest], k)
    BY DEF Current
  <2>2. CASE i \notin 1 .. Len(p)
    BY <1>3, <2>2
  <2>3. CASE i \in 1 .. Len(p)
    <3>1. q[i] = p[i] /\ p[i].dest \in Node
      <4>1. p[i] \in Update
        BY <2>3, <1>1
      <4>2. QED
        BY <4>1, <2>3, <1>2 DEF Update
    <3>2. CASE \E j \in 1 .. Len(p) : i < j /\ p[j].dest = p[i].dest
      <4>1. PICK j \in 1 .. Len(p) : i < j /\ p[j].dest = p[i].dest
        BY <3>2
      <4>2. j \in DOMAIN q /\ q[j] = p[j]
        BY <1>1, <1>2
      <4>3. QED
        BY <3>1, <4>1, <4>2
    <3>3. CASE p[i].dist = Advertised(dv[p[i].dest], k)
      <4>1. CASE Says(u, p[i].dest)
        <5>1. PICK j \in 1 .. Len(u) : u[j].dest = p[i].dest
          BY <4>1, <1>1 DEF Says
        <5>2. i < Len(p) + j
          BY <2>3, <1>1
        <5>3. QED
          BY <5>1, <5>2, <3>1, <1>2
      <4>2. CASE ~Says(u, p[i].dest)
        BY <4>2, <3>1, <3>3
      <4>3. QED
        BY <4>1, <4>2
    <3>4. QED
      BY <1>5, <2>3, <3>2, <3>3, <1>1 DEF Current
  <2>4. QED
    BY <2>2, <2>3
<1>6. QED
  BY <1>4, <1>5 DEF q

\* The rest of what is under way, once the first word is heard.
LEMMA TailCurrent ==
  ASSUME NEW q \in Seq(Update), q # <<>>, NEW dv, NEW k, Current(q, dv, k)
  PROVE  /\ Current(Tail(q), dv, k)
         /\ \A d \in Node : Says(q, d) <=> Head(q).dest = d \/ Says(Tail(q), d)
         /\ \/ Says(Tail(q), Head(q).dest)
            \/ Head(q).dist = Advertised(dv[Head(q).dest], k)
<1> DEFINE t == Tail(q)
<1>1. /\ t \in Seq(Update) /\ Len(q) \in Nat /\ Len(t) = Len(q) - 1 /\ Len(q) > 0
      /\ DOMAIN q = 1 .. Len(q) /\ DOMAIN t = 1 .. Len(t)
      /\ \A i \in 1 .. Len(t) : t[i] = q[i + 1]
      /\ Head(q) = q[1]
  BY HeadTailProperties
<1> HIDE DEF t
<1>2. \A i \in DOMAIN q : i = 1 \/ (i - 1 \in DOMAIN t /\ q[i] = t[i - 1])
  BY <1>1
<1>3. \A i \in DOMAIN t : i + 1 \in DOMAIN q
  BY <1>1
<1>4. Current(t, dv, k)
  <2>1. SUFFICES ASSUME NEW i \in DOMAIN t
                 PROVE \/ \E j \in DOMAIN t : i < j /\ t[j].dest = t[i].dest
                       \/ t[i].dist = Advertised(dv[t[i].dest], k)
    BY DEF Current
  <2>2. i + 1 \in DOMAIN q /\ t[i] = q[i + 1]
    BY <1>1, <1>3
  <2>3. CASE \E j \in DOMAIN q : i + 1 < j /\ q[j].dest = q[i + 1].dest
    <3>1. PICK j \in DOMAIN q : i + 1 < j /\ q[j].dest = q[i + 1].dest
      BY <2>3
    <3>2. j - 1 \in DOMAIN t /\ i < j - 1 /\ q[j] = t[j - 1]
      BY <3>1, <1>1, <1>2
    <3>3. QED
      BY <3>1, <3>2, <2>2
  <2>4. QED
    BY <2>2, <2>3 DEF Current
<1>5. \A d \in Node : Says(q, d) <=> q[1].dest = d \/ Says(t, d)
  <2>1. SUFFICES ASSUME NEW d \in Node
                 PROVE Says(q, d) <=> q[1].dest = d \/ Says(t, d)
    OBVIOUS
  <2>2. Says(q, d) => q[1].dest = d \/ Says(t, d)
    BY <1>2 DEF Says
  <2>3. Says(t, d) => Says(q, d)
    BY <1>1, <1>3 DEF Says
  <2>4. 1 \in DOMAIN q
    BY <1>1
  <2>5. QED
    BY <2>2, <2>3, <2>4 DEF Says
<1>6. \/ Says(t, q[1].dest) \/ q[1].dist = Advertised(dv[q[1].dest], k)
  <2>1. 1 \in DOMAIN q
    BY <1>1
  <2>2. CASE \E j \in DOMAIN q : 1 < j /\ q[j].dest = q[1].dest
    BY <2>2, <1>1, <1>2 DEF Says
  <2>3. QED
    BY <2>1, <2>2 DEF Current
<1>7. QED
  BY <1>1, <1>4, <1>5, <1>6 DEF t

-----------------------------------------------------------------------------
(* What a turn of n, or a part of it, from r to s, does to another node k.   *)

\* What k hears of it: that n's table has changed, unless n has dropped k.
Tells(n, k, r, s) ==
  LET p == r.net[<<n, k>>]  q == s.net[<<n, k>>] IN
  /\ k \in s.conn => k \in r.conn
  /\ k \notin r.conn /\ p = <<>> => q = <<>>
  /\ (<<n, k>> \in up /\ k \in s.conn /\ Len(q) < MaxInFlight) =>
       /\ Len(p) < MaxInFlight
       /\ Current(p, r.dv, k) => Current(q, s.dv, k)
       /\ \A d \in Node : Says(p, d) \/ s.dv[d] # r.dv[d] => Says(q, d)

\* What it routes through k: what it did before, and k itself at a cost of F.
OnlyDirect(k, F, r, s) ==
  \A d \in Node : s.dv[d].nextHop = k =>
    s.dv[d] = r.dv[d] \/ (d = k /\ \E c \in F : s.dv[k].dist = Limited(c))

\* What others have said is not n's to change.
OthersWords(n, r, s) == \A g \in Hop : g[1] # n => s.net[g] = r.net[g]

Keeps(n, k, F, r, s) == Tells(n, k, r, s) /\ OnlyDirect(k, F, r, s) /\ OthersWords(n, r, s)

LEMMA KeepsStutter ==
  ASSUME NEW n, NEW k, NEW F, NEW r, NEW s, s.conn = r.conn, s.dv = r.dv, s.net = r.net
  PROVE  Keeps(n, k, F, r, s)
  BY DEF Keeps, Tells, OnlyDirect, OthersWords

LEMMA TellsTrans ==
  ASSUME NEW n, NEW k, NEW r, NEW s, NEW t, Tells(n, k, r, s), Tells(n, k, s, t)
  PROVE  Tells(n, k, r, t)
  BY DEF Tells

LEMMA OthersWordsTrans ==
  ASSUME NEW n, NEW r, NEW s, NEW t, OthersWords(n, r, s), OthersWords(n, s, t)
  PROVE  OthersWords(n, r, t)
  BY DEF OthersWords

LEMMA KeepsTrans ==
  ASSUME NEW n, NEW k, NEW F, NEW r, NEW s, NEW t, Keeps(n, k, F, r, s), Keeps(n, k, F, s, t)
  PROVE  Keeps(n, k, F, r, t)
<1>1. OnlyDirect(k, F, r, t)
  BY DEF Keeps, OnlyDirect
<1>2. QED
  BY <1>1, TellsTrans, OthersWordsTrans DEF Keeps

\* What is sent says what the table holds of the destinations it is about.
LEMMA SentTo ==
  ASSUME up \subseteq Link, NEW n \in Node, NEW k \in Node, NEW s \in TurnState(n), NEW told
  PROVE  \E u \in Seq(Update) :
           /\ SendUpdates(n, s, told).net[<<n, k>>] =
                IF <<n, k>> \in up THEN Buffered(s.net[<<n, k>>] \o u) ELSE s.net[<<n, k>>]
           /\ \A i \in 1 .. Len(u) : /\ u[i].dist = Advertised(s.dv[u[i].dest], k)
                                     /\ <<k, u[i].dest>> \in told
           /\ \A d \in Node : <<k, d>> \in told => Says(u, d)
<1> DEFINE dests(m) == InIdOrder[{d \in Node : <<m, d>> \in told}]
           updates(m) == [i \in DOMAIN dests(m) |->
              [dest |-> dests(m)[i], dist |-> Advertised(s.dv[dests(m)[i]], m)]]
           q == [h \in Hop |-> IF h[1] = n /\ h \in up
                               THEN Buffered(s.net[h] \o updates(h[2])) ELSE s.net[h]]
           S == {d \in Node : <<k, d>> \in told}
           u == updates(k)
<1>1. SendUpdates(n, s, told).net = q
  BY DEF SendUpdates, TurnState
<1>2. InIdOrder[S] \in Seq(S)
  BY InIdOrderType
<1>3. DOMAIN InIdOrder[S] = 1 .. Len(InIdOrder[S]) /\ Len(InIdOrder[S]) \in Nat
  BY <1>2
<1>4. \A i \in DOMAIN InIdOrder[S] : InIdOrder[S][i] \in S
  <2> HIDE DEF S
  <2>1. QED
    BY <1>2, <1>3
<1>5. \A i \in DOMAIN InIdOrder[S] :
        u[i] = [dest |-> InIdOrder[S][i], dist |-> Advertised(s.dv[InIdOrder[S][i]], k)]
  OBVIOUS
<1>6. u \in Seq(Update) /\ DOMAIN u = 1 .. Len(u) /\ DOMAIN u = DOMAIN InIdOrder[S]
  <2>1. ASSUME NEW i \in DOMAIN InIdOrder[S] PROVE u[i] \in Update
    <3>1. InIdOrder[S][i] \in Node
      BY <1>4
    <3>2. s.dv[InIdOrder[S][i]] \in Entry
      <4>1. s.dv \in [Node -> Entry]
        BY Fields DEF RouteTable
      <4> HIDE DEF S
      <4>2. QED
        BY <3>1, <4>1
    <3>3. Advertised(s.dv[InIdOrder[S][i]], k) \in Distance
      BY <3>2 DEF Advertised, Entry, Distance
    <3>4. QED
      BY <1>5, <3>1, <3>3 DEF Update
  <2>2. DOMAIN u = DOMAIN InIdOrder[S]
    OBVIOUS
  <2>3. u = [i \in DOMAIN u |-> u[i]]
    OBVIOUS
  <2> HIDE DEF u, S
  <2>4. u \in Seq(Update)
    BY <2>1, <2>2, <2>3, <1>3
  <2>5. QED
    BY <2>2, <2>4
<1>7. \A d \in Node : <<k, d>> \in told => Says(u, d)
  <2>1. SUFFICES ASSUME NEW d \in S PROVE Says(u, d)
    OBVIOUS
  <2>2. PICK i \in DOMAIN InIdOrder[S] : InIdOrder[S][i] = d
    BY InIdOrderCovers
  <2>3. u[i].dest = d /\ i \in DOMAIN u
    BY <2>2, <1>5, <1>6
  <2> HIDE DEF u, S
  <2>4. QED
    BY <2>3 DEF Says
<1>8. q[<<n, k>>] = IF <<n, k>> \in up THEN Buffered(s.net[<<n, k>>] \o u) ELSE s.net[<<n, k>>]
  <2>1. <<n, k>> \in Hop
    BY DEF Hop
  <2> HIDE DEF updates
  <2>2. QED
    BY <2>1
<1>9. \A i \in 1 .. Len(u) : /\ u[i].dist = Advertised(s.dv[u[i].dest], k)
                              /\ <<k, u[i].dest>> \in told
  BY <1>4, <1>5, <1>6
<1> HIDE DEF q, u
<1>10. QED
  BY <1>1, <1>6, <1>7, <1>8, <1>9

LEMMA SentToOthers ==
  ASSUME NEW n \in Node, NEW s \in TurnState(n), NEW told
  PROVE  OthersWords(n, s, SendUpdates(n, s, told))
  BY DEF SendUpdates, TurnState, OthersWords


LEMMA NotTruncated ==
  ASSUME NEW q \in Seq(Update), Len(Buffered(q)) < MaxInFlight
  PROVE  Buffered(q) = q
<1>1. SUFFICES ASSUME ~ (Len(q) <= MaxInFlight) PROVE FALSE
  BY DEF Buffered
<1>2. MaxInFlight \in Nat /\ Len(q) \in Nat /\ MaxInFlight < Len(q)
  BY <1>1, RouterAssumption
<1>3. Len(SubSeq(q, 1, MaxInFlight)) = MaxInFlight
  BY <1>2, SubSeqProperties
<1>4. QED
  BY <1>1, <1>2, <1>3 DEF Buffered

LEMMA SendUpdatesTells ==
  ASSUME up \subseteq Link, NEW n \in Node, NEW k \in Node, NEW r, NEW s \in TurnState(n), NEW told,
         r.net = s.net, k \in s.conn => k \in r.conn,
         k \notin r.conn => \A d \in Node : <<k, d>> \notin told,
         k \in s.conn => \A d \in Node : s.dv[d] # r.dv[d] => <<k, d>> \in told
  PROVE  Tells(n, k, r, SendUpdates(n, s, told))
<1> DEFINE t == SendUpdates(n, s, told)
           p == s.net[<<n, k>>]
           q == t.net[<<n, k>>]
<1>1. t.conn = s.conn /\ t.dv = s.dv
  BY SendUpdatesOK
<1>2. p \in Seq(Update)
  <2>1. s.net \in [Hop -> Seq(Update)] /\ <<n, k>> \in Hop
    BY Fields DEF Network, Hop
  <2>2. QED
    BY <2>1
<1>3. PICK u \in Seq(Update) :
        /\ q = IF <<n, k>> \in up THEN Buffered(p \o u) ELSE p
        /\ \A i \in 1 .. Len(u) : /\ u[i].dist = Advertised(s.dv[u[i].dest], k)
                                  /\ <<k, u[i].dest>> \in told
        /\ \A d \in Node : <<k, d>> \in told => Says(u, d)
  BY SentTo
<1> HIDE DEF t, p, q
<1>4. p \o u \in Seq(Update) /\ Len(p \o u) = Len(p) + Len(u) /\ Len(p) \in Nat /\ Len(u) \in Nat
  BY <1>2, ConcatProperties
<1>5. ASSUME k \notin r.conn, p = <<>> PROVE q = <<>>
  <2>1. \A i \in 1 .. Len(u) : u[i] \in Update
    BY <1>4
  <2>2. \A i \in 1 .. Len(u) : FALSE
    BY <1>3, <1>5, <2>1 DEF Update
  <2>3. Len(u) = 0
    <3>1. SUFFICES ASSUME Len(u) > 0 PROVE FALSE
      BY <1>4
    <3>2. 1 \in 1 .. Len(u)
      BY <3>1, <1>4
    <3>3. QED
      BY <2>2, <3>2
  <2>4. u = <<>>
    BY <2>3, EmptySeq
  <2>5. p \o u = <<>>
    BY <1>5, <2>4, ConcatEmptySeq
  <2>6. Buffered(<<>>) = <<>>
    BY RouterAssumption DEF Buffered
  <2>7. QED
    BY <1>3, <1>5, <2>5, <2>6
<1>6. ASSUME <<n, k>> \in up, k \in s.conn, Len(q) < MaxInFlight
      PROVE  /\ Len(p) < MaxInFlight
             /\ Current(p, r.dv, k) => Current(q, s.dv, k)
             /\ \A d \in Node : Says(p, d) \/ s.dv[d] # r.dv[d] => Says(q, d)
  <2>1. q = p \o u
    BY <1>3, <1>4, <1>6, NotTruncated
  <2>2. Len(p) < MaxInFlight
    BY <2>1, <1>4, <1>6, RouterAssumption
  <2>3. \A d \in Node : Says(u, d) \/ s.dv[d] = r.dv[d]
    BY <1>3, <1>6
  <2>4. /\ \A d \in Node : Says(q, d) <=> Says(p, d) \/ Says(u, d)
        /\ Current(p, r.dv, k) => Current(q, s.dv, k)
    <3>1. \A i \in 1 .. Len(u) : u[i].dist = Advertised(s.dv[u[i].dest], k)
      BY <1>3
    <3> DEFINE dv == r.dv
               dw == s.dv
    <3> HIDE DEF dv, dw
    <3>2. /\ \A d \in Node : Says(p \o u, d) <=> Says(p, d) \/ Says(u, d)
          /\ Current(p, dv, k) => Current(p \o u, dw, k)
      BY <2>3, <3>1, <1>2, AppendCurrent DEF dv, dw
    <3>3. QED
      BY <2>1, <3>2 DEF dv, dw
  <2>5. QED
    BY <2>2, <2>3, <2>4
<1>7. QED
  BY <1>1, <1>5, <1>6 DEF Tells, t, p, q

-----------------------------------------------------------------------------
(* The functions of a turn.                                                 *)

\* What is noted of a destination, connected neighbours are told; only for k is an
\* entry through k noted.
LEMMA UpdateDistVecKeeps ==
  ASSUME up \subseteq Link, NEW n \in Node, NEW k \in Node, NEW s \in TurnState(n), NEW d \in Node,
         NEW dist \in Nat \cup {Infinite}, Honest(n, d, dist), NEW hop \in s.conn
  PROVE  LET r == UpdateDistVec(n, s, d, dist, hop) IN
         /\ Tells(n, k, s, r)
         /\ OthersWords(n, s, r)
         /\ \A f \in Node \ {d} : r.dv[f] = s.dv[f]
         /\ r.dv[d] # s.dv[d] => r.dv[d].nextHop \in {hop, None}
         /\ d # n /\ r.dv[d].nextHop = hop => r.dv[d].dist = Limited(dist)
<1> DEFINE e == EntryFor(Limited(dist), hop)
           t == [s EXCEPT !.dv[d] = e]
           r == UpdateDistVec(n, s, d, dist, hop)
<1>0. hop \in Node /\ hop # None /\ s.dv \in [Node -> Entry]
  <2>1. s.conn \in SUBSET Neighbors(n) /\ s.dv \in RouteTable(n)
    BY Fields
  <2>2. hop \in Node
    BY <2>1 DEF Neighbors
  <2>3. QED
    BY <2>1, <2>2, NeighborsAreOthers DEF RouteTable
<1>1. CASE d # n /\ Necessary(s.conn, s.dv[d], Limited(dist), hop)
  <2>1. e \in HonestEntry(n, d) /\ e.nextHop \in s.conn \cup {None} /\ e.nextHop \in {hop, None}
    BY <1>0, NewEntryHonest
  <2>2. e.dist = Limited(dist)
    BY DEF EntryFor, Unreachable
  <2>3. t \in TurnState(n) /\ t.conn = s.conn /\ t.cost = s.cost
    <3> HIDE DEF e
    <3>1. QED
      BY <1>1, <2>1, OtherEntry
  <2>4. t.net = s.net /\ t.dv = [s.dv EXCEPT ![d] = e]
    BY DEF TurnState
  <2>5. r = SendUpdates(n, t, s.conn \X {d})
    BY <1>1 DEF UpdateDistVec
  <2> HIDE DEF t, r, e
  <2>6. r.dv = t.dv
    BY <2>3, <2>5, SendUpdatesOK
  <2>7. \A f \in Node \ {d} : r.dv[f] = s.dv[f]
    BY <2>4, <2>6, <1>0
  <2>8. r.dv[d] = e
    BY <2>4, <2>6, <1>0
  <2>9. Tells(n, k, s, r)
    <3>1. k \notin s.conn => \A f \in Node : <<k, f>> \notin s.conn \X {d}
      OBVIOUS
    <3>2. k \in t.conn => \A f \in Node : t.dv[f] # s.dv[f] => <<k, f>> \in s.conn \X {d}
      BY <2>3, <2>6, <2>7
    <3>3. QED
      BY <2>3, <2>4, <2>5, <3>1, <3>2, SendUpdatesTells
  <2>10. OthersWords(n, s, r)
    <3>1. OthersWords(n, t, r)
      BY <2>3, <2>5, SentToOthers
    <3>2. QED
      BY <2>4, <3>1 DEF OthersWords
  <2>11. QED
    BY <2>1, <2>2, <2>7, <2>8, <2>9, <2>10 DEF r
<1>2. CASE ~ (d # n /\ Necessary(s.conn, s.dv[d], Limited(dist), hop))
  <2>1. r = s
    BY <1>2 DEF UpdateDistVec
  <2> HIDE DEF r
  <2>2. Tells(n, k, s, r) /\ OthersWords(n, s, r)
    BY <2>1, KeepsStutter DEF Keeps
  <2>3. d # n /\ s.dv[d].nextHop = hop => s.dv[d].dist = Limited(dist)
    BY <1>2 DEF Necessary
  <2>4. QED
    BY <2>1, <2>2, <2>3 DEF r
<1>3. QED
  BY <1>1, <1>2

\* n as it is once it has noted that from is connected.
Joined(s, from) == [s EXCEPT !.conn = @ \cup ({from} \ {None})]

LEMMA JoinedIs ==
  ASSUME NEW n, NEW s \in TurnState(n), NEW from
  PROVE  Joined(s, from) = [conn |-> s.conn \cup ({from} \ {None}), cost |-> s.cost,
                            dv |-> s.dv, net |-> s.net, mesg |-> s.mesg]
<1> DEFINE conn == s.conn \cup ({from} \ {None})
           t == Joined(s, from)
<1>1. t = [s EXCEPT !.conn = conn]
  BY DEF Joined
<1> HIDE DEF conn, t
<1>2. t = [conn |-> conn, cost |-> s.cost, dv |-> s.dv, net |-> s.net, mesg |-> s.mesg]
  BY <1>1 DEF TurnState
<1>3. QED
  BY <1>2 DEF conn, t

LEMMA NoteSenderKeeps ==
  ASSUME up \subseteq Link, NEW n \in Node, NEW k \in Node, NEW s \in TurnState(n),
         NEW from \in Neighbors(n) \cup {None}, NEW F, s.cost[k] \in F
  PROVE  Keeps(n, k, F, Joined(s, from), NoteSender(n, s, from))
<1> DEFINE t == Joined(s, from)
           r == NoteSender(n, s, from)
<1>1. t = [conn |-> s.conn \cup ({from} \ {None}), cost |-> s.cost, dv |-> s.dv, net |-> s.net,
           mesg |-> s.mesg]
  BY JoinedIs
<1>2. CASE from = None
  <2>1. r = s
    BY <1>2 DEF NoteSender
  <2> HIDE DEF r, t
  <2>2. r.conn = t.conn /\ r.dv = t.dv /\ r.net = t.net
    BY <1>1, <1>2, <2>1
  <2>3. QED
    BY <2>2, KeepsStutter DEF r, t
<1>3. CASE from # None
  <2>1. from \in Neighbors(n) /\ from \in Node /\ from # n
    BY <1>3, NeighborsAreOthers DEF Neighbors
  <2>2. t.conn = s.conn \cup {from} /\ t.cost = s.cost /\ t.dv = s.dv
    BY <1>1, <1>3
  <2>3. t \in TurnState(n)
    <3> HIDE DEF t
    <3>1. QED
      BY <1>1, <2>1, Fields DEF TurnState
  <2>4. r = UpdateDistVec(n, t, from, s.cost[from], from)
    <3>1. r = HeardFrom(n, s, from)
      BY <1>3 DEF NoteSender
    <3>2. t = [s EXCEPT !.conn = Connected(@, from)]
      BY <1>3 DEF Joined, Connected
    <3> HIDE DEF r, t
    <3>3. QED
      BY <3>1, <3>2, <2>2 DEF HeardFrom
  <2>5. s.cost[from] \in Nat \cup {Infinite} /\ Honest(n, from, s.cost[from])
    BY <2>1, Fields, LinkHonest DEF CostTable
  <2>6. from \in t.conn
    BY <2>2
  <2> HIDE DEF r, t
  <2>7. /\ Tells(n, k, t, r)
        /\ OthersWords(n, t, r)
        /\ \A f \in Node \ {from} : r.dv[f] = t.dv[f]
        /\ r.dv[from] # t.dv[from] => r.dv[from].nextHop \in {from, None}
        /\ r.dv[from].nextHop = from => r.dv[from].dist = Limited(s.cost[from])
    BY <2>1, <2>3, <2>4, <2>5, <2>6, UpdateDistVecKeeps
  <2>8. OnlyDirect(k, F, t, r)
    <3>1. SUFFICES ASSUME NEW d \in Node, r.dv[d].nextHop = k, r.dv[d] # t.dv[d]
                   PROVE d = k /\ r.dv[k].dist = Limited(s.cost[k])
      BY DEF OnlyDirect
    <3>2. d = from
      BY <2>7, <3>1
    <3>3. k # None
      BY NeighborsAreOthers
    <3>4. QED
      BY <2>7, <3>1, <3>2, <3>3
  <2>9. QED
    BY <2>7, <2>8 DEF Keeps, r, t
<1>4. QED
  BY <1>2, <1>3

LEMMA CheckUpdateTimeKeeps ==
  ASSUME up \subseteq Link, NEW n \in Node, NEW k \in Node, NEW s \in TurnState(n), NEW due, NEW F
  PROVE  Keeps(n, k, F, s, CheckUpdateTime(n, s, due))
<1> DEFINE told == s.conn \X {d \in Node : s.dv[d].dist # Infinite}
           t == SendUpdates(n, s, told)
<1>1. CASE due
  <2>1. CheckUpdateTime(n, s, due) = t
    BY <1>1 DEF CheckUpdateTime
  <2>2. k \notin s.conn => \A d \in Node : <<k, d>> \notin told
    OBVIOUS
  <2> HIDE DEF told
  <2>3. Tells(n, k, s, t) /\ OthersWords(n, s, t) /\ t.dv = s.dv
    BY <2>2, SendUpdatesTells, SentToOthers, SendUpdatesOK
  <2> HIDE DEF t
  <2>4. OnlyDirect(k, F, s, t)
    BY <2>3 DEF OnlyDirect
  <2>5. QED
    BY <2>1, <2>3, <2>4 DEF Keeps
<1>2. CASE ~ due
  <2>1. CheckUpdateTime(n, s, due) = s
    BY <1>2 DEF CheckUpdateTime
  <2>2. QED
    BY <2>1, KeepsStutter
<1>3. QED
  BY <1>1, <1>2

LEMMA CheckHeartbeatsKeeps ==
  ASSUME up \subseteq Link, NEW n \in Node, NEW k \in Node, NEW s \in TurnState(n),
         NEW silent \in SUBSET Neighbors(n), NEW F
  PROVE  Keeps(n, k, F, s, CheckHeartbeats(n, s, silent))
<1> DEFINE cut == Cut(s, silent)
           told == StillTold(s, silent)
           r == SendUpdates(n, cut, told)
<1>1. /\ cut \in TurnState(n) /\ cut.conn = s.conn \ silent /\ cut.net = s.net
      /\ \A d \in Node : cut.dv[d] = IF d \in Lost(s, silent) THEN Unreachable ELSE s.dv[d]
  BY CutOK
<1>2. CheckHeartbeats(n, s, silent) = r
  BY CheckHeartbeatsCuts
<1>3. k \notin s.conn => \A d \in Node : <<k, d>> \notin told
  BY DEF StillTold
<1>4. k \in cut.conn => \A d \in Node : cut.dv[d] # s.dv[d] => <<k, d>> \in told
  <2>1. SUFFICES ASSUME k \in s.conn \ silent, NEW d \in Lost(s, silent)
                 PROVE <<k, d>> \in told
    BY <1>1
  <2>2. QED
    BY <2>1 DEF StillTold
<1> HIDE DEF cut, told
<1>5. Tells(n, k, s, r)
  BY <1>1, <1>3, <1>4, SendUpdatesTells
<1>6. OthersWords(n, cut, r) /\ r.dv = cut.dv
  BY <1>1, SentToOthers, SendUpdatesOK
<1> HIDE DEF r
<1>7. OthersWords(n, s, r)
  BY <1>1, <1>6 DEF OthersWords
<1>8. OnlyDirect(k, F, s, r)
  <2>1. k # Unreachable.nextHop
    BY NeighborsAreOthers DEF Unreachable
  <2>2. QED
    BY <1>1, <1>6, <2>1 DEF OnlyDirect
<1>9. QED
  BY <1>2, <1>5, <1>7, <1>8 DEF Keeps

\* A turn up to where the datagram itself is looked at.
LEMMA BegunKeeps ==
  ASSUME up \subseteq Link, NEW n \in Node, NEW k \in Node, NEW s \in TurnState(n),
         NEW from \in Neighbors(n) \cup {None}, NEW due, NEW silence \in SUBSET SUBSET Neighbors(n),
         NEW t \in Begun(n, s, from, due, silence), NEW F, s.cost[k] \in F
  PROVE  Keeps(n, k, F, Joined(s, from), t) /\ t.cost = s.cost
<1> DEFINE q == NoteSender(n, s, from)
<1>1. PICK now \in due, silent \in silence :
        t = CheckHeartbeats(n, CheckUpdateTime(n, q, now), silent)
  BY DEF Begun
<1>2. q \in TurnState(n) /\ q.cost = s.cost /\ Keeps(n, k, F, Joined(s, from), q)
  BY NoteSenderOK, NoteSenderKeeps
<1> HIDE DEF q
<1> DEFINE r == CheckUpdateTime(n, q, now)
<1>3. r \in TurnState(n) /\ r.cost = q.cost /\ Keeps(n, k, F, q, r)
  BY <1>2, CheckUpdateTimeOK, CheckUpdateTimeKeeps
<1>4. t = CheckHeartbeats(n, r, silent)
  BY <1>1
<1> HIDE DEF r
<1>5. silent \in SUBSET Neighbors(n)
  OBVIOUS
<1>6. t.cost = r.cost /\ Keeps(n, k, F, r, t)
  BY <1>3, <1>4, <1>5, CheckHeartbeatsOK, CheckHeartbeatsKeeps
<1>7. Keeps(n, k, F, q, t)
  BY <1>3, <1>6, KeepsTrans
<1>8. QED
  BY <1>2, <1>3, <1>6, <1>7, KeepsTrans

-----------------------------------------------------------------------------
(* The treatment of the datagram.                                           *)

\* An update of m's is taken up if n knows the way to m, and is then what an entry
\* through m says.
LEMMA LearnKeeps ==
  ASSUME up \subseteq Link, NEW n \in Node, NEW k \in Node, NEW s \in TurnState(n),
         NEW m \in s.conn, NEW u \in HonestUpdate(m)
  PROVE  LET r == Learn(n, s, m, u.dest, u.dist) IN
         /\ r.conn = s.conn /\ r.cost = s.cost
         /\ Tells(n, k, s, r)
         /\ OthersWords(n, s, r)
         /\ \A f \in Node \ {u.dest} : r.dv[f] = s.dv[f]
         /\ r.dv[u.dest] # s.dv[u.dest] => r.dv[u.dest].nextHop \in {m, None}
         /\ s.dv[m].dist = Infinite => r = s
         /\ s.dv[m].dist # Infinite /\ u.dest # n /\ r.dv[u.dest].nextHop = m
              => r.dv[u.dest].dist = Limited(Via(u.dist, s.cost[m]))
<1> DEFINE r == Learn(n, s, m, u.dest, u.dist)
           dist == Via(u.dist, s.cost[m])
<1>1. m \in Neighbors(n) /\ m \in Node /\ s.cost[m] \in PossibleCosts(n, m)
  BY Fields DEF Neighbors, CostTable
<1>2. u.dest \in Node /\ u.dist \in Distance /\ Honest(m, u.dest, u.dist)
  BY DEF HonestUpdate, Update
<1>3. dist \in Nat \cup {Infinite} /\ Honest(n, u.dest, dist)
  BY <1>1, <1>2, ViaHonest
<1>4. s.dv[m].dist \in Nat \cup {Infinite} /\ ~ (Infinite >= 0) /\ \A i \in Nat : i >= 0
  <2>1. s.dv \in [Node -> Entry]
    BY Fields DEF RouteTable
  <2>2. s.dv[m] \in Entry
    BY <2>1, <1>1
  <2>3. QED
    BY <2>2, RouterAssumption DEF Entry, Distance, Infinite
<1>5. CASE s.dv[m].dist # Infinite
  <2>1. r = UpdateDistVec(n, s, u.dest, dist, m)
    BY <1>4, <1>5 DEF Learn
  <2> HIDE DEF r, dist
  <2>2. /\ Tells(n, k, s, r)
        /\ OthersWords(n, s, r)
        /\ \A f \in Node \ {u.dest} : r.dv[f] = s.dv[f]
        /\ r.dv[u.dest] # s.dv[u.dest] => r.dv[u.dest].nextHop \in {m, None}
        /\ u.dest # n /\ r.dv[u.dest].nextHop = m => r.dv[u.dest].dist = Limited(dist)
    BY <2>1, <1>2, <1>3, UpdateDistVecKeeps
  <2>3. r.conn = s.conn /\ r.cost = s.cost
    BY <2>1, <1>2, <1>3, UpdateDistVecOK
  <2>4. QED
    BY <2>2, <2>3, <1>5 DEF r, dist
<1>6. CASE s.dv[m].dist = Infinite
  <2>1. r = s
    BY <1>4, <1>6 DEF Learn
  <2> HIDE DEF r
  <2>2. Tells(n, k, s, r) /\ OthersWords(n, s, r)
    BY <2>1, KeepsStutter DEF Keeps
  <2>3. QED
    BY <2>1, <2>2, <1>6 DEF r
<1>7. QED
  BY <1>5, <1>6

LEMMA SetCostKeeps ==
  ASSUME up \subseteq Link, NEW n \in Node, NEW k \in Node, NEW s \in TurnState(n), NEW m \in Node,
         NEW c \in NewCosts, NEW F, m = k => c \in F
  PROVE  LET r == SetCost(n, s, m, c)
         IN  Keeps(n, k, F, s, r) /\ r.conn = s.conn /\ r.cost = [s.cost EXCEPT ![m] = c]
<1> DEFINE t == [s EXCEPT !.cost = WithCost(@, m, c)]
           costTable == [s.cost EXCEPT ![m] = c]
           r == SetCost(n, s, m, c)
<1>1. t = [conn |-> s.conn, cost |-> costTable, dv |-> s.dv, net |-> s.net, mesg |-> s.mesg]
  BY DEF TurnState, WithCost
<1>2. c \in Nat /\ c \in PossibleCosts(n, m)
  BY MonitorAssumption DEF PossibleCosts
<1>3. costTable \in CostTable(n)
  BY <1>2, Fields DEF CostTable
<1>4. r = IF m \in s.conn THEN UpdateDistVec(n, t, m, c, m) ELSE t
  BY DEF SetCost
<1> HIDE DEF t, costTable, r
<1>5. t \in TurnState(n)
  BY <1>1, <1>3, Fields DEF TurnState
<1>6. t.conn = s.conn /\ t.cost = costTable /\ t.dv = s.dv /\ t.net = s.net
  BY <1>1
<1>7. Keeps(n, k, F, s, t)
  BY <1>6, KeepsStutter
<1>8. CASE m \in s.conn
  <2>1. m \in Neighbors(n) /\ m # n
    BY <1>8, Fields, NeighborsAreOthers
  <2>2. c \in Nat \cup {Infinite} /\ Honest(n, m, c)
    BY <2>1, <1>2, LinkHonest
  <2>3. r = UpdateDistVec(n, t, m, c, m) /\ m \in t.conn
    BY <1>4, <1>6, <1>8
  <2>4. /\ Tells(n, k, t, r)
        /\ OthersWords(n, t, r)
        /\ \A f \in Node \ {m} : r.dv[f] = t.dv[f]
        /\ r.dv[m] # t.dv[m] => r.dv[m].nextHop \in {m, None}
        /\ r.dv[m].nextHop = m => r.dv[m].dist = Limited(c)
    BY <2>1, <2>2, <2>3, <1>5, UpdateDistVecKeeps
  <2>5. r.conn = t.conn /\ r.cost = t.cost
    BY <2>2, <2>3, <1>5, UpdateDistVecOK
  <2>6. OnlyDirect(k, F, t, r)
    <3>1. SUFFICES ASSUME NEW d \in Node, r.dv[d].nextHop = k, r.dv[d] # t.dv[d]
                   PROVE d = k /\ \E f \in F : r.dv[k].dist = Limited(f)
      BY DEF OnlyDirect
    <3>2. d = m
      BY <2>4, <3>1
    <3>3. k # None
      BY NeighborsAreOthers
    <3>4. QED
      BY <2>4, <3>1, <3>2, <3>3
  <2>7. QED
    BY <2>4, <2>5, <2>6, <1>6, <1>7, KeepsTrans DEF Keeps, r, costTable
<1>9. CASE m \notin s.conn
  BY <1>4, <1>6, <1>7, <1>9 DEF r, costTable
<1>10. QED
  BY <1>8, <1>9

LEMMA ForwardKeeps ==
  ASSUME NEW n \in Node, NEW k \in Node, NEW s \in TurnState(n), NEW d, NEW F
  PROVE  LET r == Forward(n, s, d)
         IN  Keeps(n, k, F, s, r) /\ r.conn = s.conn /\ r.cost = s.cost
<1> DEFINE r == Forward(n, s, d)
<1>1. r.conn = s.conn /\ r.cost = s.cost /\ r.dv = s.dv /\ r.net = s.net
  BY DEF Forward, TurnState
<1> HIDE DEF r
<1>2. QED
  BY <1>1, KeepsStutter DEF r

-----------------------------------------------------------------------------
(* A step, seen from one link.                                              *)

\* What FollowInv says of h, if F are the costs h[2]'s link has had.
Follows(h, F) ==
  LET m == h[1]  n == h[2] IN
  /\ h \in up
  /\ costs[n][m] \in F
  /\ Current(net[h], dvTable[m], n)
  /\ n \notin connections[m] => net[h] = <<>> /\ \A d \in Node \ {m} : dvTable[n][d].nextHop # m
  /\ \A d \in Node : (dvTable[n][d].nextHop = m /\ ~Says(net[h], d)) =>
       \E c \in F : dvTable[n][d].dist = Limited(Via(Advertised(dvTable[m][d], n), c))

\* h stays followed, and n notes the cost it now has.
StaysFollowed(h) ==
  Follows(h, followed[h]) /\ NothingMissed(h) /\ followed'[h] = followed[h] \cup {LinkCost(h)'}

LEMMA Ends ==
  ASSUME RouterInv, NEW h \in up
  PROVE  /\ h \in Hop /\ h = <<h[1], h[2]>> /\ h[1] \in Node /\ h[2] \in Node /\ h[1] # h[2]
         /\ dvTable[h[1]][h[1]] = [dist |-> 0, nextHop |-> h[1]]
<1>1. h \in Link
  BY DEF RouterInv, VecTypeOK, MonitorTypeOK
<1>2. h \in Hop /\ h = <<h[1], h[2]>> /\ h[1] \in Node /\ h[2] \in Node /\ h[1] # h[2]
  BY <1>1, MonitorAssumption DEF Hop
<1>3. dvTable[h[1]] \in RouteTable(h[1])
  BY <1>2, Known, Fields DEF State
<1>4. QED
  BY <1>2, <1>3 DEF RouteTable

\* A turn of any node x that did not take anything from h.
LEMMA TurnFollows ==
  ASSUME RouterInv, RouterInv', NEW h \in Hop, StaysFollowed(h), NEW x \in Node,
         NEW r, NEW s, Become(x, s), r.dv = dvTable[x], r.net[h] = net[h],
         x = h[1] => Tells(x, h[2], r, s),
         x = h[1] => (h[2] \in r.conn => h[2] \in s.conn \cup connections[x]),
         x = h[2] => OnlyDirect(h[1], {costs[x][h[1]], s.cost[h[1]]}, r, s),
         x # h[1] => s.net[h] = r.net[h]
  PROVE  Follows(h, followed[h])'
<1> DEFINE m == h[1]
           n == h[2]
<1>1. h \in up /\ h \in up' /\ h = <<m, n>> /\ m \in Node /\ n \in Node /\ m # n
  BY Ends DEF StaysFollowed, Follows, NothingMissed
<1>2. dvTable[m][m] = [dist |-> 0, nextHop |-> m] /\ dvTable'[m][m] = [dist |-> 0, nextHop |-> m]
  <2>1. dvTable[m] \in RouteTable(m)
    BY <1>1, Known, Fields DEF State
  <2>2. (State(m) \in TurnState(m))'
    BY <1>1 DEF RouterInv
  <2>3. dvTable'[m] \in RouteTable(m)
    BY <1>1, <2>2, Fields DEF State
  <2>4. QED
    BY <2>1, <2>3 DEF RouteTable
<1>3. /\ connections'[x] = s.conn /\ costs'[x] = s.cost /\ dvTable'[x] = s.dv /\ net' = s.net
      /\ \A k \in Node \ {x} : connections'[k] = connections[k] /\ costs'[k] = costs[k]
                               /\ dvTable'[k] = dvTable[k]
  BY DEF Become, RouterInv, VecTypeOK, MonitorTypeOK
<1>4. /\ followed'[h] = followed[h] \cup {costs'[n][m]}
      /\ costs[n][m] \in followed[h] /\ costs[n][m] \in Nat /\ costs'[n][m] \in Nat
  BY <1>1 DEF StaysFollowed, Follows, LinkCost, RouterInv, VecTypeOK, MonitorTypeOK
<1>5. Current(net[h], dvTable[m], n)
  BY DEF StaysFollowed, Follows
<1>6. n \notin connections[m] => net[h] = <<>> /\ \A d \in Node \ {m} : dvTable[n][d].nextHop # m
  BY DEF StaysFollowed, Follows
<1>7. \A d \in Node : (dvTable[n][d].nextHop = m /\ ~Says(net[h], d)) =>
        \E c \in followed[h] : dvTable[n][d].dist = Limited(Via(Advertised(dvTable[m][d], n), c))
  BY DEF StaysFollowed, Follows
<1>8. /\ Current(net'[h], dvTable'[m], n)
      /\ n \notin connections'[m] =>
           net'[h] = <<>> /\ \A d \in Node \ {m} : dvTable'[n][d].nextHop # m
      /\ \A d \in Node : (dvTable'[n][d].nextHop = m /\ ~Says(net'[h], d)) =>
           \E c \in followed'[h] :
             dvTable'[n][d].dist = Limited(Via(Advertised(dvTable'[m][d], n), c))
  <2>1. CASE x = m
    <3>1. dvTable'[n] = dvTable[n]
      BY <1>1, <1>3, <2>1
    <3>2. n \in connections[m] => n \in connections'[m]
      BY DEF StaysFollowed, NothingMissed
    <3>3. Len(net'[h]) < MaxInFlight
      BY DEF StaysFollowed, NothingMissed
    <3>4. Tells(m, n, r, s) /\ r.net[<<m, n>>] = net[h] /\ s.net[<<m, n>>] = net'[h]
          /\ r.dv = dvTable[m] /\ s.dv = dvTable'[m] /\ s.conn = connections'[m]
      BY <1>1, <1>3, <2>1
    <3>5. CASE n \in connections'[m]
      <4>1. /\ Current(net'[h], dvTable'[m], n)
            /\ \A d \in Node : Says(net[h], d) \/ dvTable'[m][d] # dvTable[m][d] => Says(net'[h], d)
        BY <1>1, <1>5, <3>3, <3>4, <3>5 DEF Tells
      <4>2. QED
        BY <4>1, <3>1, <3>5, <1>4, <1>7
    <3>6. CASE n \notin connections'[m]
      <4>1. net[h] = <<>> /\ \A d \in Node \ {m} : dvTable[n][d].nextHop # m
        BY <3>2, <3>6, <1>6
      <4>2. n \notin r.conn
        BY <3>2, <3>4, <3>6, <2>1
      <4>3. net'[h] = <<>>
        BY <4>1, <4>2, <3>4 DEF Tells
      <4>4. QED
        BY <4>1, <4>3, <3>1, <1>2, <1>4, <1>7 DEF Current
    <3>7. QED
      BY <3>5, <3>6
  <2>2. CASE x # m
    <3>1. net'[h] = net[h] /\ dvTable'[m] = dvTable[m] /\ connections'[m] = connections[m]
      BY <1>1, <1>3, <2>2
    <3>2. ASSUME NEW d \in Node, dvTable'[n][d].nextHop = m, dvTable'[n][d] # dvTable[n][d]
          PROVE  d = m /\ \E c \in followed'[h] :
                   dvTable'[n][d].dist = Limited(Via(Advertised(dvTable'[m][d], n), c))
      <4>1. x = n
        BY <3>2, <1>1, <1>3
      <4>2. OnlyDirect(m, {costs[n][m], costs'[n][m]}, r, s) /\ r.dv = dvTable[n] /\ s.dv = dvTable'[n]
        BY <4>1, <1>3
      <4>3. d = m /\ \E c \in {costs[n][m], costs'[n][m]} : dvTable'[n][m].dist = Limited(c)
        BY <4>2, <3>2 DEF OnlyDirect
      <4>4. PICK c \in {costs[n][m], costs'[n][m]} : dvTable'[n][m].dist = Limited(c)
        BY <4>3
      <4>5. c \in Nat /\ c \in followed'[h]
        BY <1>4
      <4>6. Advertised(dvTable'[m][m], n) = 0
        BY <1>1, <1>2 DEF Advertised
      <4>7. Via(0, c) = c
        BY <4>5 DEF Via, Infinite
      <4>8. QED
        BY <4>3, <4>4, <4>5, <4>6, <4>7
    <3>3. QED
      BY <3>1, <3>2, <1>4, <1>5, <1>6, <1>7
  <2>3. QED
    BY <2>1, <2>2
<1>9. QED
  BY <1>1, <1>4, <1>8 DEF Follows

LEMMA TurnKeeps ==
  ASSUME RouterInv, NEW x \in Node, NEW q \in TurnState(x), q.conn = connections[x],
         NEW from \in Neighbors(x) \cup {None}, NEW t \in Turn(x, q, from)
  PROVE  /\ t \in TurnState(x) /\ t.cost = q.cost
         /\ \A k \in Node : k \in Joined(q, from).conn => k \in t.conn \cup connections[x]
<1>1. up \subseteq Link /\ connections[x] \in SUBSET Neighbors(x)
  BY Known
<1>2. t \in TurnState(x) /\ (from # None => from \in t.conn)
  BY <1>1, TurnOK
<1>3. Silence(x, from) \in SUBSET SUBSET Neighbors(x) /\ t \in Begun(x, q, from, Due, Silence(x, from))
  BY <1>1 DEF Silence, Dead, Turn
<1>4. t.cost = q.cost
  <2> DEFINE F == {q.cost[x]}
  <2>1. q.cost[x] \in F
    OBVIOUS
  <2> HIDE DEF F
  <2>2. QED
    BY <1>1, <1>3, <2>1, BegunKeeps
<1>5. Joined(q, from).conn = connections[x] \cup ({from} \ {None})
  BY JoinedIs
<1>6. QED
  BY <1>2, <1>4, <1>5

LEMMA TurnKeepsFor ==
  ASSUME RouterInv, NEW x \in Node, NEW q \in TurnState(x), q.conn = connections[x],
         NEW from \in Neighbors(x) \cup {None}, NEW t \in Turn(x, q, from),
         NEW k \in Node, NEW F, q.cost[k] \in F
  PROVE  Keeps(x, k, F, Joined(q, from), t)
<1>1. up \subseteq Link /\ connections[x] \in SUBSET Neighbors(x)
  BY Known
<1>2. Silence(x, from) \in SUBSET SUBSET Neighbors(x) /\ t \in Begun(x, q, from, Due, Silence(x, from))
  BY <1>1 DEF Silence, Dead, Turn
<1>3. QED
  BY <1>1, <1>2, BegunKeeps

\* A turn that takes no update, or none from h.
LEMMA PlainTurnFollows ==
  ASSUME RouterInv, RouterInv', NEW h \in Hop, StaysFollowed(h), NEW x \in Node,
         NEW q \in TurnState(x), q.dv = dvTable[x], q.net[h] = net[h], NEW from,
         NEW s, Become(x, s),
         \A k \in Node : Keeps(x, k, {costs[x][k], s.cost[k]}, Joined(q, from), s),
         \A k \in Node : k \in Joined(q, from).conn => k \in s.conn \cup connections[x]
  PROVE  Follows(h, followed[h])'
<1> DEFINE r == Joined(q, from)
<1>1. r.dv = q.dv /\ r.net = q.net
  BY JoinedIs
<1>2. h[1] \in Node /\ h[2] \in Node
  BY DEF Hop
<1> HIDE DEF r
<1>3. \A k \in Node : Tells(x, k, r, s) /\ OnlyDirect(k, {costs[x][k], s.cost[k]}, r, s)
  BY DEF Keeps, r
<1>4. x # h[1] => s.net[h] = r.net[h]
  BY <1>2 DEF Keeps, OthersWords, r
<1>5. h[2] \in r.conn => h[2] \in s.conn \cup connections[x]
  BY <1>2 DEF r
<1>6. x = h[1] => Tells(x, h[2], r, s)
  BY <1>2, <1>3
<1>7. x = h[2] => OnlyDirect(h[1], {costs[x][h[1]], s.cost[h[1]]}, r, s)
  BY <1>2, <1>3
<1>8. r.dv = dvTable[x] /\ r.net[h] = net[h]
  BY <1>1
<1>9. QED
  BY <1>4, <1>5, <1>6, <1>7, <1>8, TurnFollows

LEMMA HearFollows ==
  ASSUME RouterInv, RouterInv', NEW h \in Hop, StaysFollowed(h),
         NEW x \in Node, NEW from \in Node, Hear(x, from)
  PROVE  Follows(h, followed[h])'
<1> DEFINE q == State(x)
<1>1. q \in TurnState(x) /\ q.conn = connections[x] /\ q.cost = costs[x] /\ q.dv = dvTable[x]
      /\ q.net = net
  BY Known DEF State
<1>2. from \in Neighbors(x)
  BY Known, NeighborsAreOthers DEF Hear, Announcing, Neighbors
<1>3. PICK t \in Turn(x, q, from) : Become(x, t)
  BY DEF Hear
<1> HIDE DEF q
<1>4. /\ t \in TurnState(x) /\ t.cost = costs[x]
      /\ \A k \in Node : k \in Joined(q, from).conn => k \in t.conn \cup connections[x]
  BY <1>1, <1>2, TurnKeeps
<1>5. ASSUME NEW k \in Node PROVE Keeps(x, k, {costs[x][k], t.cost[k]}, Joined(q, from), t)
  BY <1>1, <1>2, TurnKeepsFor
<1>6. q.net[h] = net[h]
  BY <1>1
<1>7. QED
  BY <1>1, <1>3, <1>4, <1>5, <1>6, PlainTurnFollows

LEMMA CostCommandFollows ==
  ASSUME RouterInv, RouterInv', NEW h \in Hop, StaysFollowed(h),
         NEW x \in Node, NEW m \in Node, NEW c \in NewCosts, CostCommand(x, m, c)
  PROVE  Follows(h, followed[h])'
<1> DEFINE q == State(x)
<1>1. q \in TurnState(x) /\ q.conn = connections[x] /\ q.cost = costs[x] /\ q.dv = dvTable[x]
      /\ q.net = net /\ up \subseteq Link
  BY Known DEF State
<1>2. PICK t \in Turn(x, q, None) : Become(x, SetCost(x, t, m, c))
  BY DEF CostCommand
<1> DEFINE s == SetCost(x, t, m, c)
<1> HIDE DEF q
<1>3. /\ t \in TurnState(x) /\ t.cost = costs[x]
      /\ \A k \in Node : k \in Joined(q, None).conn => k \in t.conn \cup connections[x]
  BY <1>1, TurnKeeps
<1>4. s.conn = t.conn /\ s.cost = [t.cost EXCEPT ![m] = c]
  <2> DEFINE F == {c}
  <2>1. c \in F
    OBVIOUS
  <2> HIDE DEF F
  <2>2. QED
    BY <1>1, <1>3, <2>1, SetCostKeeps
<1>5. ASSUME NEW k \in Node PROVE Keeps(x, k, {costs[x][k], s.cost[k]}, Joined(q, None), s)
  <2> DEFINE F == {costs[x][k], s.cost[k]}
  <2>1. costs[x][k] \in F /\ (m = k => c \in F)
    <3>1. costs[x] \in [Node -> Nat]
      BY DEF RouterInv, VecTypeOK, MonitorTypeOK
    <3>2. QED
      BY <3>1, <1>3, <1>4
  <2>2. Keeps(x, k, F, Joined(q, None), t)
    BY <2>1, <1>1, TurnKeepsFor
  <2>3. Keeps(x, k, F, t, s)
    BY <2>1, <1>1, <1>3, SetCostKeeps
  <2>4. QED
    BY <2>2, <2>3, KeepsTrans
<1>6. Become(x, s)
  BY <1>2
<1>7. q.net[h] = net[h]
  BY <1>1
<1> HIDE DEF s
<1>8. QED
  BY <1>1, <1>3, <1>4, <1>5, <1>6, <1>7, PlainTurnFollows

\* Forwarding a message changes no table.
LEMMA ForwardFollows ==
  ASSUME RouterInv, RouterInv', NEW h \in Hop, StaysFollowed(h), NEW x \in Node,
         NEW q \in TurnState(x), q.conn = connections[x], q.cost = costs[x], q.dv = dvTable[x],
         q.net = net, NEW from \in Neighbors(x) \cup {None}, NEW t \in Turn(x, q, from),
         NEW d, NEW s \in {t, Forward(x, t, d)}, Become(x, s)
  PROVE  Follows(h, followed[h])'
<1>1. /\ t \in TurnState(x) /\ t.cost = costs[x]
      /\ \A k \in Node : k \in Joined(q, from).conn => k \in t.conn \cup connections[x]
  BY TurnKeeps
<1>2. ASSUME NEW k \in Node, NEW F PROVE Keeps(x, k, F, t, s) /\ s.conn = t.conn /\ s.cost = t.cost
  BY <1>1, ForwardKeeps, KeepsStutter
<1>3. s.conn = t.conn /\ s.cost = t.cost
  BY <1>2
<1>4. ASSUME NEW k \in Node PROVE Keeps(x, k, {costs[x][k], s.cost[k]}, Joined(q, from), s)
  <2> DEFINE F == {costs[x][k], s.cost[k]}
  <2>1. costs[x][k] \in F
    OBVIOUS
  <2>2. Keeps(x, k, F, Joined(q, from), t)
    BY <2>1, TurnKeepsFor
  <2>3. Keeps(x, k, F, t, s)
    BY <1>2
  <2>4. QED
    BY <2>2, <2>3, KeepsTrans
<1>5. q.net[h] = net[h]
  OBVIOUS
<1>6. QED
  BY <1>1, <1>3, <1>4, <1>5, PlainTurnFollows

LEMMA SendCommandFollows ==
  ASSUME RouterInv, RouterInv', NEW h \in Hop, StaysFollowed(h),
         NEW x \in Node, NEW d \in Node, SendCommand(x, d)
  PROVE  Follows(h, followed[h])'
<1> DEFINE q == State(x)
<1>1. q \in TurnState(x) /\ q.conn = connections[x] /\ q.cost = costs[x] /\ q.dv = dvTable[x]
      /\ q.net = net
  BY Known DEF State
<1>2. PICK t \in Turn(x, q, None) : Become(x, Forward(x, t, d))
  BY DEF SendCommand
<1> HIDE DEF q
<1>3. QED
  BY <1>1, <1>2, ForwardFollows

LEMMA ReceiveMesgFollows ==
  ASSUME RouterInv, RouterInv', NEW h \in Hop, StaysFollowed(h), NEW p \in mesg, ReceiveMesg(p)
  PROVE  Follows(h, followed[h])'
<1> DEFINE x == p.to
           q == MesgTaken(p)
<1>1. x \in Node /\ p.dest \in Node /\ p.from \in Neighbors(x)
      /\ q \in TurnState(x) /\ q.conn = connections[x] /\ q.cost = costs[x] /\ q.dv = dvTable[x]
      /\ q.net = net
  BY MesgTakenOK
<1>2. PICK t \in Turn(x, q, p.from) : Become(x, IF p.dest = x THEN t ELSE Forward(x, t, p.dest))
  BY DEF ReceiveMesg, MesgTaken
<1> DEFINE s == IF p.dest = x THEN t ELSE Forward(x, t, p.dest)
<1>3. s \in {t, Forward(x, t, p.dest)} /\ Become(x, s)
  BY <1>2
<1> HIDE DEF x, q, s
<1>4. QED
  BY <1>1, <1>2, <1>3, ForwardFollows

\* m's first word is heard, and taken up unless the way to m is lost.
LEMMA ReceiveDistFollows ==
  ASSUME RouterInv, RouterInv', NEW h \in Hop, StaysFollowed(h),
         NEW x \in Node, NEW m \in Node, ReceiveDist(x, m)
  PROVE  Follows(h, followed[h])'
<1> DEFINE g == <<m, x>>
           u == Head(net[g])
           q == UpdateTaken(x, m)
           r == Joined(q, m)
<1>1. /\ m \in Neighbors(x) /\ m # None /\ u \in HonestUpdate(m) /\ u.dest \in Node
      /\ net[g] \in Seq(Update) /\ net[g] # <<>>
      /\ q \in TurnState(x) /\ q.conn = connections[x] /\ q.cost = costs[x] /\ q.dv = dvTable[x]
      /\ q.net = [net EXCEPT ![g] = Tail(net[g])]
  <2>1. net[g] # <<>>
    BY DEF ReceiveDist
  <2>2. /\ m \in Neighbors(x) /\ m # None /\ u \in HonestUpdate(m) /\ net[g] \in Seq(Update)
        /\ q \in TurnState(x)
    BY <2>1, UpdateTakenOK
  <2>3. q = [conn |-> connections[x], cost |-> costs[x], dv |-> dvTable[x],
             net |-> [net EXCEPT ![g] = Tail(net[g])], mesg |-> mesg]
    BY <2>1, UpdateTakenOK
  <2> HIDE DEF u, q, g
  <2>4. u.dest \in Node
    BY <2>2 DEF HonestUpdate, Update
  <2>5. QED
    BY <2>1, <2>2, <2>3, <2>4
<1>2. PICK t \in Turn(x, q, m) : Become(x, Learn(x, t, m, u.dest, u.dist))
  BY DEF ReceiveDist, UpdateTaken
<1> DEFINE s == Learn(x, t, m, u.dest, u.dist)
<1>3. Become(x, s)
  BY <1>2
<1>4. r.conn = q.conn \cup {m} /\ r.dv = dvTable[x] /\ r.net = q.net
  BY <1>1, JoinedIs
<1>5. up \subseteq Link /\ net \in [Hop -> Seq(Update)]
  BY DEF RouterInv, VecTypeOK, MonitorTypeOK
<1> HIDE DEF q, u
<1>6. /\ t \in TurnState(x) /\ t.cost = costs[x]
      /\ \A k \in Node : k \in r.conn => k \in t.conn \cup connections[x]
  BY <1>1, TurnKeeps
<1>7. ASSUME NEW k \in Node, NEW F, costs[x][k] \in F PROVE Keeps(x, k, F, r, t)
  BY <1>1, <1>7, TurnKeepsFor
<1>8. m \in t.conn
  <2>1. m \in r.conn
    BY <1>4
  <2>2. up \subseteq Link /\ connections[x] \in SUBSET Neighbors(x)
    BY Known
  <2>3. QED
    BY <1>1, <2>2, TurnOK
<1>9. /\ s.conn = t.conn /\ s.cost = t.cost
      /\ OthersWords(x, t, s)
      /\ \A f \in Node \ {u.dest} : s.dv[f] = t.dv[f]
      /\ s.dv[u.dest] # t.dv[u.dest] => s.dv[u.dest].nextHop \in {m, None}
      /\ t.dv[m].dist = Infinite => s = t
      /\ t.dv[m].dist # Infinite /\ u.dest # x /\ s.dv[u.dest].nextHop = m
           => s.dv[u.dest].dist = Limited(Via(u.dist, t.cost[m]))
  BY <1>1, <1>5, <1>6, <1>8, LearnKeeps
<1>10. \A k \in Node : Tells(x, k, t, s)
  BY <1>1, <1>5, <1>6, <1>8, LearnKeeps
<1> HIDE DEF r, s
<1>11. ASSUME NEW k \in Node
       PROVE  /\ Tells(x, k, r, s) /\ OthersWords(x, r, s)
              /\ OnlyDirect(k, {costs[x][k], s.cost[k]}, r, t)
  <2> DEFINE F == {costs[x][k], s.cost[k]}
  <2>1. costs[x][k] \in F
    OBVIOUS
  <2> HIDE DEF F
  <2>2. Keeps(x, k, F, r, t)
    BY <2>1, <1>7
  <2>3. QED
    BY <2>2, <1>9, <1>10, TellsTrans, OthersWordsTrans DEF Keeps, F
<1>12. CASE h # g
  <2>1. r.net[h] = net[h]
    BY <1>1, <1>4, <1>5, <1>12
  <2>2. h[1] \in Node /\ h[2] \in Node /\ h = <<h[1], h[2]>>
    BY DEF Hop
  <2>3. x = h[1] => Tells(x, h[2], r, s)
    BY <2>2, <1>11
  <2>4. h[2] \in r.conn => h[2] \in s.conn \cup connections[x]
    BY <2>2, <1>6, <1>9
  <2>5. x # h[1] => s.net[h] = r.net[h]
    BY <2>2, <1>11 DEF OthersWords
  <2>6. ASSUME x = h[2] PROVE OnlyDirect(h[1], {costs[x][h[1]], s.cost[h[1]]}, r, s)
    <3>1. h[1] # m /\ h[1] # None
      BY <2>2, <2>6, <1>12, NeighborsAreOthers
    <3>2. \A d \in Node : s.dv[d].nextHop = h[1] => s.dv[d] = t.dv[d]
      BY <3>1, <1>9
    <3>3. OnlyDirect(h[1], {costs[x][h[1]], s.cost[h[1]]}, r, t)
      BY <2>2, <1>11
    <3>4. QED
      BY <3>2, <3>3 DEF OnlyDirect
  <2>7. QED
    BY <1>3, <1>4, <2>1, <2>3, <2>4, <2>5, <2>6, TurnFollows
<1>13. CASE h = g
  <2>1. /\ h \in up /\ h \in up' /\ h \in Hop /\ h[1] = m /\ h[2] = x /\ m # x
        /\ Current(net[h], dvTable[m], x)
        /\ followed'[h] = followed[h] \cup {costs'[x][m]}
        /\ (\E d \in Node : dvTable'[x][d].nextHop = m) => dvTable'[x][m].dist # Infinite
    BY <1>13, Ends DEF StaysFollowed, Follows, NothingMissed, LinkCost
  <2>2. /\ connections'[x] = s.conn /\ costs' = costs /\ dvTable'[x] = s.dv /\ net' = s.net
        /\ dvTable'[m] = dvTable[m] /\ costs[x][m] \in Nat
    <3>1. costs' = costs
      BY <1>3, <1>6, <1>9 DEF Become, RouterInv, VecTypeOK, MonitorTypeOK
    <3>2. QED
      BY <1>3, <2>1, <3>1 DEF Become, RouterInv, VecTypeOK, MonitorTypeOK
  <2>3. net'[h] = Tail(net[h])
    <3>1. s.net[h] = r.net[h]
      BY <2>1, <1>11 DEF OthersWords
    <3>2. r.net[h] = Tail(net[h])
      BY <2>1, <1>1, <1>4, <1>5, <1>13
    <3>3. QED
      BY <3>1, <3>2, <2>2
  <2>4. /\ Current(net'[h], dvTable[m], x)
        /\ \A d \in Node : Says(net[h], d) <=> u.dest = d \/ Says(net'[h], d)
        /\ Says(net'[h], u.dest) \/ u.dist = Advertised(dvTable[m][u.dest], x)
    <3> DEFINE p == net[h]
               dv == dvTable[m]
    <3>1. p \in Seq(Update) /\ p # <<>> /\ Current(p, dv, x) /\ u = Head(p) /\ net'[h] = Tail(p)
      BY <2>1, <2>3, <1>1, <1>13 DEF u
    <3> HIDE DEF p, dv
    <3>2. /\ Current(Tail(p), dv, x)
          /\ \A d \in Node : Says(p, d) <=> Head(p).dest = d \/ Says(Tail(p), d)
          /\ Says(Tail(p), Head(p).dest) \/ Head(p).dist = Advertised(dv[Head(p).dest], x)
      BY <3>1, TailCurrent
    <3>3. QED
      BY <3>1, <3>2 DEF p, dv
  <2>5. x \in connections[m] /\ connections'[m] = connections[m]
    <3>1. x \in connections[m]
      BY <1>1, <1>13, <2>1 DEF StaysFollowed, Follows
    <3>2. QED
      BY <3>1, <1>3, <2>1 DEF Become, RouterInv, VecTypeOK, MonitorTypeOK
  <2>6. ASSUME NEW d \in Node, s.dv[d].nextHop = m, ~Says(net'[h], d)
        PROVE  \E c \in followed[h] \cup {costs'[x][m]} :
                 s.dv[d].dist = Limited(Via(Advertised(dvTable[m][d], x), c))
    <3>1. t.dv[m].dist # Infinite
      BY <2>1, <2>2, <2>6, <1>9
    <3>2. CASE d = u.dest
      <4>1. d # x
        <5>1. (State(x) \in TurnState(x))'
          BY DEF RouterInv
        <5>2. dvTable'[x] \in RouteTable(x)
          BY <5>1, Fields DEF State
        <5>3. QED
          BY <5>2, <2>1, <2>2, <2>6 DEF RouteTable
      <4>2. s.dv[d].dist = Limited(Via(u.dist, costs[x][m]))
        BY <3>1, <3>2, <4>1, <2>6, <1>6, <1>9
      <4>3. u.dist = Advertised(dvTable[m][d], x)
        BY <2>4, <2>6, <3>2
      <4>4. QED
        BY <4>2, <4>3, <2>2
    <3>3. CASE d # u.dest
      <4>1. s.dv[d] = t.dv[d] /\ ~Says(net[h], d)
        BY <3>3, <2>4, <2>6, <1>9
      <4>2. CASE t.dv[d] = dvTable[x][d]
        BY <4>1, <4>2, <2>1, <2>6 DEF StaysFollowed, Follows
      <4>3. CASE t.dv[d] # dvTable[x][d]
        <5>1. OnlyDirect(m, {costs[x][m], s.cost[m]}, r, t) /\ s.cost[m] = costs[x][m]
          BY <1>6, <1>9, <1>11
        <5>2. d = m /\ \E c \in {costs[x][m]} : s.dv[d].dist = Limited(c)
          BY <5>1, <4>1, <4>3, <2>6, <1>4 DEF OnlyDirect
        <5>3. dvTable[m][m] = [dist |-> 0, nextHop |-> m]
          BY <2>1, Ends
        <5>4. Advertised(dvTable[m][m], x) = 0
          BY <5>3, <2>1 DEF Advertised
        <5>5. Via(0, costs[x][m]) = costs[x][m]
          BY <2>2 DEF Via, Infinite
        <5>6. QED
          BY <5>2, <5>4, <5>5, <2>2
      <4>4. QED
        BY <4>2, <4>3
    <3>4. QED
      BY <3>2, <3>3
  <2>7. QED
    BY <2>1, <2>2, <2>4, <2>5, <2>6 DEF Follows
<1>14. QED
  BY <1>12, <1>13

\* Nothing that concerns h changes but whether it is up.
LEMMA QuietFollows ==
  ASSUME NEW h \in Hop, StaysFollowed(h), connections' = connections, costs' = costs,
         dvTable' = dvTable, net'[h] = net[h]
  PROVE  Follows(h, followed[h])'
  BY DEF StaysFollowed, NothingMissed, Follows

LEMMA LoseUpdateFollows ==
  ASSUME RouterInv, NEW h \in Hop, StaysFollowed(h), NEW g \in Hop, LoseUpdate(g)
  PROVE  Follows(h, followed[h])'
<1>1. losses' # losses
  BY RouterAssumption DEF LoseUpdate, RouterInv, VecTypeOK
<1>2. net'[h] = net[h]
  BY <1>1 DEF StaysFollowed, NothingMissed
<1>3. QED
  BY <1>2, QuietFollows DEF LoseUpdate, monitorVars

LEMMA FirstHopIsNobody ==
  ASSUME NEW n \in Node, NEW m \in Node, m # n
  PROVE  \A d \in Node : FirstTable(n)[d].nextHop # m
  BY NeighborsAreOthers DEF FirstTable, Unreachable

LEMMA RestartFollows ==
  ASSUME RouterInv, NEW h \in Hop, StaysFollowed(h), NEW x \in Node, Restart(x)
  PROVE  Follows(h, followed[h])'
<1> DEFINE m == h[1]
           n == h[2]
<1>1. h \in up /\ h \in up' /\ m \in Node /\ n \in Node /\ m # n
      /\ dvTable[m][m] = [dist |-> 0, nextHop |-> m]
  BY Ends DEF StaysFollowed, Follows, NothingMissed
<1>2. /\ connections'[x] = {} /\ dvTable'[x] = FirstTable(x)
      /\ \A g \in Hop : net'[g] = IF g[2] = x THEN <<>> ELSE net[g]
      /\ \A k \in Node \ {x} : connections'[k] = connections[k] /\ costs'[k] = costs[k]
                               /\ dvTable'[k] = dvTable[k]
  BY DEF Restart, Become, RouterInv, VecTypeOK, MonitorTypeOK
<1>3. followed'[h] = followed[h] \cup {costs'[n][m]}
  BY DEF StaysFollowed, LinkCost
<1>4. CASE x = m
  <2>1. n \notin connections[m]
    BY <1>2, <1>4 DEF StaysFollowed, NothingMissed
  <2>2. net[h] = <<>> /\ \A d \in Node \ {m} : dvTable[n][d].nextHop # m
    BY <2>1 DEF StaysFollowed, Follows
  <2>3. /\ net'[h] = <<>> /\ dvTable'[n] = dvTable[n] /\ costs'[n] = costs[n]
        /\ dvTable'[m][m] = [dist |-> 0, nextHop |-> m]
    BY <1>1, <1>2, <1>4, <2>2 DEF FirstTable
  <2>4. Current(net'[h], dvTable'[m], n)
    BY <2>3 DEF Current
  <2>5. \A d \in Node : (dvTable[n][d].nextHop = m /\ ~Says(net[h], d)) =>
          \E c \in followed[h] : dvTable[n][d].dist = Limited(Via(Advertised(dvTable[m][d], n), c))
    BY DEF StaysFollowed, Follows
  <2>6. \A d \in Node : (dvTable'[n][d].nextHop = m /\ ~Says(net'[h], d)) =>
          \E c \in followed'[h] :
            dvTable'[n][d].dist = Limited(Via(Advertised(dvTable'[m][d], n), c))
    BY <1>1, <1>3, <2>2, <2>3, <2>5
  <2>7. QED
    BY <1>1, <1>3, <2>2, <2>3, <2>4, <2>6 DEF Follows
<1>5. CASE x = n
  <2>1. net'[h] = <<>> /\ \A d \in Node : dvTable'[n][d].nextHop # m
    BY <1>1, <1>2, <1>5, FirstHopIsNobody
  <2>2. Current(net'[h], dvTable'[m], n)
    BY <2>1 DEF Current
  <2>3. QED
    BY <1>1, <1>3, <2>1, <2>2 DEF Follows
<1>6. CASE x # m /\ x # n
  <2>1. /\ net'[h] = net[h] /\ dvTable'[m] = dvTable[m] /\ dvTable'[n] = dvTable[n]
        /\ connections'[m] = connections[m] /\ costs'[n] = costs[n]
    BY <1>1, <1>2, <1>6
  <2>2. QED
    BY <1>1, <2>1 DEF StaysFollowed, Follows
<1>7. QED
  BY <1>4, <1>5, <1>6

\* Whatever the step, n misses something or goes on following m.
LEMMA StepFollows ==
  ASSUME RouterInv, RouterInv', Next, NEW h \in Hop, StaysFollowed(h)
  PROVE  Follows(h, followed[h])'
<1>1. CASE \E n, m \in Node : Hear(n, m)
  BY <1>1, HearFollows
<1>2. CASE \E n, m \in Node : ReceiveDist(n, m)
  BY <1>2, ReceiveDistFollows
<1>3. CASE \E n, m \in Node, c \in NewCosts : CostCommand(n, m, c)
  BY <1>3, CostCommandFollows
<1>4. CASE \E n, d \in Node : SendCommand(n, d)
  BY <1>4, SendCommandFollows
<1>5. CASE \E p \in mesg : ReceiveMesg(p)
  BY <1>5, ReceiveMesgFollows
<1>6. CASE \E l \in Link : LinkChange(l) /\ UNCHANGED routerVars
  BY <1>6, QuietFollows DEF LinkChange, routerVars
<1>7. CASE \E g \in Hop : LoseUpdate(g)
  BY <1>7, LoseUpdateFollows
<1>8. CASE \E n \in Node : Restart(n)
  BY <1>8, RestartFollows
<1>9. QED
  BY <1>1, <1>2, <1>3, <1>4, <1>5, <1>6, <1>7, <1>8 DEF Next

LEMMA FollowInvIs ==
  FollowInv <=> \A h \in Hop : followed[h] # {} => Follows(h, followed[h])
  BY DEF FollowInv, EntryFollowsNextHop, Follows

-----------------------------------------------------------------------------
(* The invariant.                                                           *)

LEMMA InitFollowInv == InitH => FollowInv
<1>1. SUFFICES ASSUME InitH, NEW h \in Hop, h \in up
               PROVE  followed[h] = {costs[h[2]][h[1]]} => Follows(h, followed[h])
  BY FollowInvIs DEF InitH, LinkCost
<1>2. RouterInv
  BY <1>1, InitInv DEF InitH
<1>3. h[1] \in Node /\ h[2] \in Node /\ h[1] # h[2]
  BY <1>1, <1>2, Ends
<1>4. net[h] = <<>> /\ dvTable[h[2]] = FirstTable(h[2])
  BY <1>1, <1>3 DEF InitH, Init
<1>5. \A d \in Node : dvTable[h[2]][d].nextHop # h[1]
  BY <1>3, <1>4, FirstHopIsNobody
<1>6. QED
  BY <1>1, <1>4, <1>5 DEF Follows, Current

LEMMA StepFollowInv == RouterInv /\ RouterInv' /\ FollowInv /\ [NextH]_varsH => FollowInv'
<1>1. SUFFICES ASSUME RouterInv, RouterInv', FollowInv, [NextH]_varsH PROVE FollowInv'
  OBVIOUS
<1>2. CASE UNCHANGED varsH
  <2>1. /\ up' = up /\ connections' = connections /\ costs' = costs /\ dvTable' = dvTable
        /\ net' = net /\ followed' = followed
    BY <1>2 DEF varsH, vars, monitorVars, routerVars
  <2>2. QED
    BY <1>1, <2>1 DEF FollowInv, EntryFollowsNextHop
<1>3. CASE NextH
  <2>1. SUFFICES ASSUME NEW h \in Hop, followed'[h] # {} PROVE Follows(h, followed[h])'
    BY DEF FollowInv, EntryFollowsNextHop, Follows
  <2>2. followed'[h] = IF NothingHeard(h)' THEN {LinkCost(h)'}
                       ELSE IF followed[h] # {} /\ NothingMissed(h) THEN followed[h] \cup {LinkCost(h)'}
                       ELSE {}
    BY <1>3 DEF NextH, Follow
  <2>3. CASE NothingHeard(h)'
    <3>1. followed'[h] = {LinkCost(h)'}
      BY <2>2, <2>3
    <3>2. h \in up' /\ net'[h] = <<>> /\ \A d \in Node : dvTable'[h[2]][d].nextHop # h[1]
      BY <2>3 DEF NothingHeard
    <3>3. Current(net'[h], dvTable'[h[1]], h[2])
      BY <3>2 DEF Current
    <3>4. QED
      BY <3>1, <3>2, <3>3 DEF Follows, LinkCost
  <2>4. CASE ~ NothingHeard(h)'
    <3>1. followed[h] # {} /\ NothingMissed(h) /\ followed'[h] = followed[h] \cup {LinkCost(h)'}
      BY <2>1, <2>2, <2>4
    <3>2. StaysFollowed(h)
      BY <1>1, <3>1, FollowInvIs DEF StaysFollowed
    <3>3. QED
      BY <1>1, <1>3, <3>2, StepFollows DEF NextH
  <2>5. QED
    BY <2>3, <2>4
<1>4. QED
  BY <1>1, <1>2, <1>3

\* The history changes nothing of what the routers do.
LEMMA HistoryInvariance == SpecH => []RouterInv
<1>1. InitH => RouterInv
  BY InitInv DEF InitH
<1>2. RouterInv /\ [NextH]_varsH => RouterInv'
  BY StepInv DEF NextH, varsH, vars
<1>3. QED
  BY <1>1, <1>2, PTL DEF SpecH

-----------------------------------------------------------------------------
(* The theorems.                                                            *)

\* The inductive invariant: a node that has missed nothing of a neighbor's words holds,
\* or is about to be told, what that neighbor's table says of each route through it.
THEOREM FollowInvariance == SpecH => []FollowInv
<1>1. InitH => FollowInv
  BY InitFollowInv
<1>2. RouterInv /\ RouterInv' /\ FollowInv /\ [NextH]_varsH => FollowInv'
  BY StepFollowInv
<1>3. QED
  BY <1>1, <1>2, HistoryInvariance, PTL DEF SpecH

\* For every network: however the tests of updateDistVec ignore updates, whatever is
\* dropped, restarted or lost elsewhere, an entry never differs from what its next hop
\* offers unless the next hop's word is still under way.
THEOREM EntriesFollow == SpecH => []EntryFollowsNextHop
<1>1. FollowInv => EntryFollowsNextHop
  BY DEF FollowInv
<1>2. QED
  BY <1>1, FollowInvariance, PTL

\* Poisoned reverse works, in every network: a loop of two nodes never outlives the
\* update under way that undoes it.
THEOREM LoopsOfTwoAreTransient == SpecH => []TwoNodeLoopIsTransient
<1>1. RouterInv /\ FollowInv => TwoNodeLoopIsTransient
  <2>1. SUFFICES ASSUME RouterInv, FollowInv, NEW h \in Hop, NEW d \in Node, followed[h] # {},
                        dvTable[h[2]][d].nextHop = h[1], dvTable[h[1]][d].nextHop = h[2]
                 PROVE  \E i \in DOMAIN net[h] : net[h][i] = [dest |-> d, dist |-> Infinite]
    BY DEF TwoNodeLoopIsTransient
  <2> DEFINE m == h[1]
             n == h[2]
             q == net[h]
  <2>2. Follows(h, followed[h])
    BY <2>1, FollowInvIs
  <2>3. m \in Node /\ n \in Node /\ m # n /\ m # None
    BY <2>1, <2>2, Ends, NeighborsAreOthers DEF Follows
  <2>4. Advertised(dvTable[m][d], n) = Infinite
    BY <2>1 DEF Advertised
  <2>5. Says(q, d)
    <3>1. SUFFICES ASSUME ~Says(q, d) PROVE FALSE
      OBVIOUS
    <3>2. PICK c \in followed[h] : dvTable[n][d].dist = Limited(Via(Infinite, c))
      BY <2>1, <2>2, <2>4, <3>1 DEF Follows
    <3>3. dvTable[n][d].dist = Infinite
      BY <3>2, RouterAssumption DEF Via, Limited, Infinite
    <3>4. dvTable[n] \in RouteTable(n)
      BY <2>1, <2>3, Known, Fields DEF State
    <3>5. QED
      BY <2>1, <2>3, <3>3, <3>4 DEF RouteTable, HonestEntry
  <2>6. q \in Seq(Update)
    BY <2>1 DEF RouterInv, VecTypeOK
  <2>7. Current(q, dvTable[m], n)
    BY <2>2 DEF Follows
  <2> HIDE DEF q
  <2> DEFINE S == {i \in DOMAIN q : q[i].dest = d}
  <2>8. PICK i \in S : \A j \in S : j <= i
    <3> DEFINE R == {Len(q) - j : j \in S}
    <3>1. DOMAIN q = 1 .. Len(q) /\ Len(q) \in Nat /\ S \subseteq DOMAIN q /\ S # {}
      BY <2>5, <2>6 DEF Says
    <3>2. R \in SUBSET Nat /\ R # {}
      BY <3>1
    <3>3. PICK l \in R : \A k \in R : l <= k
      <4> HIDE DEF R
      <4>1. QED
        BY <3>2, LeastElement
    <3>4. PICK i \in S : l = Len(q) - i
      BY <3>3
    <3>5. ASSUME NEW j \in S PROVE j <= i
      <4>1. Len(q) - j \in R
        OBVIOUS
      <4>2. Len(q) - i <= Len(q) - j
        BY <4>1, <3>3, <3>4
      <4>3. i \in Nat /\ j \in Nat
        BY <3>1
      <4>4. QED
        BY <4>2, <4>3, <3>1
    <3>6. QED
      BY <3>5
  <2>9. q[i].dist = Infinite
    <3>1. i \in DOMAIN q /\ q[i].dest = d
      OBVIOUS
    <3>2. DOMAIN q \subseteq Nat
      BY <2>6
    <3>3. ~ \E j \in DOMAIN q : i < j /\ q[j].dest = q[i].dest
      BY <3>1, <3>2, <2>8
    <3>4. QED
      BY <3>1, <3>3, <2>4, <2>7 DEF Current
  <2>10. q[i] = [dest |-> d, dist |-> Infinite]
    <3>1. q[i] \in Update /\ q[i].dest = d
      BY <2>6
    <3>2. QED
      BY <3>1, <2>9 DEF Update
  <2>11. QED
    BY <2>10 DEF q
<1>2. QED
  BY <1>1, HistoryInvariance, FollowInvariance, PTL
-----------------------------------------------------------------------------
\* What is at rest is right: the equations of the best offers follow from what each entry
\* owes its next hop and from what the neighbours' next updates would no longer change.

LEMMA TableIs ==
  ASSUME RouterInv, NEW n \in Node
  PROVE  /\ dvTable[n] \in RouteTable(n)
         /\ \A d \in Node : dvTable[n][d] \in HonestEntry(n, d)
         /\ \A d \in Node \ {n} : dvTable[n][d].nextHop \in connections[n] \cup {None}
<1>1. State(n) \in TurnState(n)
  BY DEF RouterInv
<1>2. dvTable[n] \in RouteTable(n)
      /\ \A d \in Node \ {n} : dvTable[n][d].nextHop \in connections[n] \cup {None}
  BY <1>1, Fields DEF State
<1>3. QED
  BY <1>2 DEF RouteTable

\* No neighbour of a quiet router has a better offer than its entry.
LEMMA NoBetterOffer ==
  ASSUME PositiveCosts, RouterInv, BothWays, FollowInv,
         NEW n \in Node, Quiet(n), NEW d \in Node \ {n}, NEW m \in Announcing(n),
         dvTable[m][d].dist # Infinite,
         costs[n][m] + dvTable[m][d].dist <= INFINITY_LIMIT
  PROVE  LET e == dvTable[n][d]  dist == costs[n][m] + dvTable[m][d].dist
         IN  /\ e.dist # Infinite
             /\ e.dist < dist \/ (e.dist = dist /\ e.nextHop <= m)
<1> DEFINE e == dvTable[n][d]
           f == dvTable[m][d]
           dist == costs[n][m] + f.dist
<1>1. /\ m \in Node /\ m # n /\ costs[n][m] \in Nat /\ costs[n][m] > 0
      /\ <<m, n>> \in up /\ <<n, m>> \in up /\ n \in Announcing(m)
  BY LinkCosts DEF Announcing
<1>2. costs[m][n] \in Nat
  BY <1>1, LinkCosts
<1>3. /\ dvTable[n] \in RouteTable(n) /\ dvTable[m] \in RouteTable(m)
      /\ e \in HonestEntry(n, d) /\ f \in HonestEntry(m, d)
  BY <1>1, TableIs
<1>4. e \in Entry /\ f \in Entry /\ f.dist \in Nat /\ dist \in Nat /\ m \in Nat
  <2>1. e \in Entry /\ f \in Entry
    BY <1>3 DEF HonestEntry
  <2>2. f.dist \in Nat
    BY <2>1, RouterAssumption DEF Entry, Distance
  <2>3. QED
    BY <1>1, <2>1, <2>2, MonitorAssumption
<1>5. NothingToTell(<<m, n>>) /\ NothingToTell(<<n, m>>)
  BY <1>1 DEF Quiet
<1>6. CASE f.nextHop # n
  <2>1. Limited(Via(Advertised(f, n), costs[n][m])) = dist
    BY <1>1, <1>4, <1>6, RouterAssumption DEF Advertised, Via, Limited, Infinite
  <2>2. ~Necessary(connections[n], e, dist, m)
    BY <1>5, <2>1 DEF NothingToTell
  <2> HIDE DEF e, f, dist
  <2>3. /\ ~ (dist < e.dist)
        /\ ~ (m < e.nextHop /\ e.dist = dist)
        /\ e.dist = dist \/ e.dist # Infinite
    BY <1>4, <2>2 DEF Necessary, Infinite
  <2>4. e.dist \in Int /\ e.nextHop \in Int /\ e.dist # Infinite
    BY <1>4, <2>3, RouterAssumption, MonitorAssumption DEF Entry, Distance, Infinite, None
  <2>5. QED
    BY <1>4, <2>3, <2>4 DEF e, f, dist
<1>7. CASE f.nextHop = n
  <2>1. ~Says(net[<<n, m>>], d)
    BY <1>5 DEF NothingToTell, Says
  <2>2. PICK c \in followed[<<n, m>>] : f.dist = Limited(Via(Advertised(e, m), c))
    BY <1>1, <1>5, <1>7, <2>1 DEF FollowInv, EntryFollowsNextHop, NothingToTell, Hop
  <2>3. Advertised(e, m) = e.dist /\ e.dist # Infinite
    BY <2>2, RouterAssumption DEF Via, Limited, Advertised, Infinite
  <2>4. d # m
    BY <1>1, <1>3, <1>7 DEF RouteTable
  <2>5. ~Necessary(connections[m], f, Limited(Via(e.dist, costs[m][n])), n)
    BY <1>5, <2>3, <2>4 DEF NothingToTell
  <2>6. f.dist = Limited(Via(e.dist, costs[m][n]))
    BY <1>7, <2>5 DEF Necessary
  <2>7. e.dist \in Nat
    BY <1>4, <2>3, RouterAssumption DEF Entry, Distance
  <2>8. f.dist = e.dist + costs[m][n]
    BY <1>2, <2>3, <2>6, <2>7, RouterAssumption DEF Via, Limited, Infinite
  <2>9. QED
    BY <1>1, <1>2, <2>3, <2>7, <2>8
<1>8. QED
  BY <1>6, <1>7

\* A finite entry of a quiet router is an offer of its next hop.
LEMMA EntryIsOffered ==
  ASSUME RouterInv, BothWays, FollowInv,
         NEW n \in Node, Quiet(n), NEW d \in Node \ {n}, dvTable[n][d].dist # Infinite
  PROVE  LET e == dvTable[n][d]
         IN  e \in Offers(n, d) /\ e.dist <= INFINITY_LIMIT
<1> DEFINE e == dvTable[n][d]
           m == e.nextHop
           f == dvTable[m][d]
<1>1. e \in HonestEntry(n, d) /\ m \in connections[n] \cup {None}
  BY TableIs
<1>2. e \in Entry /\ m # None
  BY <1>1 DEF HonestEntry
<1>3. m \in Announcing(n)
  BY <1>1, <1>2 DEF Quiet
<1>4. m \in Node /\ costs[n][m] \in Nat /\ <<m, n>> \in up
  BY <1>3, LinkCosts DEF Announcing
<1>5. NothingToTell(<<m, n>>)
  BY <1>4 DEF Quiet
<1>6. ~Says(net[<<m, n>>], d)
  BY <1>5 DEF NothingToTell, Says
<1>7. PICK c \in followed[<<m, n>>] : e.dist = Limited(Via(Advertised(f, n), c))
  BY <1>4, <1>5, <1>6 DEF FollowInv, EntryFollowsNextHop, NothingToTell, Hop
<1>8. Advertised(f, n) = f.dist /\ f.dist # Infinite
  BY <1>7, RouterAssumption DEF Via, Limited, Advertised, Infinite
<1>9. ~Necessary(connections[n], e, Limited(Via(f.dist, costs[n][m])), m)
  BY <1>5, <1>8 DEF NothingToTell
<1>10. e.dist = Limited(Via(f.dist, costs[n][m]))
  BY <1>9 DEF Necessary
<1>11. e.dist = costs[n][m] + f.dist /\ e.dist <= INFINITY_LIMIT
  <2>1. f.dist \in Nat
    <3>1. f \in Entry
      BY <1>4 DEF RouterInv, VecTypeOK
    <3>2. QED
      BY <1>8, <3>1, RouterAssumption DEF Entry, Distance
  <2>2. QED
    BY <1>4, <1>8, <1>10, <2>1, RouterAssumption DEF Via, Limited, Infinite
<1>12. e = [dist |-> costs[n][m] + f.dist, nextHop |-> m]
  BY <1>2, <1>11 DEF Entry
<1>13. QED
  BY <1>3, <1>8, <1>11, <1>12 DEF Offers

\* In every network in which no link costs nothing, a router that has missed nothing of
\* its neighbours, nor they of it, and to which nothing is left to be said, holds the best
\* offers of vec_router.cpp: no count to infinity ends before the limit with a way that is
\* not there, and none is forgotten that is.
THEOREM RestIsBest == ASSUME PositiveCosts PROVE SpecH => []QuietIsBest
<1>1. RouterInv /\ BothWays /\ FollowInv => QuietIsBest
  <2>1. SUFFICES ASSUME RouterInv, BothWays, FollowInv, NEW n \in Node, Quiet(n),
                        NEW d \in Node \ {n}
                 PROVE  HoldsBestOffer(n, d)
    BY DEF QuietIsBest
  <2> DEFINE e == dvTable[n][d]
             usable == {o \in Offers(n, d) : o.dist <= INFINITY_LIMIT}
  <2>2. e.dist # Infinite => e \in usable
    BY <2>1, EntryIsOffered
  <2>3. ASSUME NEW o \in usable
        PROVE  e.dist # Infinite /\ (e.dist < o.dist \/ (e.dist = o.dist /\ e.nextHop <= o.nextHop))
    <3>1. PICK m \in Announcing(n) :
            /\ dvTable[m][d].dist # Infinite
            /\ o = [dist |-> costs[n][m] + dvTable[m][d].dist, nextHop |-> m]
      BY DEF Offers
    <3>2. costs[n][m] + dvTable[m][d].dist <= INFINITY_LIMIT
      BY <3>1
    <3>3. QED
      BY <2>1, <3>1, <3>2, NoBetterOffer
  <2>4. CASE usable = {}
    <3>1. e.dist = Infinite
      BY <2>2, <2>4
    <3>2. e \in HonestEntry(n, d)
      BY <2>1, TableIs
    <3>3. e = Unreachable
      BY <3>1, <3>2 DEF HonestEntry, Entry, Unreachable
    <3>4. QED
      BY <2>4, <3>3 DEF HoldsBestOffer
  <2>5. CASE usable # {}
    BY <2>2, <2>3, <2>5 DEF HoldsBestOffer
  <2>6. QED
    BY <2>4, <2>5
<1>2. SpecH => []BothWays
  <2>1. InitH => Init
    BY DEF InitH
  <2>2. [NextH]_varsH => [Next]_vars
    BY DEF NextH, varsH
  <2>3. SpecH => Spec
    BY <2>1, <2>2, PTL DEF SpecH, Spec
  <2>4. QED
    BY <2>3, LinksGoBothWays, PTL
<1>3. QED
  BY <1>1, <1>2, HistoryInvariance, FollowInvariance, PTL
=============================================================================
