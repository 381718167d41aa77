--------------------------- MODULE VecRouterProofs ---------------------------
(***************************************************************************)
(* Proofs about VecRouter, for every network and all costs.                *)
(***************************************************************************)
EXTENDS VecRouter, NeighborMonitorProofs

-----------------------------------------------------------------------------
\* The inductive invariant: what each turn of a node may start from, and what it
\* leaves behind, whichever functions it calls on the way.

Neighbors(n) == {m \in Node : <<n, m>> \in Link}

\* Tables and updates of n that promise no more than the network has.
Honest(n, d, dist) == dist # Infinite => LeastCost[n][d] \in 0 .. dist
HonestEntry(n, d) ==
  {e \in Entry : Honest(n, d, e.dist) /\ (e.dist = Infinite <=> e.nextHop = None)}
HonestUpdate(n) == {u \in Update : Honest(n, u.dest, u.dist)}

CostTable(n) == {c \in [Node -> Nat] : \A m \in Node : c[m] \in PossibleCosts(n, m)}

RouteTable(n) ==
  {t \in [Node -> Entry] : t[n] = [dist |-> 0, nextHop |-> n] /\ \A d \in Node : t[d] \in HonestEntry(n, d)}

\* Updates are under way on links only.
Network ==
  {q \in [Hop -> Seq(Update)] :
     \A h \in Hop : q[h] \in Seq(HonestUpdate(h[1])) /\ (q[h] # <<>> => h \in Link)}

Messages == SUBSET {p \in Mesg : <<p.from, p.to>> \in Link}

TurnState(n) ==
  {s \in [conn : SUBSET Neighbors(n), cost : CostTable(n), dv : RouteTable(n),
          net : Network, mesg : Messages] :
     \A d \in Node \ {n} : s.dv[d].nextHop \in s.conn \cup {None}}

RouterInv ==
  /\ VecTypeOK
  /\ \A n \in Node : State(n) \in TurnState(n)

-----------------------------------------------------------------------------
\* The functions of a turn keep TurnState. The links that are up are links.

LEMMA Fields ==
  ASSUME NEW n \in Node, NEW s \in TurnState(n)
  PROVE  /\ s.conn \in SUBSET Neighbors(n)
         /\ s.cost \in CostTable(n)
         /\ s.dv \in RouteTable(n)
         /\ s.net \in Network
         /\ s.mesg \in Messages
         /\ \A d \in Node \ {n} : s.dv[d].nextHop \in s.conn \cup {None}
  BY DEF TurnState

LEMMA OtherNetwork ==
  ASSUME NEW n \in Node, NEW s \in TurnState(n), NEW q \in Network
  PROVE  LET r == [s EXCEPT !.net = q]
         IN  r \in TurnState(n) /\ r.conn = s.conn /\ r.cost = s.cost /\ r.dv = s.dv
  BY SMT DEF TurnState

\* A socket buffer holds some of what comes.
LEMMA BufferedType ==
  ASSUME NEW S, NEW q \in Seq(S)
  PROVE  Buffered(q) \in Seq(S)
<1>1. CASE Len(q) <= MaxInFlight
  BY <1>1 DEF Buffered
<1>2. CASE ~ (Len(q) <= MaxInFlight)
  <2>1. MaxInFlight \in Nat /\ Len(q) \in Nat /\ MaxInFlight < Len(q)
    BY <1>2, RouterAssumption
  <2>2. \A i \in 1 .. MaxInFlight : q[i] \in S
    BY <2>1
  <2>3. SubSeq(q, 1, MaxInFlight) \in Seq(S)
    BY <2>1, <2>2, SubSeqProperties
  <2>4. QED
    BY <1>2, <2>3 DEF Buffered
<1>3. QED
  BY <1>1, <1>2

\* What is sent is honest if the table is.
LEMMA SendUpdatesOK ==
  ASSUME up \subseteq Link, NEW n \in Node, NEW s \in TurnState(n), NEW told
  PROVE  /\ SendUpdates(n, s, told) \in TurnState(n)
         /\ SendUpdates(n, s, told).conn = s.conn
         /\ SendUpdates(n, s, told).cost = s.cost
         /\ SendUpdates(n, s, told).dv = s.dv
<1> DEFINE dests(m) == InIdOrder[{d \in Node : <<m, d>> \in told}]
           updates(m) == [i \in DOMAIN dests(m) |->
              [dest |-> dests(m)[i], dist |-> Advertised(s.dv[dests(m)[i]], m)]]
           q == [h \in Hop |-> IF h[1] = n /\ h \in up
                               THEN Buffered(s.net[h] \o updates(h[2])) ELSE s.net[h]]
<1>1. s.net \in Network /\ s.dv \in RouteTable(n)
  BY DEF TurnState
<1>2. ASSUME NEW m PROVE updates(m) \in Seq(HonestUpdate(n))
  <2>1. dests(m) \in Seq(Node)
    <3>1. {d \in Node : <<m, d>> \in told} \in SUBSET Node
      OBVIOUS
    <3>2. QED
      BY <3>1, InIdOrderType, SeqMonotonic
  <2>2. \A i \in DOMAIN dests(m) : updates(m)[i] \in HonestUpdate(n)
    <3>1. SUFFICES ASSUME NEW d \in Node
                   PROVE [dest |-> d, dist |-> Advertised(s.dv[d], m)] \in HonestUpdate(n)
      BY <2>1
    <3>2. s.dv[d] \in Entry /\ Honest(n, d, s.dv[d].dist)
      BY <1>1 DEF RouteTable, HonestEntry
    <3>3. Advertised(s.dv[d], m) \in Distance /\ Honest(n, d, Advertised(s.dv[d], m))
      BY <3>2 DEF Advertised, Entry, Distance, Honest
    <3>4. QED
      BY <3>3 DEF HonestUpdate, Update
  <2>3. DOMAIN dests(m) = 1 .. Len(dests(m)) /\ Len(dests(m)) \in Nat
    BY <2>1
  <2> HIDE DEF dests
  <2>4. QED
    BY <2>2, <2>3
<1>3. q \in Network
  <2> HIDE DEF updates
  <2>1. ASSUME NEW h \in Hop
        PROVE  q[h] \in Seq(HonestUpdate(h[1])) /\ (q[h] # <<>> => h \in Link)
    <3>1. s.net[h] \in Seq(HonestUpdate(h[1])) /\ (s.net[h] # <<>> => h \in Link)
      BY <1>1 DEF Network
    <3>2. CASE h[1] = n /\ h \in up
      <4>1. s.net[h] \o updates(h[2]) \in Seq(HonestUpdate(n))
        BY <3>1, <3>2, <1>2, ConcatProperties
      <4>2. QED
        BY <4>1, <3>2, BufferedType
    <3>3. CASE ~ (h[1] = n /\ h \in up)
      BY <3>1, <3>3
    <3>4. QED
      BY <3>2, <3>3
  <2>2. ASSUME NEW h \in Hop PROVE q[h] \in Seq(Update)
    <3>1. HonestUpdate(h[1]) \subseteq Update
      BY DEF HonestUpdate
    <3>2. QED
      BY <3>1, <2>1, SeqMonotonic
  <2>3. QED
    BY <2>1, <2>2 DEF Network
<1>4. SendUpdates(n, s, told) = [s EXCEPT !.net = q]
  BY DEF SendUpdates, TurnState
<1> HIDE DEF q
<1>5. QED
  BY <1>3, <1>4, OtherNetwork

LEMMA OtherEntry ==
  ASSUME NEW n \in Node, NEW s \in TurnState(n), NEW d \in Node \ {n},
         NEW e \in HonestEntry(n, d), e.nextHop \in s.conn \cup {None}
  PROVE  LET r == [s EXCEPT !.dv[d] = e]
         IN  r \in TurnState(n) /\ r.conn = s.conn /\ r.cost = s.cost
<1> DEFINE t == [s.dv EXCEPT ![d] = e]
           r == [s EXCEPT !.dv[d] = e]
<1>1. t \in RouteTable(n)
  BY Fields DEF RouteTable, HonestEntry
<1>2. \A f \in Node \ {n} : t[f].nextHop \in s.conn \cup {None}
  BY Fields DEF RouteTable
<1>3. r = [conn |-> s.conn, cost |-> s.cost, dv |-> t, net |-> s.net, mesg |-> s.mesg]
  BY DEF TurnState
<1> HIDE DEF t, r
<1>4. r \in TurnState(n)
  BY <1>1, <1>2, <1>3, Fields DEF TurnState
<1>5. QED
  BY <1>3, <1>4 DEF r

\* No cost a link may come to have makes its route too good, nor does the way
\* through it to what the neighbour has to offer.
LEMMA LinkHonest ==
  ASSUME NEW n \in Node, NEW m \in Neighbors(n), NEW c \in PossibleCosts(n, m)
  PROVE  c \in Nat /\ Honest(n, m, c)
<1>1. c \in Nat /\ <<n, m>> \in Link /\ m \in Node
  BY MonitorAssumption DEF PossibleCosts, Neighbors
<1>2. LeastCost[m][m] = 0 /\ 0 # Infinite
  BY <1>1, LeastCostAssumption DEF Infinite
<1>3. LeastCost[n][m] \in 0 .. c + LeastCost[m][m]
  BY <1>1, <1>2, LeastCostAssumption
<1>4. QED
  BY <1>1, <1>2, <1>3 DEF Honest

LEMMA ViaHonest ==
  ASSUME NEW n \in Node, NEW m \in Neighbors(n), NEW c \in PossibleCosts(n, m),
         NEW d \in Node, NEW dist \in Distance, Honest(m, d, dist)
  PROVE  Via(dist, c) \in Nat \cup {Infinite} /\ Honest(n, d, Via(dist, c))
<1>1. c \in Nat /\ <<n, m>> \in Link /\ m \in Node
  BY LinkHonest DEF Neighbors
<1>2. CASE dist = Infinite
  BY <1>2 DEF Via, Honest
<1>3. CASE dist # Infinite
  <2>1. dist \in Nat /\ LeastCost[m][d] \in 0 .. dist
    BY <1>3, RouterAssumption DEF Distance, Honest
  <2>2. LeastCost[m][d] # Infinite
    BY <2>1 DEF Infinite
  <2>3. LeastCost[n][d] \in 0 .. c + LeastCost[m][d]
    BY <1>1, <2>2, LeastCostAssumption
  <2>4. Via(dist, c) = dist + c
    BY <1>3 DEF Via
  <2>5. dist + c \in Nat /\ LeastCost[n][d] \in 0 .. dist + c
    BY <2>1, <2>3, <1>1
  <2>6. QED
    BY <2>4, <2>5 DEF Honest
<1>4. QED
  BY <1>2, <1>3

LEMMA UnreachableHonest ==
  ASSUME NEW n \in Node, NEW d \in Node
  PROVE  Unreachable \in HonestEntry(n, d)
  BY DEF Unreachable, HonestEntry, Honest, Entry, Distance

LEMMA NewEntryHonest ==
  ASSUME NEW n \in Node, NEW d \in Node, NEW dist \in Nat \cup {Infinite},
         Honest(n, d, dist), NEW hop \in Node
  PROVE  LET e == EntryFor(Limited(dist), hop)
         IN  e \in HonestEntry(n, d) /\ e.nextHop \in {hop, None}
<1>1. Limited(dist) \in Distance /\ Honest(n, d, Limited(dist))
  BY RouterAssumption DEF Limited, Distance, Honest, Infinite
<1>2. Unreachable \in HonestEntry(n, d) /\ Unreachable.nextHop = None
  BY UnreachableHonest DEF Unreachable
<1>3. hop # None
  BY MonitorAssumption DEF None
<1>4. QED
  BY <1>1, <1>2, <1>3 DEF EntryFor, HonestEntry, Entry

\* Whoever calls it, updateDistVec only notes honest distances and connected hops.
LEMMA UpdateDistVecOK ==
  ASSUME up \subseteq Link, NEW n \in Node, NEW s \in TurnState(n), NEW d \in Node,
         NEW dist \in Nat \cup {Infinite}, Honest(n, d, dist), NEW hop \in s.conn
  PROVE  LET r == UpdateDistVec(n, s, d, dist, hop)
         IN  r \in TurnState(n) /\ r.conn = s.conn /\ r.cost = s.cost
<1> DEFINE e == EntryFor(Limited(dist), hop)
           t == [s EXCEPT !.dv[d] = e]
           r == UpdateDistVec(n, s, d, dist, hop)
<1>1. CASE d # n /\ Necessary(s.conn, s.dv[d], Limited(dist), hop)
  <2>1. hop \in Node
    BY Fields DEF Neighbors
  <2>2. e \in HonestEntry(n, d) /\ e.nextHop \in s.conn \cup {None}
    BY <2>1, NewEntryHonest
  <2>3. t \in TurnState(n) /\ t.conn = s.conn /\ t.cost = s.cost
    <3> HIDE DEF e
    <3>1. QED
      BY <1>1, <2>2, OtherEntry
  <2>4. r = SendUpdates(n, t, s.conn \X {d})
    BY <1>1 DEF UpdateDistVec
  <2> HIDE DEF t, r
  <2>5. r \in TurnState(n) /\ r.conn = s.conn /\ r.cost = s.cost
    BY <2>3, <2>4, SendUpdatesOK
  <2>6. QED
    BY <2>5 DEF r
<1>2. CASE ~ (d # n /\ Necessary(s.conn, s.dv[d], Limited(dist), hop))
  BY <1>2 DEF UpdateDistVec
<1>3. QED
  BY <1>1, <1>2

LEMMA NeighborsAreOthers ==
  ASSUME NEW n \in Node
  PROVE  /\ Neighbors(n) \subseteq Node \ {n}
         /\ None \notin Node
         /\ \A m \in Node : m \in Neighbors(n) <=> n \in Neighbors(m)
  BY MonitorAssumption DEF Neighbors, None

LEMMA HeardFromOK ==
  ASSUME up \subseteq Link, NEW n \in Node, NEW s \in TurnState(n), NEW m \in Neighbors(n)
  PROVE  LET r == HeardFrom(n, s, m)
         IN  r \in TurnState(n) /\ r.conn = s.conn \cup {m} /\ r.cost = s.cost
<1> DEFINE t == [s EXCEPT !.conn = Connected(@, m)]
           r == HeardFrom(n, s, m)
<1>1. t = [conn |-> s.conn \cup {m}, cost |-> s.cost, dv |-> s.dv, net |-> s.net, mesg |-> s.mesg]
  BY DEF TurnState, Connected
<1> HIDE DEF t
<1>2. t \in TurnState(n) /\ t.conn = s.conn \cup {m} /\ t.cost = s.cost
  BY <1>1, Fields DEF TurnState
<1>3. m \in Node /\ s.cost[m] \in PossibleCosts(n, m)
  BY Fields DEF Neighbors, CostTable
<1>4. s.cost[m] \in Nat \cup {Infinite} /\ Honest(n, m, s.cost[m])
  BY <1>3, LinkHonest
<1>5. r = UpdateDistVec(n, t, m, s.cost[m], m)
  BY DEF HeardFrom, t
<1> HIDE DEF r
<1>6. r \in TurnState(n) /\ r.conn = t.conn /\ r.cost = t.cost
  BY <1>2, <1>3, <1>4, <1>5, UpdateDistVecOK
<1>7. QED
  BY <1>2, <1>6 DEF r

LEMMA NoteSenderOK ==
  ASSUME up \subseteq Link, NEW n \in Node, NEW s \in TurnState(n),
         NEW from \in Neighbors(n) \cup {None}
  PROVE  LET r == NoteSender(n, s, from)
         IN  /\ r \in TurnState(n)
             /\ r.conn = s.conn \cup ({from} \ {None})
             /\ r.cost = s.cost
<1>1. CASE from = None
  BY <1>1 DEF NoteSender
<1>2. CASE from # None
  <2>1. from \in Neighbors(n)
    BY <1>2
  <2>2. NoteSender(n, s, from) = HeardFrom(n, s, from)
    BY <1>2 DEF NoteSender
  <2>3. QED
    BY <1>2, <2>1, <2>2, HeardFromOK
<1>3. QED
  BY <1>1, <1>2

LEMMA CheckUpdateTimeOK ==
  ASSUME up \subseteq Link, NEW n \in Node, NEW s \in TurnState(n), NEW due
  PROVE  LET r == CheckUpdateTime(n, s, due)
         IN  r \in TurnState(n) /\ r.conn = s.conn /\ r.cost = s.cost
<1>1. CASE due
  BY <1>1, SendUpdatesOK DEF CheckUpdateTime
<1>2. CASE ~ due
  BY <1>2 DEF CheckUpdateTime
<1>3. QED
  BY <1>1, <1>2

\* With a neighbour goes all that is routed through it, but never the entry of the
\* node itself.
Lost(s, silent) == {d \in Node : s.dv[d].nextHop \in silent}

Cut(s, silent) ==
  [s EXCEPT !.conn = @ \ silent,
            !.dv = [d \in Node |-> IF d \in Lost(s, silent) THEN Unreachable ELSE @[d]]]

LEMMA CutOK ==
  ASSUME NEW n \in Node, NEW s \in TurnState(n), NEW silent \in SUBSET Neighbors(n)
  PROVE  /\ Cut(s, silent) \in TurnState(n)
         /\ Cut(s, silent).conn = s.conn \ silent
         /\ Cut(s, silent).cost = s.cost
         /\ Cut(s, silent).net = s.net
         /\ \A d \in Node : Cut(s, silent).dv[d] =
              IF d \in Lost(s, silent) THEN Unreachable ELSE s.dv[d]
<1> DEFINE lost == Lost(s, silent)
           conn == s.conn \ silent
           t == [d \in Node |-> IF d \in lost THEN Unreachable ELSE s.dv[d]]
           cut == Cut(s, silent)
<1>1. n \notin lost
  <2>1. s.dv[n] = [dist |-> 0, nextHop |-> n]
    BY Fields DEF RouteTable
  <2>2. QED
    BY <2>1, NeighborsAreOthers DEF Lost
<1>2. t \in RouteTable(n)
  <2> HIDE DEF lost
  <2>1. \A d \in Node : t[d] \in HonestEntry(n, d)
    BY Fields, UnreachableHonest DEF RouteTable
  <2>2. \A d \in Node : t[d] \in Entry
    BY <2>1 DEF HonestEntry
  <2>3. t[n] = [dist |-> 0, nextHop |-> n]
    BY <1>1, Fields DEF RouteTable
  <2>4. QED
    BY <2>1, <2>2, <2>3 DEF RouteTable
<1>3. conn \in SUBSET Neighbors(n)
  BY Fields
<1>4. \A d \in Node \ {n} : t[d].nextHop \in conn \cup {None}
  BY Fields DEF Unreachable, Lost
<1>5. cut = [conn |-> conn, cost |-> s.cost, dv |-> t, net |-> s.net, mesg |-> s.mesg]
  <2> DEFINE c == [s EXCEPT !.conn = conn]
  <2>1. c = [conn |-> conn, cost |-> s.cost, dv |-> s.dv, net |-> s.net, mesg |-> s.mesg]
    BY SMTT(30) DEF TurnState
  <2>2. cut = [c EXCEPT !.dv = t]
    BY DEF Cut
  <2> HIDE DEF c, t, cut
  <2>3. QED
    BY <2>1, <2>2
<1> HIDE DEF t, conn, cut
<1>6. /\ cut \in TurnState(n) /\ cut.conn = conn /\ cut.cost = s.cost /\ cut.net = s.net
      /\ cut.dv = t
  BY <1>2, <1>3, <1>4, <1>5, Fields DEF TurnState
<1>7. \A d \in Node : t[d] = IF d \in lost THEN Unreachable ELSE s.dv[d]
  BY DEF t
<1>8. QED
  BY <1>6, <1>7 DEF conn, cut

\* Those not dropped yet are told.
StillTold(s, silent) ==
  {t \in s.conn \X Lost(s, silent) : t[1] \notin {m \in silent : m <= s.dv[t[2]].nextHop}}

LEMMA CheckHeartbeatsCuts ==
  ASSUME NEW n, NEW s, NEW silent
  PROVE  CheckHeartbeats(n, s, silent) = SendUpdates(n, Cut(s, silent), StillTold(s, silent))
  BY DEF CheckHeartbeats, Cut, Lost, StillTold

LEMMA CheckHeartbeatsOK ==
  ASSUME up \subseteq Link, NEW n \in Node, NEW s \in TurnState(n),
         NEW silent \in SUBSET Neighbors(n)
  PROVE  LET r == CheckHeartbeats(n, s, silent)
         IN  r \in TurnState(n) /\ r.conn = s.conn \ silent /\ r.cost = s.cost
<1> DEFINE cut == Cut(s, silent)
           r == CheckHeartbeats(n, s, silent)
<1>1. cut \in TurnState(n) /\ cut.conn = s.conn \ silent /\ cut.cost = s.cost
  BY CutOK
<1>2. r = SendUpdates(n, cut, StillTold(s, silent))
  BY CheckHeartbeatsCuts
<1> HIDE DEF cut, r
<1>3. r \in TurnState(n) /\ r.conn = cut.conn /\ r.cost = cut.cost
  BY <1>1, <1>2, SendUpdatesOK
<1>4. QED
  BY <1>1, <1>3 DEF r

\* What a turn hands on to the treatment of the datagram: its sender, if it is a
\* node, is connected.
LEMMA BegunOK ==
  ASSUME up \subseteq Link, NEW n \in Node, NEW s \in TurnState(n),
         NEW from \in Neighbors(n) \cup {None}, NEW due,
         NEW silence \in SUBSET SUBSET (Neighbors(n) \ {from}),
         NEW t \in Begun(n, s, from, due, silence)
  PROVE  t \in TurnState(n) /\ (from # None => from \in t.conn)
<1> DEFINE q == NoteSender(n, s, from)
<1>1. PICK now \in due, silent \in silence :
        t = CheckHeartbeats(n, CheckUpdateTime(n, q, now), silent)
  BY DEF Begun
<1>2. q \in TurnState(n) /\ q.conn = s.conn \cup ({from} \ {None})
  BY NoteSenderOK
<1> HIDE DEF q
<1> DEFINE r == CheckUpdateTime(n, q, now)
<1>3. r \in TurnState(n) /\ r.conn = q.conn
  BY <1>2, CheckUpdateTimeOK
<1> HIDE DEF r
<1>4. silent \in SUBSET Neighbors(n) /\ from \notin silent
  OBVIOUS
<1>5. t \in TurnState(n) /\ t.conn = r.conn \ silent
  BY <1>1, <1>3, <1>4, CheckHeartbeatsOK DEF r
<1>6. QED
  BY <1>2, <1>3, <1>4, <1>5

LEMMA TurnOK ==
  ASSUME up \subseteq Link, NEW n \in Node, connections[n] \in SUBSET Neighbors(n),
         NEW s \in TurnState(n), NEW from \in Neighbors(n) \cup {None},
         NEW t \in Turn(n, s, from)
  PROVE  t \in TurnState(n) /\ (from # None => from \in t.conn)
<1>1. Silence(n, from) \in SUBSET SUBSET (Neighbors(n) \ {from})
  BY DEF Silence, Dead
<1>2. QED
  BY <1>1, BegunOK DEF Turn

LEMMA LearnOK ==
  ASSUME up \subseteq Link, NEW n \in Node, NEW s \in TurnState(n), NEW m \in s.conn,
         NEW u \in HonestUpdate(m)
  PROVE  LET r == Learn(n, s, m, u.dest, u.dist)
         IN  r \in TurnState(n) /\ r.conn = s.conn
<1>1. CASE s.dv[m].dist >= 0
  <2>1. m \in Neighbors(n) /\ m \in Node /\ s.cost[m] \in PossibleCosts(n, m)
    BY Fields DEF Neighbors, CostTable
  <2>2. u.dest \in Node /\ u.dist \in Distance /\ Honest(m, u.dest, u.dist)
    BY DEF HonestUpdate, Update
  <2> DEFINE dist == Via(u.dist, s.cost[m])
  <2>3. dist \in Nat \cup {Infinite} /\ Honest(n, u.dest, dist)
    BY <2>1, <2>2, ViaHonest
  <2>4. Learn(n, s, m, u.dest, u.dist) = UpdateDistVec(n, s, u.dest, dist, m)
    BY <1>1 DEF Learn
  <2> HIDE DEF dist
  <2>5. QED
    BY <2>2, <2>3, <2>4, UpdateDistVecOK
<1>2. CASE ~ (s.dv[m].dist >= 0)
  BY <1>2 DEF Learn
<1>3. QED
  BY <1>1, <1>2

LEMMA SetCostOK ==
  ASSUME up \subseteq Link, NEW n \in Node, NEW s \in TurnState(n), NEW m \in Node,
         NEW c \in NewCosts
  PROVE  LET r == SetCost(n, s, m, c)
         IN  r \in TurnState(n) /\ r.conn = s.conn /\ r.cost = WithCost(s.cost, m, c)
<1> DEFINE t == [s EXCEPT !.cost = WithCost(@, m, c)]
           costTable == [s.cost EXCEPT ![m] = c]
<1>1. t = [conn |-> s.conn, cost |-> costTable, dv |-> s.dv, net |-> s.net, mesg |-> s.mesg]
  BY DEF TurnState, WithCost
<1>2. c \in Nat /\ c \in PossibleCosts(n, m)
  BY MonitorAssumption DEF PossibleCosts
<1>3. costTable \in CostTable(n)
  BY <1>2, Fields DEF CostTable
<1> HIDE DEF t, costTable
<1>4. t \in TurnState(n) /\ t.conn = s.conn /\ t.cost = WithCost(s.cost, m, c)
  BY <1>1, <1>3, Fields DEF TurnState, WithCost, costTable
<1>5. CASE m \in s.conn
  <2>1. m \in Neighbors(n)
    BY <1>5, Fields
  <2>2. c \in Nat \cup {Infinite} /\ Honest(n, m, c)
    BY <2>1, <1>2, LinkHonest
  <2>3. SetCost(n, s, m, c) = UpdateDistVec(n, t, m, c, m)
    BY <1>5 DEF SetCost, t
  <2> DEFINE r == UpdateDistVec(n, t, m, c, m)
  <2>4. r \in TurnState(n) /\ r.conn = t.conn /\ r.cost = t.cost
    BY <2>2, <1>4, <1>5, UpdateDistVecOK
  <2> HIDE DEF r
  <2>5. QED
    BY <2>3, <2>4, <1>4 DEF r
<1>6. CASE m \notin s.conn
  BY <1>4, <1>6 DEF SetCost, t
<1>7. QED
  BY <1>5, <1>6

LEMMA ForwardOK ==
  ASSUME up \subseteq Link, NEW n \in Node, NEW s \in TurnState(n), NEW d \in Node
  PROVE  LET r == Forward(n, s, d)
         IN  r \in TurnState(n) /\ r.conn = s.conn /\ r.cost = s.cost /\ r.dv = s.dv /\ r.net = s.net
<1> DEFINE hop == s.dv[d].nextHop
           p == [from |-> n, to |-> hop, dest |-> d]
           t == [s EXCEPT !.mesg = @ \cup {p}]
<1>1. CASE hop \in s.conn /\ <<n, hop>> \in up
  <2>1. p \in Mesg /\ <<p.from, p.to>> \in Link
    BY <1>1, Fields DEF Mesg, Neighbors
  <2> HIDE DEF p
  <2>2. t = [conn |-> s.conn, cost |-> s.cost, dv |-> s.dv, net |-> s.net,
             mesg |-> s.mesg \cup {p}]
    BY DEF TurnState
  <2>3. s.mesg \cup {p} \in Messages
    BY <2>1, Fields DEF Messages
  <2>4. t \in TurnState(n) /\ t.conn = s.conn /\ t.cost = s.cost /\ t.dv = s.dv /\ t.net = s.net
    BY <2>2, <2>3, Fields DEF TurnState
  <2>5. Forward(n, s, d) = t
    BY <1>1 DEF Forward, p
  <2>6. QED
    BY <2>4, <2>5
<1>2. CASE ~ (hop \in s.conn /\ <<n, hop>> \in up)
  BY <1>2 DEF Forward
<1>3. QED
  BY <1>1, <1>2

-----------------------------------------------------------------------------
\* The invariant.

\* One node's turn leaves the others' tables alone.
LEMMA BecomeOK ==
  ASSUME RouterInv, NEW n \in Node, NEW s \in TurnState(n), Become(n, s)
  PROVE  /\ \A k \in Node : State(k)' \in TurnState(k)
         /\ connections' \in [Node -> SUBSET Node]
         /\ costs' \in [Node -> [Node -> Nat]]
         /\ dvTable' \in [Node -> [Node -> Entry]]
         /\ net' \in [Hop -> Seq(Update)]
         /\ mesg' \subseteq Mesg
<1>1. s.conn \in SUBSET Neighbors(n) /\ s.cost \in CostTable(n) /\ s.dv \in RouteTable(n)
      /\ s.net \in Network /\ s.mesg \in Messages
  BY Fields
<1>2. connections' \in [Node -> SUBSET Node] /\ costs' \in [Node -> [Node -> Nat]]
  BY <1>1 DEF RouterInv, VecTypeOK, MonitorTypeOK, Become, Neighbors, CostTable
<1>3. dvTable' \in [Node -> [Node -> Entry]]
  BY <1>1 DEF RouterInv, VecTypeOK, Become, RouteTable
<1>4. net' \in [Hop -> Seq(Update)] /\ mesg' \subseteq Mesg
  BY <1>1 DEF Become, Network, Messages
<1>5. ASSUME NEW k \in Node PROVE State(k)' \in TurnState(k)
  <2>1. State(k) \in TurnState(k)
    BY DEF RouterInv
  <2>2. CASE k = n
    <3>1. State(n)' = [conn |-> s.conn, cost |-> s.cost, dv |-> s.dv, net |-> s.net,
                       mesg |-> s.mesg]
      BY DEF State, Become, RouterInv, VecTypeOK, MonitorTypeOK
    <3>2. QED
      BY <2>2, <3>1, Fields DEF TurnState
  <2>3. CASE k # n
    <3>1. State(k)' = [conn |-> connections[k], cost |-> costs[k], dv |-> dvTable[k],
                       net |-> s.net, mesg |-> s.mesg]
      BY <2>3 DEF State, Become, RouterInv, VecTypeOK, MonitorTypeOK
    <3>2. /\ connections[k] \in SUBSET Neighbors(k) /\ costs[k] \in CostTable(k)
          /\ dvTable[k] \in RouteTable(k)
          /\ \A d \in Node \ {k} : dvTable[k][d].nextHop \in connections[k] \cup {None}
      BY <2>1, Fields DEF State
    <3>3. QED
      BY <3>1, <3>2, <1>1 DEF TurnState
  <2>4. QED
    BY <2>2, <2>3
<1>6. QED
  BY <1>2, <1>3, <1>4, <1>5

LEMMA TurnInv ==
  ASSUME RouterInv, NEW n \in Node, NEW s \in TurnState(n), Become(n, s),
         up' = up, changes' \in 0 .. MaxChanges, losses' = losses,
         sends' \in 0 .. MaxSends, restarts' \in 0 .. MaxRestarts
  PROVE  RouterInv'
<1>1. VecTypeOK'
  BY BecomeOK DEF RouterInv, VecTypeOK, MonitorTypeOK
<1>2. \A k \in Node : State(k)' \in TurnState(k)
  BY BecomeOK
<1>3. QED
  BY <1>1, <1>2 DEF RouterInv

\* What a router starts with is honest, and routes through nobody.
LEMMA FirstTableOK ==
  ASSUME NEW n \in Node
  PROVE  /\ FirstTable(n) \in RouteTable(n)
         /\ \A d \in Node \ {n} : FirstTable(n)[d].nextHop = None
<1>1. FirstTable(n)[n] = [dist |-> 0, nextHop |-> n]
  BY DEF FirstTable
<1>2. \A d \in Node \ {n} : FirstTable(n)[d] = Unreachable
  BY DEF FirstTable
<1>3. 0 \in Distance /\ Honest(n, n, 0)
  BY RouterAssumption, LeastCostAssumption DEF Distance, Honest
<1>4. FirstTable(n)[n] \in HonestEntry(n, n)
  BY <1>1, <1>3, MonitorAssumption DEF HonestEntry, Entry, Infinite, None
<1>5. \A d \in Node \ {n} : FirstTable(n)[d] \in HonestEntry(n, d)
  BY <1>2, UnreachableHonest
<1>6. \A d \in Node : FirstTable(n)[d] \in HonestEntry(n, d)
  BY <1>4, <1>5
<1>7. FirstTable(n) \in [Node -> Entry]
  <2>1. \A d \in Node : FirstTable(n)[d] \in Entry
    BY <1>6 DEF HonestEntry
  <2>2. QED
    BY <2>1 DEF FirstTable
<1>8. QED
  BY <1>1, <1>2, <1>6, <1>7 DEF RouteTable, Unreachable

LEMMA FirstCosts ==
  ASSUME NEW n \in Node
  PROVE  InitialCost[n] \in CostTable(n)
  BY MonitorAssumption DEF CostTable, PossibleCosts

LEMMA InitInv == Init => RouterInv
<1>1. SUFFICES ASSUME Init PROVE RouterInv
  OBVIOUS
<1>2. dvTable = [n \in Node |-> FirstTable(n)]
  BY <1>1 DEF Init
<1>3. dvTable \in [Node -> [Node -> Entry]]
  BY <1>2, FirstTableOK DEF RouteTable
<1>4. \A h \in Hop : net[h] = <<>>
  BY <1>1 DEF Init
<1>5. net \in Network
  <2>1. \A S : <<>> \in Seq(S)
    BY EmptySeq
  <2>2. net \in [Hop -> Seq(Update)]
    BY <2>1, <1>1 DEF Init
  <2>3. \A h \in Hop : net[h] \in Seq(HonestUpdate(h[1]))
    BY <2>1, <1>4
  <2>4. QED
    BY <2>2, <2>3, <1>4 DEF Network
<1>6. VecTypeOK
  BY <1>1, <1>3, <1>5, MonitorAssumption, RouterAssumption
     DEF Init, MonitorInit, VecTypeOK, MonitorTypeOK, Network
<1>7. ASSUME NEW n \in Node PROVE State(n) \in TurnState(n)
  <2>1. dvTable[n] \in RouteTable(n)
    BY <1>2, FirstTableOK
  <2>2. costs[n] \in CostTable(n)
    BY <1>1, FirstCosts DEF Init, MonitorInit
  <2>3. connections[n] \in SUBSET Neighbors(n) /\ mesg \in Messages
    BY <1>1 DEF Init, MonitorInit, Messages
  <2>4. \A d \in Node \ {n} : dvTable[n][d].nextHop \in connections[n] \cup {None}
    BY <1>2, FirstTableOK
  <2>5. QED
    BY <2>1, <2>2, <2>3, <2>4, <1>5 DEF State, TurnState
<1>8. QED
  BY <1>6, <1>7 DEF RouterInv

\* What the invariant says of a node and of the links.
LEMMA Known ==
  ASSUME RouterInv, NEW n \in Node
  PROVE  /\ up \subseteq Link
         /\ State(n) \in TurnState(n)
         /\ connections[n] \in SUBSET Neighbors(n)
         /\ net \in Network
         /\ mesg \in Messages
<1>1. State(n) \in TurnState(n)
  BY DEF RouterInv
<1>2. QED
  BY <1>1, Fields DEF State, RouterInv, VecTypeOK, MonitorTypeOK

LEMMA HearInv ==
  ASSUME RouterInv, NEW n \in Node, NEW m \in Node, Hear(n, m)
  PROVE  RouterInv'
<1>1. m \in Neighbors(n)
  BY Known, NeighborsAreOthers DEF Hear, Announcing, Neighbors
<1>2. PICK s \in Turn(n, State(n), m) : Become(n, s)
  BY DEF Hear
<1>3. s \in TurnState(n)
  BY <1>1, Known, TurnOK
<1>4. QED
  BY <1>2, <1>3, TurnInv DEF Hear, RouterInv, VecTypeOK, MonitorTypeOK

\* An update is taken from the socket's buffer.
UpdateTaken(n, m) == [State(n) EXCEPT !.net[<<m, n>>] = Tail(@)]

LEMMA UpdateTakenOK ==
  ASSUME RouterInv, NEW n \in Node, NEW m \in Node, net[<<m, n>>] # <<>>
  PROVE  /\ m \in Neighbors(n) /\ m # None
         /\ net[<<m, n>>] \in Seq(Update) /\ Head(net[<<m, n>>]) \in HonestUpdate(m)
         /\ UpdateTaken(n, m) =
              [conn |-> connections[n], cost |-> costs[n], dv |-> dvTable[n],
               net |-> [net EXCEPT ![<<m, n>>] = Tail(net[<<m, n>>])], mesg |-> mesg]
         /\ UpdateTaken(n, m) \in TurnState(n)
<1> DEFINE h == <<m, n>>
           update == Head(net[h])
           taken == UpdateTaken(n, m)
<1>1. h \in Hop /\ net[h] # <<>>
  BY DEF Hop
<1>2. net[h] \in Seq(HonestUpdate(m)) /\ net[h] \in Seq(Update) /\ h \in Link
  BY <1>1, Known DEF Network
<1>3. m \in Neighbors(n) /\ m # None
  BY <1>2, NeighborsAreOthers DEF Neighbors
<1>4. update \in HonestUpdate(m) /\ Tail(net[h]) \in Seq(HonestUpdate(m))
  BY <1>1, <1>2, HeadTailProperties
<1>5. [net EXCEPT ![h] = Tail(net[h])] \in Network
  <2>1. Tail(net[h]) \in Seq(Update)
    <3>1. HonestUpdate(m) \subseteq Update
      BY DEF HonestUpdate
    <3>2. QED
      BY <3>1, <1>4, SeqMonotonic
  <2>2. h[1] = m /\ net \in Network
    BY Known
  <2> HIDE DEF h
  <2> DEFINE q == [net EXCEPT ![h] = Tail(net[h])]
  <2>3. q \in [Hop -> Seq(Update)]
    BY <2>1, <2>2 DEF Network
  <2>4. ASSUME NEW g \in Hop
        PROVE  q[g] \in Seq(HonestUpdate(g[1])) /\ (q[g] # <<>> => g \in Link)
    <3>1. CASE g = h
      BY <3>1, <1>1, <1>2, <1>4, <2>2 DEF Network
    <3>2. CASE g # h
      BY <3>2, <2>2 DEF Network
    <3>3. QED
      BY <3>1, <3>2
  <2>5. QED
    BY <2>3, <2>4 DEF Network
<1>6. taken = [conn |-> connections[n], cost |-> costs[n], dv |-> dvTable[n],
               net |-> [net EXCEPT ![h] = Tail(net[h])], mesg |-> mesg]
  <2> DEFINE st == State(n)
  <2>1. st = [conn |-> connections[n], cost |-> costs[n], dv |-> dvTable[n],
              net |-> net, mesg |-> mesg]
    BY DEF State
  <2>2. taken = [st EXCEPT !.net = [st.net EXCEPT ![h] = Tail(st.net[h])]]
    BY DEF UpdateTaken
  <2> HIDE DEF st, h, taken
  <2>3. QED
    BY <2>1, <2>2
<1>7. taken \in TurnState(n)
  <2> HIDE DEF taken, h
  <2>1. QED
    BY <1>5, <1>6, Known, Fields DEF State, TurnState
<1>8. QED
  BY <1>2, <1>3, <1>4, <1>6, <1>7

LEMMA ReceiveDistInv ==
  ASSUME RouterInv, NEW n \in Node, NEW m \in Node, ReceiveDist(n, m)
  PROVE  RouterInv'
<1> DEFINE update == Head(net[<<m, n>>])
<1>1. /\ m \in Neighbors(n) /\ m # None /\ update \in HonestUpdate(m)
      /\ UpdateTaken(n, m) \in TurnState(n)
  BY UpdateTakenOK DEF ReceiveDist
<1>2. PICK t \in Turn(n, UpdateTaken(n, m), m) :
        Become(n, Learn(n, t, m, update.dest, update.dist))
  BY DEF ReceiveDist, UpdateTaken
<1> HIDE DEF update
<1>3. t \in TurnState(n) /\ m \in t.conn
  BY <1>1, Known, TurnOK
<1> DEFINE s == Learn(n, t, m, update.dest, update.dist)
<1>4. s \in TurnState(n)
  BY <1>1, <1>3, Known, LearnOK
<1>5. Become(n, s)
  BY <1>2
<1> HIDE DEF s
<1>6. QED
  BY <1>4, <1>5, TurnInv DEF ReceiveDist, RouterInv, VecTypeOK, MonitorTypeOK

LEMMA CostCommandInv ==
  ASSUME RouterInv, NEW n \in Node, NEW m \in Node, NEW c \in NewCosts,
         CostCommand(n, m, c)
  PROVE  RouterInv'
<1>1. PICK t \in Turn(n, State(n), None) : Become(n, SetCost(n, t, m, c))
  BY DEF CostCommand
<1>2. t \in TurnState(n)
  BY Known, TurnOK
<1> DEFINE s == SetCost(n, t, m, c)
<1>3. s \in TurnState(n)
  BY <1>2, Known, SetCostOK
<1>4. Become(n, s)
  BY <1>1
<1>5. changes' \in 0 .. MaxChanges
  BY MonitorAssumption DEF CostCommand, RouterInv, VecTypeOK, MonitorTypeOK
<1> HIDE DEF s
<1>6. QED
  BY <1>3, <1>4, <1>5, TurnInv DEF CostCommand, RouterInv, VecTypeOK

LEMMA SendCommandInv ==
  ASSUME RouterInv, NEW n \in Node, NEW d \in Node, SendCommand(n, d)
  PROVE  RouterInv'
<1>1. PICK t \in Turn(n, State(n), None) : Become(n, Forward(n, t, d))
  BY DEF SendCommand
<1>2. t \in TurnState(n)
  BY Known, TurnOK
<1> DEFINE s == Forward(n, t, d)
<1>3. s \in TurnState(n)
  BY <1>2, Known, ForwardOK
<1>4. Become(n, s)
  BY <1>1
<1>5. sends' \in 0 .. MaxSends
  BY RouterAssumption DEF SendCommand, RouterInv, VecTypeOK
<1> HIDE DEF s
<1>6. QED
  BY <1>3, <1>4, <1>5, TurnInv DEF SendCommand, RouterInv, VecTypeOK, MonitorTypeOK

\* A message is taken.
MesgTaken(p) == [State(p.to) EXCEPT !.mesg = @ \ {p}]

LEMMA MesgTakenOK ==
  ASSUME RouterInv, NEW p \in mesg
  PROVE  /\ p.to \in Node /\ p.dest \in Node /\ p.from \in Neighbors(p.to) /\ p.from # None
         /\ MesgTaken(p) = [conn |-> connections[p.to], cost |-> costs[p.to], dv |-> dvTable[p.to],
                            net |-> net, mesg |-> mesg \ {p}]
         /\ MesgTaken(p) \in TurnState(p.to)
<1> DEFINE n == p.to
           taken == MesgTaken(p)
<1>1. p \in Mesg /\ <<p.from, n>> \in Link /\ mesg \in Messages
  <2>1. Node # {}
    BY DEF RouterInv, VecTypeOK, Mesg
  <2>2. mesg \in Messages
    BY <2>1, Known
  <2>3. QED
    BY <2>2 DEF Messages
<1>2. n \in Node /\ p.dest \in Node /\ p.from \in Neighbors(n) /\ p.from # None
  BY <1>1, NeighborsAreOthers DEF Mesg, Neighbors
<1>3. mesg \ {p} \in Messages
  BY <1>1 DEF Messages
<1>4. taken = [conn |-> connections[n], cost |-> costs[n], dv |-> dvTable[n],
               net |-> net, mesg |-> mesg \ {p}]
  BY DEF State, MesgTaken
<1>5. taken \in TurnState(n)
  <2> HIDE DEF n, taken
  <2>1. QED
    BY <1>2, <1>3, <1>4, Known, Fields DEF State, TurnState
<1>6. QED
  BY <1>2, <1>4, <1>5

LEMMA ReceiveMesgInv ==
  ASSUME RouterInv, NEW p \in mesg, ReceiveMesg(p)
  PROVE  RouterInv'
<1> DEFINE n == p.to
<1>1. /\ n \in Node /\ p.dest \in Node /\ p.from \in Neighbors(n) /\ p.from # None
      /\ MesgTaken(p) \in TurnState(n)
  BY MesgTakenOK
<1>2. PICK t \in Turn(n, MesgTaken(p), p.from) :
        Become(n, IF p.dest = n THEN t ELSE Forward(n, t, p.dest))
  BY DEF ReceiveMesg, MesgTaken
<1> DEFINE s == IF p.dest = n THEN t ELSE Forward(n, t, p.dest)
<1> HIDE DEF n
<1>3. t \in TurnState(n)
  BY <1>1, Known, TurnOK
<1>4. s \in TurnState(n)
  BY <1>1, <1>3, Known, ForwardOK
<1>5. Become(n, s)
  BY <1>2
<1> HIDE DEF s
<1>6. QED
  BY <1>1, <1>4, <1>5, TurnInv DEF ReceiveMesg, RouterInv, VecTypeOK, MonitorTypeOK

LEMMA LinkChangeInv ==
  ASSUME RouterInv, NEW l \in Link, LinkChange(l), UNCHANGED routerVars
  PROVE  RouterInv'
<1>1. up' \subseteq Link
  BY MonitorAssumption DEF LinkChange, RouterInv, VecTypeOK, MonitorTypeOK
<1>2. changes' \in 0 .. MaxChanges
  BY MonitorAssumption DEF LinkChange, RouterInv, VecTypeOK, MonitorTypeOK
<1>3. VecTypeOK'
  BY <1>1, <1>2 DEF LinkChange, routerVars, RouterInv, VecTypeOK, MonitorTypeOK
<1>4. \A k \in Node : State(k)' = State(k)
  BY DEF LinkChange, routerVars, State
<1>5. QED
  BY <1>3, <1>4 DEF RouterInv

LEMMA LoseUpdateInv ==
  ASSUME RouterInv, NEW h \in Hop, LoseUpdate(h)
  PROVE  RouterInv'
<1>1. Node # {}
  BY DEF Hop
<1>2. net \in Network
  BY <1>1, Known
<1>3. net[h] \in Seq(HonestUpdate(h[1])) /\ net[h] \in Seq(Update) /\ h \in Link
  BY <1>2 DEF Network, LoseUpdate
<1>4. Tail(net[h]) \in Seq(HonestUpdate(h[1])) /\ Tail(net[h]) \in Seq(Update)
  BY <1>3, HeadTailProperties DEF LoseUpdate
<1>5. net' \in Network
  BY <1>2, <1>3, <1>4 DEF LoseUpdate, Network
<1>6. losses' \in 0 .. MaxLosses
  BY RouterAssumption DEF LoseUpdate, RouterInv, VecTypeOK
<1>7. VecTypeOK'
  BY <1>5, <1>6 DEF LoseUpdate, monitorVars, RouterInv, VecTypeOK, MonitorTypeOK, Network
<1>8. ASSUME NEW k \in Node PROVE State(k)' \in TurnState(k)
  <2>1. State(k)' = [conn |-> connections[k], cost |-> costs[k], dv |-> dvTable[k],
                     net |-> net', mesg |-> mesg]
    BY DEF LoseUpdate, monitorVars, State
  <2>2. QED
    BY <2>1, <1>5, Known, Fields DEF State, TurnState
<1>9. QED
  BY <1>7, <1>8 DEF RouterInv

LEMMA RestartInv ==
  ASSUME RouterInv, NEW n \in Node, Restart(n)
  PROVE  RouterInv'
<1> DEFINE q == [h \in Hop |-> IF h[2] = n THEN <<>> ELSE net[h]]
           ms == {p \in mesg : p.to # n}
           s == [conn |-> {}, cost |-> InitialCost[n], dv |-> FirstTable(n), net |-> q, mesg |-> ms]
<1>1. net \in Network /\ mesg \in Messages
  BY Known
<1>2. ms \in Messages
  BY <1>1 DEF Messages
<1>3. q \in Network
  <2>1. \A S : <<>> \in Seq(S)
    BY EmptySeq
  <2>2. \A h \in Hop : net[h] \in Seq(Update) /\ net[h] \in Seq(HonestUpdate(h[1]))
                       /\ (net[h] # <<>> => h \in Link)
    BY <1>1 DEF Network
  <2>3. q \in [Hop -> Seq(Update)]
    BY <2>1, <2>2
  <2>4. \A h \in Hop : q[h] \in Seq(HonestUpdate(h[1])) /\ (q[h] # <<>> => h \in Link)
    BY <2>1, <2>2
  <2>5. QED
    BY <2>3, <2>4 DEF Network
<1>4. Become(n, s)
  BY DEF Restart
<1> HIDE DEF q, ms
<1>5. /\ s.dv = FirstTable(n) /\ s.conn = {} /\ s.cost = InitialCost[n]
      /\ s.net = q /\ s.mesg = ms
  OBVIOUS
<1>6. \A d \in Node \ {n} : FirstTable(n)[d].nextHop \in {} \cup {None}
  BY FirstTableOK
<1>7. s \in TurnState(n)
  BY <1>2, <1>3, <1>6, FirstTableOK, FirstCosts DEF TurnState
<1> HIDE DEF s
<1>8. restarts' \in 0 .. MaxRestarts
  BY RouterAssumption DEF Restart, RouterInv, VecTypeOK
<1>9. QED
  BY <1>4, <1>7, <1>8, TurnInv DEF Restart, RouterInv, VecTypeOK, MonitorTypeOK

LEMMA StepInv == RouterInv /\ [Next]_vars => RouterInv'
<1>1. SUFFICES ASSUME RouterInv, [Next]_vars PROVE RouterInv'
  OBVIOUS
<1>2. CASE \E n, m \in Node : Hear(n, m)
  BY <1>1, <1>2, HearInv
<1>3. CASE \E n, m \in Node : ReceiveDist(n, m)
  BY <1>1, <1>3, ReceiveDistInv
<1>4. CASE \E n, m \in Node, c \in NewCosts : CostCommand(n, m, c)
  BY <1>1, <1>4, CostCommandInv
<1>5. CASE \E n, d \in Node : SendCommand(n, d)
  BY <1>1, <1>5, SendCommandInv
<1>6. CASE \E p \in mesg : ReceiveMesg(p)
  BY <1>1, <1>6, ReceiveMesgInv
<1>7. CASE \E l \in Link : LinkChange(l) /\ UNCHANGED routerVars
  BY <1>1, <1>7, LinkChangeInv
<1>8. CASE \E h \in Hop : LoseUpdate(h)
  BY <1>1, <1>8, LoseUpdateInv
<1>9. CASE \E n \in Node : Restart(n)
  BY <1>1, <1>9, RestartInv
<1>10. CASE UNCHANGED vars
  BY <1>1, <1>10
     DEF RouterInv, VecTypeOK, MonitorTypeOK, State, vars, monitorVars, routerVars
<1>11. QED
  BY <1>1, <1>2, <1>3, <1>4, <1>5, <1>6, <1>7, <1>8, <1>9, <1>10 DEF Next

-----------------------------------------------------------------------------
\* A settled network, in which no link costs nothing.

PositiveCosts == \A l \in Link : 0 \notin PossibleCosts(l[1], l[2])

LEMMA LinksGoBothWays == Spec => []BothWays
<1>1. Init => BothWays
  BY MonitorAssumption DEF Init, MonitorInit, BothWays
<1>2. BothWays /\ [Next]_vars => BothWays'
  <2>1. SUFFICES ASSUME BothWays, [Next]_vars PROVE BothWays'
    OBVIOUS
  <2>2. CASE up' = up
    BY <2>1, <2>2 DEF BothWays
  <2>3. ASSUME NEW l \in Link, LinkChange(l) PROVE BothWays'
    BY <2>1, <2>3, LinkChangeBothWays
  <2>4. QED
    BY <2>1, <2>2, <2>3
      DEF Next, Hear, ReceiveDist, CostCommand, SendCommand, ReceiveMesg, LoseUpdate, Restart,
          vars, monitorVars
<1>3. QED
  BY <1>1, <1>2, PTL DEF Spec

\* Tables in which every entry is an offer of a neighbour that is heard, and the best.
IsTable(T) ==
  /\ T \in [Node -> [Node -> Entry]]
  /\ \A n, d \in Node :
       /\ T[n][n] = [dist |-> 0, nextHop |-> n]
       /\ T[n][d].dist = Infinite => T[n][d].nextHop = None

IsOffered(T, n, d) ==
  T[n][d].dist # Infinite =>
    \E m \in Announcing(n) :
      T[m][d].dist # Infinite /\ T[n][d] = [dist |-> costs[n][m] + T[m][d].dist, nextHop |-> m]

IsBest(T, n, d) ==
  \A m \in Announcing(n) :
    LET dist == costs[n][m] + T[m][d].dist IN
    (T[m][d].dist # Infinite /\ dist <= INFINITY_LIMIT) =>
      /\ T[n][d].dist # Infinite /\ T[n][d].dist <= dist
      /\ T[n][d].dist = dist => T[n][d].nextHop <= m

Fits(T) ==
  IsTable(T) /\ \A n, d \in Node : n # d /\ Announcing(n) # {} => IsOffered(T, n, d) /\ IsBest(T, n, d)

LEMMA TablesType ==
  ASSUME RouterInv
  PROVE  IsTable(dvTable)
<1>1. dvTable \in [Node -> [Node -> Entry]]
  BY DEF RouterInv, VecTypeOK
<1>2. ASSUME NEW n \in Node PROVE dvTable[n] \in RouteTable(n)
  BY Fields DEF RouterInv, State
<1>3. QED
  BY <1>1, <1>2 DEF IsTable, RouteTable, HonestEntry

LEMMA LinkCosts ==
  ASSUME RouterInv, NEW n \in Node, NEW m \in Announcing(n)
  PROVE  /\ m \in Node /\ m # n /\ costs[n][m] \in Nat
         /\ PositiveCosts => costs[n][m] > 0
         /\ BothWays => n \in Announcing(m)
<1>1. m \in Node /\ <<m, n>> \in Link /\ <<n, m>> \in Link /\ m # n
  BY Known, MonitorAssumption DEF Announcing
<1>2. costs[n] \in CostTable(n)
  BY Fields DEF RouterInv, State
<1>3. costs[n][m] \in Nat /\ costs[n][m] \in PossibleCosts(n, m)
  BY <1>1, <1>2 DEF CostTable
<1>4. PositiveCosts => costs[n][m] # 0
  BY <1>1, <1>3 DEF PositiveCosts
<1>5. BothWays => n \in Announcing(m)
  BY DEF BothWays, Announcing
<1>6. QED
  BY <1>1, <1>3, <1>4, <1>5

LEMMA ConvergedFits == RouterInv /\ Converged => Fits(dvTable)
<1>1. SUFFICES ASSUME RouterInv, Converged PROVE Fits(dvTable)
  OBVIOUS
<1>2. IsTable(dvTable)
  BY <1>1, TablesType
<1>3. ASSUME NEW n \in Node, NEW d \in Node, n # d, Announcing(n) # {}
      PROVE  IsOffered(dvTable, n, d) /\ IsBest(dvTable, n, d)
  <2> DEFINE e == dvTable[n][d]
             usable == {o \in Offers(n, d) : o.dist <= INFINITY_LIMIT}
             offer(m) == [dist |-> costs[n][m] + dvTable[m][d].dist, nextHop |-> m]
  <2>1. IF usable = {} THEN e = Unreachable
        ELSE e \in usable /\ \A o \in usable :
               \/ e.dist < o.dist
               \/ e.dist = o.dist /\ e.nextHop <= o.nextHop
    BY <1>1, <1>3 DEF Converged, HoldsBestOffer
  <2>2. ASSUME NEW m \in Announcing(n), dvTable[m][d].dist # Infinite
        PROVE  dvTable[m][d].dist \in Nat /\ costs[n][m] \in Nat /\ m \in Node
    <3>1. m \in Node /\ costs[n][m] \in Nat
      BY <1>1, LinkCosts
    <3>2. dvTable[m][d] \in Entry
      BY <1>2, <3>1 DEF IsTable
    <3>3. QED
      BY <2>2, <3>1, <3>2, RouterAssumption DEF Entry, Distance
  <2>3. \A o \in usable : \E m \in Announcing(n) : dvTable[m][d].dist # Infinite /\ o = offer(m)
    BY DEF Offers
  <2>4. IsOffered(dvTable, n, d)
    <3>1. SUFFICES ASSUME e.dist # Infinite
                   PROVE  \E m \in Announcing(n) : dvTable[m][d].dist # Infinite /\ e = offer(m)
      BY DEF IsOffered
    <3>2. e \in usable
      <4>1. e # Unreachable
        BY <3>1 DEF Unreachable
      <4> HIDE DEF usable, e
      <4>2. QED
        BY <2>1, <4>1
    <3>3. QED
      BY <2>3, <3>2
  <2>5. IsBest(dvTable, n, d)
    <3>1. SUFFICES ASSUME NEW m \in Announcing(n), dvTable[m][d].dist # Infinite,
                          offer(m).dist <= INFINITY_LIMIT
                   PROVE  /\ e.dist # Infinite /\ e.dist <= offer(m).dist
                          /\ e.dist = offer(m).dist => e.nextHop <= m
      BY DEF IsBest
    <3>2. offer(m) \in usable /\ offer(m).nextHop = m /\ offer(m).dist \in Nat
      BY <3>1, <2>2 DEF Offers
    <3>3. e \in usable
      BY <2>1, <3>2
    <3>4. e.dist < offer(m).dist \/ (e.dist = offer(m).dist /\ e.nextHop <= m)
      <4> HIDE DEF usable, e, offer
      <4>1. QED
        BY <2>1, <3>2
    <3>5. PICK k \in Announcing(n) : dvTable[k][d].dist # Infinite /\ e = offer(k)
      BY <2>3, <3>3
    <3>6. e.dist \in Nat
      BY <2>2, <3>5
    <3> HIDE DEF e, offer
    <3>7. QED
      BY <3>2, <3>4, <3>6 DEF Infinite
  <2>6. QED
    BY <2>4, <2>5
<1>4. QED
  BY <1>2, <1>3 DEF Fits

\* There is only one such table: of the entries in which two differ, the one with the
\* least distance is offered by a neighbour about which they do not differ.
LEMMA LeastDifference ==
  ASSUME RouterInv, BothWays, PositiveCosts, NEW S, NEW T, Fits(S), Fits(T),
         NEW n \in Node, NEW d \in Node, Announcing(n) # {},
         S[n][d].dist # Infinite, S[n][d].dist # T[n][d].dist,
         \A k, e \in Node : (Announcing(k) # {} /\ S[k][e].dist # T[k][e].dist) =>
           S[k][e].dist \notin 0 .. S[n][d].dist - 1 /\ T[k][e].dist \notin 0 .. S[n][d].dist - 1
  PROVE  FALSE
<1> DEFINE x == S[n][d].dist
<1>1. /\ \A k, e \in Node : S[k][e].dist \in Distance /\ T[k][e].dist \in Distance
      /\ n # d
  <2>1. \A k, e \in Node : S[k][e] \in Entry /\ T[k][e] \in Entry
    BY DEF Fits, IsTable
  <2>2. S[n][n] = T[n][n]
    BY DEF Fits, IsTable
  <2>3. n # d
    BY <2>2
  <2>4. QED
    BY <2>1, <2>3 DEF Entry
<1>2. PICK m \in Announcing(n) : S[m][d].dist # Infinite /\ x = costs[n][m] + S[m][d].dist
  <2>1. IsOffered(S, n, d)
    BY <1>1 DEF Fits
  <2>2. PICK m \in Announcing(n) :
          S[m][d].dist # Infinite /\ S[n][d] = [dist |-> costs[n][m] + S[m][d].dist, nextHop |-> m]
    BY <2>1 DEF IsOffered
  <2>3. QED
    BY <2>2
<1>3. m \in Node /\ costs[n][m] \in Nat /\ costs[n][m] > 0 /\ Announcing(m) # {}
  BY LinkCosts
<1>4. S[m][d].dist \in Nat /\ x \in 0 .. INFINITY_LIMIT /\ S[m][d].dist \in 0 .. x - 1
  BY <1>1, <1>2, <1>3, RouterAssumption DEF Distance
<1>5. T[m][d].dist = S[m][d].dist
  BY <1>3, <1>4
<1>6. T[n][d].dist # Infinite /\ T[n][d].dist <= x
  <2>1. IsBest(T, n, d)
    BY <1>1 DEF Fits
  <2>2. T[m][d].dist # Infinite /\ costs[n][m] + T[m][d].dist = x /\ x <= INFINITY_LIMIT
    BY <1>2, <1>4, <1>5, RouterAssumption
  <2>3. QED
    BY <2>1, <2>2 DEF IsBest
<1>7. T[n][d].dist \in 0 .. x - 1
  BY <1>1, <1>4, <1>6, RouterAssumption DEF Distance
<1>8. QED
  BY <1>7

LEMMA OneTable ==
  ASSUME RouterInv, BothWays, PositiveCosts, NEW S, NEW T, Fits(S), Fits(T),
         NEW n \in Node, Announcing(n) # {}, NEW d \in Node
  PROVE  S[n][d] = T[n][d]
<1>1. \A k, e \in Node :
        /\ S[k][e] \in Entry /\ T[k][e] \in Entry
        /\ S[k][e].dist \in Distance /\ T[k][e].dist \in Distance
  BY DEF Fits, IsTable, Entry
<1>2. ASSUME NEW k \in Node, Announcing(k) # {}, NEW e \in Node PROVE S[k][e].dist = T[k][e].dist
  <2> DEFINE Differ(j, f) == Announcing(j) # {} /\ S[j][f].dist # T[j][f].dist
             Bad == {x \in Nat : \E j, f \in Node : Differ(j, f) /\ x \in {S[j][f].dist, T[j][f].dist}}
  <2>1. SUFFICES ASSUME S[k][e].dist # T[k][e].dist PROVE FALSE
    OBVIOUS
  <2>2. Bad # {}
    <3>1. S[k][e].dist \in Nat \/ T[k][e].dist \in Nat
      BY <1>1, <2>1, RouterAssumption DEF Distance
    <3>2. Differ(k, e)
      BY <1>2, <2>1
    <3>3. QED
      BY <3>1, <3>2
  <2>3. PICK x \in Bad : \A y \in Bad : x <= y
    <3>1. Bad \in SUBSET Nat
      OBVIOUS
    <3> HIDE DEF Bad
    <3>2. QED
      BY <2>2, <3>1, LeastElement
  <2>4. PICK j \in Node, f \in Node : Differ(j, f) /\ x \in {S[j][f].dist, T[j][f].dist}
    BY <2>3
  <2>5. ASSUME NEW a \in Node, NEW b \in Node, Differ(a, b)
        PROVE  S[a][b].dist \notin 0 .. x - 1 /\ T[a][b].dist \notin 0 .. x - 1
    <3>1. \A y \in 0 .. x - 1 : y \notin Bad
      <4> HIDE DEF Bad
      <4>1. x \in Nat
        BY DEF Bad
      <4>2. QED
        BY <2>3, <4>1
    <3>2. \A y \in 0 .. x - 1 : y \in Nat
      OBVIOUS
    <3>3. QED
      BY <2>5, <3>1, <3>2
  <2>6. x # Infinite
    BY <2>3 DEF Infinite
  <2>7. CASE x = S[j][f].dist
    BY <2>4, <2>5, <2>6, <2>7, LeastDifference
  <2>8. CASE x = T[j][f].dist
    BY <2>4, <2>5, <2>6, <2>8, LeastDifference
  <2>9. QED
    BY <2>4, <2>7, <2>8
<1>3. CASE n = d
  BY <1>3 DEF Fits, IsTable
<1>4. CASE S[n][d].dist = Infinite
  <2>1. S[n][d].nextHop = None /\ T[n][d].nextHop = None /\ S[n][d].dist = T[n][d].dist
    BY <1>2, <1>4 DEF Fits, IsTable
  <2>2. S[n][d] \in Entry /\ T[n][d] \in Entry
    BY <1>1
  <2>3. QED
    BY <2>1, <2>2 DEF Entry
<1>5. CASE n # d /\ S[n][d].dist # Infinite
  <2>1. S[n][d].dist = T[n][d].dist
    BY <1>2
  <2>2. ASSUME NEW A, NEW B, Fits(A), Fits(B), A[n][d].dist # Infinite,
               \A k, e \in Node : Announcing(k) # {} => A[k][e].dist = B[k][e].dist
        PROVE  \E m \in Node : A[n][d].nextHop = m /\ B[n][d].nextHop <= m
    <3>1. IsOffered(A, n, d) /\ IsBest(B, n, d)
      BY <1>5, <2>2 DEF Fits
    <3>2. PICK m \in Announcing(n) :
            A[m][d].dist # Infinite /\ A[n][d] = [dist |-> costs[n][m] + A[m][d].dist, nextHop |-> m]
      BY <2>2, <3>1 DEF IsOffered
    <3>3. m \in Node /\ Announcing(m) # {}
      BY LinkCosts
    <3>4. A[n][d].dist \in Distance /\ A[n][d].dist <= INFINITY_LIMIT
      <4>1. A[n][d].dist \in Distance
        BY <2>2 DEF Fits, IsTable, Entry
      <4>2. QED
        BY <4>1, <2>2, RouterAssumption DEF Distance
    <3>5. B[m][d].dist # Infinite /\ costs[n][m] + B[m][d].dist = A[n][d].dist
          /\ B[n][d].dist = A[n][d].dist
      BY <2>2, <3>2, <3>3
    <3>6. B[n][d].nextHop <= m
      BY <3>1, <3>4, <3>5 DEF IsBest
    <3>7. QED
      BY <3>2, <3>3, <3>6
  <2>3. PICK m \in Node : S[n][d].nextHop = m /\ T[n][d].nextHop <= m
    <3>1. \A k, e \in Node : Announcing(k) # {} => S[k][e].dist = T[k][e].dist
      BY <1>2
    <3>2. QED
      BY <1>5, <2>2, <3>1
  <2>4. PICK p \in Node : T[n][d].nextHop = p /\ S[n][d].nextHop <= p
    <3>1. \A k, e \in Node : Announcing(k) # {} => T[k][e].dist = S[k][e].dist
      BY <1>2
    <3>2. QED
      BY <1>5, <2>1, <2>2, <3>1
  <2>5. S[n][d].nextHop = T[n][d].nextHop
    BY <2>3, <2>4, MonitorAssumption
  <2>6. S[n][d] \in Entry /\ T[n][d] \in Entry
    BY <1>1
  <2>7. QED
    BY <2>1, <2>5, <2>6 DEF Entry
<1>6. QED
  BY <1>3, <1>4, <1>5

\* What a turn starts from and leaves behind while the network is settled.
Repeats(q) ==
  \A h \in Hop : \A i \in DOMAIN q[h] :
    h \in up /\ q[h][i].dist = Advertised(dvTable[h[1]][q[h][i].dest], h[2])

OnLiveLinks(ms) == \A p \in ms : <<p.from, p.to>> \in up

CalmState(n) ==
  {s \in TurnState(n) : /\ s.conn = connections[n] /\ s.cost = costs[n] /\ s.dv = dvTable[n]
                        /\ Repeats(s.net) /\ OnLiveLinks(s.mesg)}

LEMMA CalmFields ==
  ASSUME NEW n \in Node, NEW s \in CalmState(n)
  PROVE  /\ s \in TurnState(n)
         /\ s.conn = connections[n] /\ s.cost = costs[n] /\ s.dv = dvTable[n]
         /\ Repeats(s.net) /\ OnLiveLinks(s.mesg)
  BY DEF CalmState

\* The buffer keeps the oldest.
LEMMA BufferedKeeps ==
  ASSUME NEW S, NEW q \in Seq(S), NEW i \in DOMAIN Buffered(q)
  PROVE  i \in DOMAIN q /\ Buffered(q)[i] = q[i]
<1>1. CASE Len(q) <= MaxInFlight
  BY <1>1 DEF Buffered
<1>2. CASE ~ (Len(q) <= MaxInFlight)
  <2>1. MaxInFlight \in Nat /\ Len(q) \in Nat /\ MaxInFlight < Len(q)
    BY <1>2, RouterAssumption
  <2>2. \A k \in 1 .. MaxInFlight : q[k] \in S
    BY <2>1
  <2>3. Buffered(q) = SubSeq(q, 1, MaxInFlight)
    BY <1>2 DEF Buffered
  <2>4. QED
    BY <2>1, <2>2, <2>3, SubSeqProperties
<1>3. QED
  BY <1>1, <1>2

LEMMA SendUpdatesCalm ==
  ASSUME RouterInv, NEW n \in Node, NEW s \in CalmState(n), NEW told
  PROVE  SendUpdates(n, s, told) \in CalmState(n)
<1> DEFINE dests(m) == InIdOrder[{d \in Node : <<m, d>> \in told}]
           updates(m) == [i \in DOMAIN dests(m) |->
              [dest |-> dests(m)[i], dist |-> Advertised(s.dv[dests(m)[i]], m)]]
           q == [h \in Hop |-> IF h[1] = n /\ h \in up
                               THEN Buffered(s.net[h] \o updates(h[2])) ELSE s.net[h]]
           r == SendUpdates(n, s, told)
           Words(m) == {[dest |-> d, dist |-> Advertised(s.dv[d], m)] : d \in Node}
<1>1. /\ s \in TurnState(n) /\ s.net \in Network
      /\ s.conn = connections[n] /\ s.cost = costs[n] /\ s.dv = dvTable[n]
      /\ Repeats(s.net) /\ OnLiveLinks(s.mesg)
  BY CalmFields, Fields
<1>2. r = [s EXCEPT !.net = q]
  BY DEF SendUpdates
<1>3. r \in TurnState(n) /\ r.conn = s.conn /\ r.cost = s.cost /\ r.dv = s.dv
  BY <1>1, Known, SendUpdatesOK
<1>4. r.net = q /\ r.mesg = s.mesg
  <2> HIDE DEF q, r
  <2>1. QED
    BY <1>1, <1>2 DEF TurnState
<1>5. ASSUME NEW m PROVE updates(m) \in Seq(Words(m))
  <2>1. dests(m) \in Seq(Node)
    <3>1. {d \in Node : <<m, d>> \in told} \in SUBSET Node
      OBVIOUS
    <3>2. QED
      BY <3>1, InIdOrderType, SeqMonotonic
  <2>2. DOMAIN dests(m) = 1 .. Len(dests(m)) /\ Len(dests(m)) \in Nat
    BY <2>1
  <2>3. ASSUME NEW i \in DOMAIN dests(m) PROVE updates(m)[i] \in Words(m)
    <3> DEFINE d == dests(m)[i]
    <3>1. d \in Node
      BY <2>1
    <3>2. updates(m)[i] = [dest |-> d, dist |-> Advertised(s.dv[d], m)]
      OBVIOUS
    <3> HIDE DEF d
    <3>3. QED
      BY <3>1, <3>2
  <2> HIDE DEF dests, Words
  <2>4. QED
    BY <2>2, <2>3
<1>6. ASSUME NEW h \in Hop, NEW i \in DOMAIN q[h]
      PROVE  h \in up /\ q[h][i].dist = Advertised(dvTable[h[1]][q[h][i].dest], h[2])
  <2> DEFINE p == s.net[h]
             u == updates(h[2])
             W == Words(h[2])
  <2>1. CASE ~ (h[1] = n /\ h \in up)
    BY <1>1, <1>6, <2>1 DEF Repeats
  <2>2. CASE h[1] = n /\ h \in up
    <3>1. q[h] = Buffered(p \o u)
      BY <2>2
    <3>2. p \in Seq(Update) /\ u \in Seq(W)
      BY <1>1, <1>5 DEF Network
    <3>3. \A k \in DOMAIN p : p[k].dist = Advertised(dvTable[n][p[k].dest], h[2])
      BY <1>1, <2>2 DEF Repeats
    <3>4. \A w \in W : w.dist = Advertised(dvTable[n][w.dest], h[2])
      BY <1>1
    <3> HIDE DEF p, u, W
    <3>5. p \in Seq(Update \cup W) /\ u \in Seq(Update \cup W)
      BY <3>2, SeqMonotonic
    <3>6. p \o u \in Seq(Update \cup W) /\ Len(p \o u) = Len(p) + Len(u)
          /\ \A k \in 1 .. Len(p) + Len(u) :
               (p \o u)[k] = IF k <= Len(p) THEN p[k] ELSE u[k - Len(p)]
      BY <3>5, ConcatProperties
    <3>7. i \in DOMAIN (p \o u) /\ q[h][i] = (p \o u)[i]
      <4> HIDE DEF q
      <4>1. QED
        BY <1>6, <3>1, <3>6, BufferedKeeps
    <3>8. i \in 1 .. Len(p) + Len(u) /\ Len(p) \in Nat /\ Len(u) \in Nat
      BY <3>2, <3>6, <3>7
    <3>9. CASE i <= Len(p)
      <4>1. i \in DOMAIN p /\ q[h][i] = p[i]
        BY <3>2, <3>6, <3>7, <3>8, <3>9
      <4> HIDE DEF q
      <4>2. QED
        BY <4>1, <3>3, <2>2
    <3>10. CASE ~ (i <= Len(p))
      <4>1. i - Len(p) \in 1 .. Len(u) /\ q[h][i] = u[i - Len(p)]
        BY <3>6, <3>7, <3>8, <3>10
      <4>2. u[i - Len(p)] \in W
        BY <3>2, <4>1
      <4> HIDE DEF q
      <4>3. QED
        BY <4>1, <4>2, <3>4, <2>2
    <3>11. QED
      BY <3>9, <3>10
  <2>3. QED
    BY <2>1, <2>2
<1>7. Repeats(r.net)
  <2> HIDE DEF q, r
  <2>1. QED
    BY <1>4, <1>6 DEF Repeats
<1> HIDE DEF r, q
<1>8. QED
  BY <1>1, <1>3, <1>4, <1>7 DEF CalmState, r

LEMMA OfferOfNextHop ==
  ASSUME NEW T, NEW n, NEW d, NEW m, IsOffered(T, n, d), T[n][d].dist # Infinite,
         T[n][d].nextHop = m
  PROVE  T[m][d].dist # Infinite /\ T[n][d].dist = costs[n][m] + T[m][d].dist
<1>1. PICK k \in Announcing(n) :
        T[k][d].dist # Infinite /\ T[n][d] = [dist |-> costs[n][k] + T[k][d].dist, nextHop |-> k]
  BY DEF IsOffered
<1>2. k = m
  BY <1>1
<1>3. QED
  BY <1>1, <1>2

\* What its neighbours repeat gives a node nothing to note.
LEMMA NothingNecessary ==
  ASSUME RouterInv, BothWays, PositiveCosts, Converged,
         NEW n \in Node, NEW m \in Announcing(n), NEW d \in Node \ {n}, NEW conn
  PROVE  ~ Necessary(conn, dvTable[n][d],
                     Limited(Via(Advertised(dvTable[m][d], n), costs[n][m])), m)
<1> DEFINE e == dvTable[n][d]
           f == dvTable[m][d]
           c == costs[n][m]
           told == Advertised(f, n)
           limited == Limited(Via(told, c))
<1>1. /\ m \in Node /\ m # n /\ c \in Nat /\ c > 0 /\ n \in Announcing(m)
      /\ m # None /\ m \in Nat
  BY LinkCosts, MonitorAssumption DEF None
<1>2. Fits(dvTable) /\ IsTable(dvTable)
  BY ConvergedFits DEF Fits
<1>3. IsOffered(dvTable, n, d) /\ IsBest(dvTable, n, d)
  BY <1>2 DEF Fits
<1>4. /\ e.dist \in Distance /\ e.nextHop \in Node \cup {None}
      /\ f.dist \in Distance /\ f.nextHop \in Node \cup {None}
      /\ e.dist = Infinite => e.nextHop = None
  <2>1. e \in Entry /\ f \in Entry
    BY <1>1, <1>2 DEF IsTable
  <2>2. QED
    BY <2>1, <1>2 DEF IsTable, Entry
\* An entry through m is what m has, and m has not got it from n.
<1>5. ASSUME e.dist # Infinite, e.nextHop = m
      PROVE  f.dist # Infinite /\ e.dist = c + f.dist /\ f.nextHop # n
  <2>1. f.dist # Infinite /\ e.dist = c + f.dist
    BY <1>3, <1>5, OfferOfNextHop
  <2>2. SUFFICES ASSUME f.nextHop = n PROVE FALSE
    BY <2>1
  <2>3. m # d
    <3>1. dvTable[m][m] = [dist |-> 0, nextHop |-> m]
      BY <1>1, <1>2 DEF IsTable
    <3>2. QED
      BY <1>1, <2>2, <3>1
  <2>4. IsOffered(dvTable, m, d)
    BY <1>1, <1>2, <2>3 DEF Fits
  <2>5. f.dist = costs[m][n] + e.dist /\ costs[m][n] \in Nat
    <3>1. costs[m][n] \in Nat
      BY <1>1, LinkCosts
    <3>2. f.dist = costs[m][n] + e.dist
      BY <2>1, <2>2, <2>4, OfferOfNextHop
    <3>3. QED
      BY <3>1, <3>2
  <2>6. e.dist \in Nat /\ f.dist \in Nat
    BY <1>4, <1>5, <2>1, RouterAssumption DEF Distance
  <2> HIDE DEF e, f, c
  <2>7. QED
    BY <1>1, <2>1, <2>5, <2>6
<1>6. told = IF f.nextHop = n THEN Infinite ELSE f.dist
  BY DEF Advertised
<1>7. ASSUME f.dist # Infinite, c + f.dist <= INFINITY_LIMIT
      PROVE  e.dist # Infinite /\ e.dist <= c + f.dist /\ (e.dist = c + f.dist => e.nextHop <= m)
  BY <1>3, <1>7 DEF IsBest
<1> HIDE DEF e, f, c, told
<1>8. CASE limited = Infinite
  <2>1. ~ (e.dist # Infinite /\ e.nextHop = m)
    <3>1. SUFFICES ASSUME e.dist # Infinite, e.nextHop = m PROVE FALSE
      OBVIOUS
    <3>2. f.dist # Infinite /\ e.dist = c + f.dist /\ told = f.dist
      BY <1>5, <1>6, <3>1
    <3>3. Via(told, c) = e.dist /\ e.dist <= INFINITY_LIMIT
      BY <1>1, <1>4, <3>1, <3>2, RouterAssumption DEF Via, Distance
    <3>4. limited = e.dist
      BY <1>4, <3>1, <3>3, RouterAssumption DEF Limited, Distance
    <3>5. QED
      BY <1>8, <3>1, <3>4
  <2> HIDE DEF limited
  <2>2. ~ (m < e.nextHop /\ e.dist = Infinite)
    BY <1>1, <1>4 DEF None
  <2>3. QED
    BY <1>1, <1>4, <1>8, <2>1, <2>2 DEF Necessary, e, f, c, told, limited
<1>9. CASE limited # Infinite
  <2>1. told # Infinite /\ told = f.dist /\ f.nextHop # n
    BY <1>6, <1>9, RouterAssumption DEF Limited, Via, Infinite
  <2>2. limited = c + f.dist /\ c + f.dist <= INFINITY_LIMIT /\ f.dist \in Nat
    BY <1>1, <1>4, <1>9, <2>1, RouterAssumption DEF Limited, Via, Infinite, Distance
  <2>3. e.dist # Infinite /\ e.dist <= limited /\ (e.dist = limited => e.nextHop <= m)
    BY <1>7, <2>1, <2>2
  <2>4. e.dist \in Nat /\ limited \in Nat
    BY <1>1, <1>4, <2>2, <2>3, RouterAssumption DEF Distance
  <2>5. e.nextHop = m => e.dist = limited
    BY <1>5, <2>2, <2>3
  <2>6. e.nextHop \in Int
    <3>1. None \in Int /\ Node \subseteq Int
      BY MonitorAssumption DEF None
    <3>2. QED
      BY <1>4, <3>1
  <2> HIDE DEF limited
  <2>7. ~ Necessary(conn, e, limited, m)
    BY <1>1, <2>3, <2>4, <2>5, <2>6 DEF Necessary
  <2>8. QED
    BY <2>7 DEF e, f, c, told, limited
<1>10. QED
  BY <1>8, <1>9

LEMMA UpdateDistVecCalm ==
  ASSUME RouterInv, BothWays, PositiveCosts, Converged,
         NEW n \in Node, NEW m \in Announcing(n), NEW d \in Node, NEW s, s.dv = dvTable[n]
  PROVE  UpdateDistVec(n, s, d, Via(Advertised(dvTable[m][d], n), costs[n][m]), m) = s
<1>1. CASE d = n
  BY <1>1 DEF UpdateDistVec
<1>2. CASE d # n
  BY <1>2, NothingNecessary DEF UpdateDistVec
<1>3. QED
  BY <1>1, <1>2

LEMMA DirectIsKnown ==
  ASSUME RouterInv, BothWays, PositiveCosts, Converged,
         NEW n \in Node, NEW m \in Announcing(n), NEW s, s.dv = dvTable[n]
  PROVE  UpdateDistVec(n, s, m, costs[n][m], m) = s
<1>1. m \in Node /\ m # n /\ costs[n][m] \in Nat
  BY LinkCosts
<1>2. dvTable[m][m] = [dist |-> 0, nextHop |-> m]
  BY <1>1, TablesType DEF IsTable
<1>3. Advertised(dvTable[m][m], n) = 0
  BY <1>1, <1>2 DEF Advertised
<1>4. Via(0, costs[n][m]) = costs[n][m]
  BY <1>1 DEF Via, Infinite
<1>5. QED
  BY <1>1, <1>3, <1>4, UpdateDistVecCalm

\* Nobody is dropped, and nothing is lost with nobody.
LEMMA CheckHeartbeatsCalm ==
  ASSUME RouterInv, NEW n \in Node, NEW s \in CalmState(n),
         NEW silent \in SUBSET Neighbors(n), \A m \in Node : m \notin silent
  PROVE  CheckHeartbeats(n, s, silent) \in CalmState(n)
<1> DEFINE cut == Cut(s, silent)
<1>1. s \in TurnState(n)
  BY CalmFields
<1>2. /\ cut \in TurnState(n) /\ cut.conn = s.conn \ silent /\ cut.cost = s.cost /\ cut.net = s.net
      /\ \A d \in Node : cut.dv[d] = IF d \in Lost(s, silent) THEN Unreachable ELSE s.dv[d]
  BY <1>1, CutOK
<1>3. cut.conn = s.conn /\ \A d \in Node : cut.dv[d] = s.dv[d]
  <2>1. silent = {}
    BY DEF Neighbors
  <2>2. \A d \in Node : d \notin Lost(s, silent)
    BY <2>1 DEF Lost
  <2> HIDE DEF cut
  <2>3. QED
    BY <1>2, <2>1, <2>2
<1>4. cut.dv = s.dv
  <2>1. cut.dv \in [Node -> Entry] /\ s.dv \in [Node -> Entry]
    BY <1>1, <1>2, Fields DEF RouteTable
  <2>2. QED
    BY <2>1, <1>3
<1>5. cut.mesg = s.mesg
  BY <1>1 DEF Cut, TurnState
<1> HIDE DEF cut
<1>6. cut \in CalmState(n)
  BY <1>2, <1>3, <1>4, <1>5, CalmFields DEF CalmState
<1>7. QED
  BY <1>6, CheckHeartbeatsCuts, SendUpdatesCalm DEF cut

LEMMA CheckUpdateTimeCalm ==
  ASSUME RouterInv, NEW n \in Node, NEW s \in CalmState(n), NEW due
  PROVE  CheckUpdateTime(n, s, due) \in CalmState(n)
<1>1. CASE due
  BY <1>1, SendUpdatesCalm DEF CheckUpdateTime
<1>2. CASE ~ due
  BY <1>2 DEF CheckUpdateTime
<1>3. QED
  BY <1>1, <1>2

\* The sender is known, and so is the way to it.
LEMMA NoteSenderCalm ==
  ASSUME RouterInv, BothWays, PositiveCosts, Steady, NEW n \in Node, NEW s \in CalmState(n),
         NEW from \in Announcing(n) \cup {None}
  PROVE  NoteSender(n, s, from) = s
<1>1. CASE from = None
  BY <1>1 DEF NoteSender
<1>2. CASE from # None
  <2>1. from \in Announcing(n)
    BY <1>2
  <2>2. s \in TurnState(n) /\ s.conn = Announcing(n) /\ s.cost = costs[n] /\ s.dv = dvTable[n]
    BY CalmFields DEF Steady
  <2>3. [s EXCEPT !.conn = Connected(@, from)] = s
    <3>1. Connected(s.conn, from) = s.conn
      BY <2>1, <2>2 DEF Connected
    <3>2. QED
      BY <2>2, <3>1 DEF TurnState
  <2>4. NoteSender(n, s, from) = UpdateDistVec(n, s, from, costs[n][from], from)
    BY <1>2, <2>2, <2>3 DEF NoteSender, HeardFrom
  <2>5. QED
    BY <2>1, <2>2, <2>4, DirectIsKnown DEF Steady
<1>3. QED
  BY <1>1, <1>2

LEMMA TurnCalm ==
  ASSUME RouterInv, BothWays, PositiveCosts, Steady, NEW n \in Node, NEW s \in CalmState(n),
         NEW from \in Announcing(n) \cup {None}, NEW t \in Turn(n, s, from),
         FalseAlarms => t.conn = connections[n]
  PROVE  t \in CalmState(n)
<1>1. PICK now \in Due, silent \in Silence(n, from) :
        t = CheckHeartbeats(n, CheckUpdateTime(n, s, now), silent)
  BY NoteSenderCalm DEF Turn, Begun
<1> DEFINE r == CheckUpdateTime(n, s, now)
<1>2. r \in CalmState(n)
  BY CheckUpdateTimeCalm
<1> HIDE DEF r
<1>3. r \in TurnState(n) /\ r.conn = connections[n] /\ connections[n] \in SUBSET Neighbors(n)
  BY <1>2, CalmFields, Known
<1>4. silent \in SUBSET connections[n]
  BY DEF Silence, Dead
<1>5. t.conn = connections[n] \ silent
  BY <1>1, <1>3, <1>4, Known, CheckHeartbeatsOK DEF r
<1>6. silent = {}
  <2>1. CASE FalseAlarms
    BY <2>1, <1>4, <1>5
  <2>2. CASE ~ FalseAlarms
    <3>1. Dead(n) = {}
      BY DEF Dead, Steady, Announcing
    <3>2. QED
      BY <2>2, <3>1 DEF Silence
  <2>3. QED
    BY <2>1, <2>2
<1>7. QED
  BY <1>1, <1>2, <1>6, CheckHeartbeatsCalm DEF r

LEMMA ConvergedKept ==
  ASSUME Converged, up' = up, costs' = costs, dvTable' = dvTable
  PROVE  Converged'
<1>1. \A n \in Node : Announcing(n)' = Announcing(n)
  BY DEF Announcing
<1>2. \A n, d \in Node : Offers(n, d)' = Offers(n, d)
  BY <1>1 DEF Offers
<1>3. QED
  BY <1>1, <1>2 DEF Converged, HoldsBestOffer

\* The step of a calm node leaves the network settled.
LEMMA CalmBecome ==
  ASSUME RouterInv, Steady, NEW n \in Node, NEW s \in CalmState(n), Become(n, s), up' = up
  PROVE  Steady' /\ dvTable' = dvTable
<1>1. /\ s.conn = connections[n] /\ s.cost = costs[n] /\ s.dv = dvTable[n]
      /\ Repeats(s.net) /\ OnLiveLinks(s.mesg)
  BY CalmFields
<1>2. connections' = connections /\ costs' = costs /\ dvTable' = dvTable
  BY <1>1 DEF Become, RouterInv, VecTypeOK, MonitorTypeOK
<1>3. Converged'
  BY <1>2, ConvergedKept DEF Steady
<1>4. net' = s.net /\ mesg' = s.mesg
  BY DEF Become
<1>5. QED
  BY <1>1, <1>2, <1>3, <1>4 DEF Steady, Announcing, Repeats, OnLiveLinks

LEMMA SteadyCalm ==
  ASSUME RouterInv, Steady, NEW n \in Node
  PROVE  /\ Repeats(net) /\ OnLiveLinks(mesg)
         /\ State(n) \in CalmState(n)
<1>1. Repeats(net) /\ OnLiveLinks(mesg)
  BY DEF Steady, Repeats, OnLiveLinks
<1>2. QED
  BY <1>1, Known DEF CalmState, State

\* Of what is repeated, less is.
LEMMA TailRepeats ==
  ASSUME RouterInv, Repeats(net), NEW h \in Hop, net[h] # <<>>
  PROVE  Repeats([net EXCEPT ![h] = Tail(net[h])])
<1> DEFINE q == [net EXCEPT ![h] = Tail(net[h])]
<1>1. net \in [Hop -> Seq(Update)]
  BY DEF RouterInv, VecTypeOK
<1>2. net[h] \in Seq(Update)
  BY <1>1
<1>3. \A i \in DOMAIN Tail(net[h]) : i + 1 \in DOMAIN net[h] /\ Tail(net[h])[i] = net[h][i + 1]
  BY <1>2
<1>4. \A g \in Hop : q[g] = IF g = h THEN Tail(net[h]) ELSE net[g]
  BY <1>1
<1> HIDE DEF q
<1>5. Repeats(q)
  <2>1. SUFFICES ASSUME NEW g \in Hop, NEW i \in DOMAIN q[g]
                 PROVE  g \in up /\ q[g][i].dist = Advertised(dvTable[g[1]][q[g][i].dest], g[2])
    BY DEF Repeats
  <2>2. \E k \in DOMAIN net[g] : q[g][i] = net[g][k]
    <3>1. CASE g = h
      BY <3>1, <1>3, <1>4
    <3>2. CASE g # h
      BY <3>2, <1>4
    <3>3. QED
      BY <3>1, <3>2
  <2>3. QED
    BY <2>2 DEF Repeats
<1>6. QED
  BY <1>5 DEF q

\* Each action of a settled network, but for those that change it from outside.
LEMMA HearCalm ==
  ASSUME RouterInv, BothWays, PositiveCosts, Steady, NEW n \in Node, NEW m \in Node, Hear(n, m),
         FalseAlarms => connections' = connections
  PROVE  Steady' /\ dvTable' = dvTable
<1>1. PICK t \in Turn(n, State(n), m) : Become(n, t)
  BY DEF Hear
<1>2. m \in Announcing(n) /\ up' = up
  BY DEF Hear
<1>3. FalseAlarms => t.conn = connections[n]
  BY <1>1 DEF Become, RouterInv, VecTypeOK, MonitorTypeOK
<1>4. t \in CalmState(n)
  BY <1>2, <1>3, SteadyCalm, TurnCalm
<1>5. QED
  BY <1>1, <1>2, <1>4, CalmBecome

LEMMA ReceiveDistCalm ==
  ASSUME RouterInv, BothWays, PositiveCosts, Steady, NEW n \in Node, NEW m \in Node,
         ReceiveDist(n, m), FalseAlarms => connections' = connections
  PROVE  Steady' /\ dvTable' = dvTable
<1> DEFINE h == <<m, n>>
           u == Head(net[h])
           taken == UpdateTaken(n, m)
<1>1. PICK t \in Turn(n, taken, m) : Become(n, Learn(n, t, m, u.dest, u.dist))
  BY DEF ReceiveDist, UpdateTaken
<1>2. net[h] # <<>> /\ up' = up /\ h \in Hop
  BY DEF ReceiveDist, Hop
<1>3. /\ m \in Neighbors(n) /\ m # None /\ net[h] \in Seq(Update) /\ u \in HonestUpdate(m)
      /\ taken = [conn |-> connections[n], cost |-> costs[n], dv |-> dvTable[n],
                  net |-> [net EXCEPT ![h] = Tail(net[h])], mesg |-> mesg]
      /\ taken \in TurnState(n)
  BY <1>2, UpdateTakenOK
<1>4. m \in Announcing(n) /\ u.dist = Advertised(dvTable[m][u.dest], n) /\ u.dest \in Node
  <2>1. 1 \in DOMAIN net[h] /\ u = net[h][1]
    BY <1>2, <1>3
  <2>2. h \in up /\ net[h][1].dist = Advertised(dvTable[m][net[h][1].dest], n)
    BY <1>2, <2>1, SteadyCalm DEF Repeats
  <2>3. u.dest \in Node
    BY <1>3 DEF HonestUpdate, Update
  <2>4. QED
    BY <2>1, <2>2, <2>3 DEF Announcing
<1>5. taken \in CalmState(n)
  <2>1. Repeats([net EXCEPT ![h] = Tail(net[h])]) /\ OnLiveLinks(mesg)
    BY <1>2, SteadyCalm, TailRepeats
  <2> HIDE DEF taken, h
  <2>2. QED
    BY <1>3, <2>1 DEF CalmState
<1> HIDE DEF taken, u, h
<1>6. t \in TurnState(n) /\ m \in t.conn
  BY <1>1, <1>3, Known, TurnOK
<1>7. Learn(n, t, m, u.dest, u.dist).conn = t.conn
  BY <1>3, <1>6, Known, LearnOK
<1>8. FalseAlarms => t.conn = connections[n]
  BY <1>1, <1>7 DEF Become, RouterInv, VecTypeOK, MonitorTypeOK
<1>9. t \in CalmState(n)
  BY <1>1, <1>4, <1>5, <1>8, TurnCalm
<1>10. Learn(n, t, m, u.dest, u.dist) = t
  <2>1. t.cost = costs[n] /\ t.dv = dvTable[n]
    BY <1>9, CalmFields
  <2>2. UpdateDistVec(n, t, u.dest, Via(u.dist, t.cost[m]), m) = t
    BY <1>4, <2>1, UpdateDistVecCalm DEF Steady
  <2>3. QED
    BY <2>2 DEF Learn
<1>11. QED
  BY <1>1, <1>2, <1>9, <1>10, CalmBecome

LEMMA CostCommandCalm ==
  ASSUME RouterInv, BothWays, PositiveCosts, Steady, NEW n \in Node, NEW m \in Node,
         NEW c \in NewCosts, CostCommand(n, m, c), costs' = costs,
         FalseAlarms => connections' = connections
  PROVE  Steady' /\ dvTable' = dvTable
<1>1. PICK t \in Turn(n, State(n), None) : Become(n, SetCost(n, t, m, c))
  BY DEF CostCommand
<1>2. up' = up
  BY DEF CostCommand
<1>3. t \in TurnState(n)
  BY <1>1, Known, TurnOK
<1> DEFINE s == SetCost(n, t, m, c)
<1>4. s.conn = t.conn /\ s.cost = WithCost(t.cost, m, c)
  BY <1>3, Known, SetCostOK
<1>5. s.conn = connections'[n] /\ s.cost = costs'[n]
  <2>1. Become(n, s)
    BY <1>1
  <2> HIDE DEF s
  <2>2. QED
    BY <2>1 DEF Become, RouterInv, VecTypeOK, MonitorTypeOK
<1>6. t \in CalmState(n)
  <2>1. FalseAlarms => t.conn = connections[n]
    BY <1>4, <1>5
  <2>2. QED
    BY <1>1, <2>1, SteadyCalm, TurnCalm
<1>7. t.conn = Announcing(n) /\ t.cost = costs[n] /\ t.dv = dvTable[n] /\ costs[n] \in [Node -> Nat]
  BY <1>6, CalmFields DEF Steady, RouterInv, VecTypeOK, MonitorTypeOK
<1>8. costs[n] = WithCost(costs[n], m, c)
  BY <1>4, <1>5, <1>7
<1>9. c = costs[n][m]
  BY <1>7, <1>8 DEF WithCost
<1>10. [t EXCEPT !.cost = WithCost(@, m, c)] = t
  BY <1>3, <1>7, <1>8 DEF TurnState
<1>11. s = t
  <2>1. SetCost(n, t, m, c) = IF m \in t.conn THEN UpdateDistVec(n, t, m, c, m) ELSE t
    BY <1>10 DEF SetCost
  <2>2. CASE m \in t.conn
    BY <2>1, <2>2, <1>7, <1>9, DirectIsKnown DEF Steady
  <2>3. CASE m \notin t.conn
    BY <2>1, <2>3
  <2>4. QED
    BY <2>2, <2>3
<1>12. QED
  BY <1>1, <1>2, <1>6, <1>11, CalmBecome

\* A message is sent on over a link that is up.
LEMMA ForwardCalm ==
  ASSUME RouterInv, NEW n \in Node, NEW t \in CalmState(n), NEW d \in Node
  PROVE  Forward(n, t, d) \in CalmState(n)
<1> DEFINE hop == t.dv[d].nextHop
           p == [from |-> n, to |-> hop, dest |-> d]
           s == Forward(n, t, d)
<1>1. t \in TurnState(n)
  BY CalmFields
<1>2. s \in TurnState(n) /\ s.conn = t.conn /\ s.cost = t.cost /\ s.dv = t.dv /\ s.net = t.net
  BY <1>1, Known, ForwardOK
<1>3. OnLiveLinks(s.mesg)
  <2>1. CASE hop \in t.conn /\ <<n, hop>> \in up
    <3>1. s = [t EXCEPT !.mesg = @ \cup {p}]
      BY <2>1 DEF Forward
    <3>2. s.mesg = t.mesg \cup {p}
      <4> HIDE DEF s, p
      <4>1. QED
        BY <1>1, <3>1 DEF TurnState
    <3>3. <<p.from, p.to>> \in up
      BY <2>1
    <3> HIDE DEF s, p
    <3>4. QED
      BY <3>2, <3>3, CalmFields DEF OnLiveLinks
  <2>2. CASE ~ (hop \in t.conn /\ <<n, hop>> \in up)
    BY <2>2, CalmFields DEF Forward
  <2>3. QED
    BY <2>1, <2>2
<1> HIDE DEF s
<1>4. QED
  BY <1>2, <1>3, CalmFields DEF CalmState, s

LEMMA SendCommandCalm ==
  ASSUME RouterInv, BothWays, PositiveCosts, Steady, NEW n \in Node, NEW d \in Node,
         SendCommand(n, d), FalseAlarms => connections' = connections
  PROVE  Steady' /\ dvTable' = dvTable
<1>1. PICK t \in Turn(n, State(n), None) : Become(n, Forward(n, t, d))
  BY DEF SendCommand
<1>2. t \in TurnState(n) /\ up' = up
  BY <1>1, Known, TurnOK DEF SendCommand
<1>3. Forward(n, t, d).conn = t.conn
  BY <1>2, Known, ForwardOK
<1>4. FalseAlarms => t.conn = connections[n]
  BY <1>1, <1>3 DEF Become, RouterInv, VecTypeOK, MonitorTypeOK
<1>5. t \in CalmState(n)
  BY <1>1, <1>4, SteadyCalm, TurnCalm
<1>6. QED
  BY <1>1, <1>2, <1>5, ForwardCalm, CalmBecome

LEMMA ReceiveMesgCalm ==
  ASSUME RouterInv, BothWays, PositiveCosts, Steady, NEW p \in mesg, ReceiveMesg(p),
         FalseAlarms => connections' = connections
  PROVE  Steady' /\ dvTable' = dvTable
<1> DEFINE n == p.to
           taken == MesgTaken(p)
           gone(t) == IF p.dest = n THEN t ELSE Forward(n, t, p.dest)
<1>1. PICK t \in Turn(n, taken, p.from) : Become(n, gone(t))
  BY DEF ReceiveMesg, MesgTaken
<1>2. /\ n \in Node /\ p.dest \in Node /\ p.from \in Neighbors(n) /\ p.from # None
      /\ taken = [conn |-> connections[n], cost |-> costs[n], dv |-> dvTable[n],
                  net |-> net, mesg |-> mesg \ {p}]
      /\ taken \in TurnState(n)
  BY MesgTakenOK
<1>3. p.from \in Announcing(n) /\ Repeats(net) /\ OnLiveLinks(mesg \ {p}) /\ up' = up
  BY <1>2, SteadyCalm DEF OnLiveLinks, Announcing, Neighbors, ReceiveMesg
<1> HIDE DEF n, taken
<1>4. taken \in CalmState(n)
  BY <1>2, <1>3 DEF CalmState
<1>5. t \in TurnState(n)
  BY <1>1, <1>2, Known, TurnOK
<1>6. gone(t).conn = t.conn
  BY <1>2, <1>5, Known, ForwardOK
<1>7. FalseAlarms => t.conn = connections[n]
  <2> HIDE DEF gone
  <2>1. QED
    BY <1>1, <1>2, <1>6 DEF Become, RouterInv, VecTypeOK, MonitorTypeOK
<1>8. t \in CalmState(n)
  BY <1>1, <1>2, <1>3, <1>4, <1>7, TurnCalm
<1>9. gone(t) \in CalmState(n)
  BY <1>2, <1>8, ForwardCalm
<1> HIDE DEF gone
<1>10. QED
  BY <1>1, <1>2, <1>3, <1>9, CalmBecome

LEMMA LoseUpdateCalm ==
  ASSUME RouterInv, Steady, NEW h \in Hop, LoseUpdate(h)
  PROVE  Steady' /\ dvTable' = dvTable
<1>1. /\ net[h] # <<>> /\ net' = [net EXCEPT ![h] = Tail(net[h])]
      /\ up' = up /\ connections' = connections /\ costs' = costs /\ dvTable' = dvTable
      /\ mesg' = mesg
  BY DEF LoseUpdate, monitorVars
<1>2. Repeats(net')
  BY <1>1, TailRepeats DEF Repeats, Steady
<1>3. Converged'
  BY <1>1, ConvergedKept DEF Steady
<1>4. QED
  BY <1>1, <1>2, <1>3 DEF Steady, Announcing, Repeats

-----------------------------------------------------------------------------
\* The theorems.

\* The inductive invariant: whatever order the datagrams, the failures and the
\* timers come in, each turn of each router leaves its tables honest and connected.
THEOREM Invariance == Spec => []RouterInv
<1>1. Init => RouterInv
  BY InitInv
<1>2. RouterInv /\ [Next]_vars => RouterInv'
  BY StepInv
<1>3. QED
  BY <1>1, <1>2, PTL DEF Spec

\* The tables and the datagrams of vec_router.cpp keep their types; no finite
\* distance exceeds INFINITY_LIMIT.
THEOREM TypeCorrect == Spec => []VecTypeOK
<1>1. RouterInv => VecTypeOK
  BY DEF RouterInv
<1>2. QED
  BY <1>1, Invariance, PTL

\* What is routed through a neighbour is routed through a connected one: dropping
\* a neighbour in checkHeartbeats drops all its routes, in any order with the
\* updates that would bring them back.
THEOREM HopsAreConnected == Spec => []NextHopConnected
<1>1. RouterInv => NextHopConnected
  <2>1. SUFFICES ASSUME RouterInv, NEW n \in Node, NEW d \in Node
                 PROVE dvTable[n][d].nextHop \in
                         connections[n] \cup (IF d = n THEN {n} ELSE {None})
    BY DEF NextHopConnected
  <2>2. State(n) \in TurnState(n)
    BY <2>1 DEF RouterInv
  <2>3. /\ dvTable[n] \in RouteTable(n)
        /\ \A e \in Node \ {n} : dvTable[n][e].nextHop \in connections[n] \cup {None}
    BY <2>2, Fields DEF State
  <2>4. QED
    BY <2>3 DEF RouteTable
<1>2. QED
  BY <1>1, Invariance, PTL

\* No distance is below what the network can offer, in any network and for any
\* costs: loops and stale updates only ever make a route look longer.
THEOREM NoRouteIsPhantom == Spec => []NoPhantomRoute
<1>1. RouterInv => NoPhantomRoute
  <2>1. SUFFICES ASSUME RouterInv, NEW n \in Node, NEW d \in Node,
                        dvTable[n][d].dist # Infinite
                 PROVE LeastCost[n][d] \in 0 .. dvTable[n][d].dist
    BY DEF NoPhantomRoute
  <2>2. State(n) \in TurnState(n)
    BY <2>1 DEF RouterInv
  <2>3. dvTable[n] \in RouteTable(n)
    BY <2>2, Fields DEF State
  <2>4. QED
    BY <2>1, <2>3 DEF RouteTable, HonestEntry, Honest
<1>2. QED
  BY <1>1, Invariance, PTL

\* Nothing a settled network does to itself disturbs it: updates that cross, repeat or get
\* lost, messages and announcements of vec_router.cpp change no entry, in any network in
\* which no link costs nothing. Over links of cost 0 two nodes may hold routes through each
\* other that satisfy all equations, until poisoned reverse undoes them.
THEOREM SettledNetworkStays == ASSUME PositiveCosts PROVE Spec => SteadyStays
<1> DEFINE A == Steady /\ UNCHANGED <<up, costs, restarts>> /\ (FalseAlarms => UNCHANGED connections)
                  => Steady' /\ UNCHANGED dvTable
<1>1. RouterInv /\ BothWays /\ [Next]_vars => [A]_vars
  <2>1. SUFFICES ASSUME RouterInv, BothWays, Next, Steady, up' = up, costs' = costs,
                        restarts' = restarts, FalseAlarms => connections' = connections
                 PROVE  Steady' /\ dvTable' = dvTable
    OBVIOUS
  <2>2. CASE \E n, m \in Node : Hear(n, m)
    BY <2>1, <2>2, HearCalm
  <2>3. CASE \E n, m \in Node : ReceiveDist(n, m)
    BY <2>1, <2>3, ReceiveDistCalm
  <2>4. CASE \E n, m \in Node, c \in NewCosts : CostCommand(n, m, c)
    BY <2>1, <2>4, CostCommandCalm
  <2>5. CASE \E n, d \in Node : SendCommand(n, d)
    BY <2>1, <2>5, SendCommandCalm
  <2>6. CASE \E p \in mesg : ReceiveMesg(p)
    BY <2>1, <2>6, ReceiveMesgCalm
  <2>7. ASSUME NEW l \in Link, LinkChange(l) PROVE FALSE
    BY <2>1, <2>7 DEF LinkChange
  <2>8. CASE \E h \in Hop : LoseUpdate(h)
    BY <2>1, <2>8, LoseUpdateCalm
  <2>9. ASSUME NEW n \in Node, Restart(n) PROVE FALSE
    BY <2>1, <2>9 DEF Restart, RouterInv, VecTypeOK
  <2>10. QED
    BY <2>1, <2>2, <2>3, <2>4, <2>5, <2>6, <2>7, <2>8, <2>9 DEF Next
<1>2. QED
  BY <1>1, Invariance, LinksGoBothWays, PTL DEF Spec, SteadyStays

\* A network has one table to settle on, where no link costs nothing: of two states a
\* network can be in with the same links and costs (here, a state and its successor in any
\* behaviour whatever), once converged both hold the same entries at every node that hears
\* anybody. Whatever happened before, it leaves no trace in the routes.
THEOREM SettledTablesAreUnique ==
  ASSUME PositiveCosts,
         RouterInv /\ BothWays /\ Converged, (RouterInv /\ Converged)',
         up' = up, costs' = costs, NEW n \in Node, Announcing(n) # {}
  PROVE  dvTable'[n] = dvTable[n]
<1>1. Fits(dvTable)
  BY ConvergedFits
<1>2. Fits(dvTable')
  <2>1. (RouterInv /\ Converged => Fits(dvTable))'
    BY ConvergedFits, PTL
  <2>2. Fits(dvTable)'
    BY <2>1
  <2>3. QED
    BY <2>2 DEF Fits, IsOffered, IsBest, Announcing
<1>3. \A d \in Node : dvTable'[n][d] = dvTable[n][d]
  BY <1>1, <1>2, OneTable
<1>4. dvTable[n] \in [Node -> Entry] /\ dvTable'[n] \in [Node -> Entry]
  BY <1>1, <1>2 DEF Fits, IsTable
<1>5. QED
  BY <1>3, <1>4
=============================================================================
