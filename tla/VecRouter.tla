------------------------------ MODULE VecRouter ------------------------------
(***************************************************************************)
(* vec_router.cpp: distance-vector routing with poisoned reverse.          *)
(*                                                                         *)
(* A node is a single loop: receive a datagram, note who it came from,     *)
(* send the periodic update if a second has gone by, drop the neighbours   *)
(* not heard for three seconds, then act on the datagram.  Each action     *)
(* below is one turn of that loop, whole; the operators before them are    *)
(* the functions it calls, each from one state of the node to the next.    *)
(*                                                                         *)
(* The clock is abstracted: a turn may find the update due or not, and any *)
(* neighbour silent.  MaxPending bounds the overlap of one second's        *)
(* updates with the next second's; without FalseAlarms ten announcements   *)
(* in a row are never lost on a link that is up.                           *)
(*                                                                         *)
(* Left out: the copies and reorderings of updates that UDP allows; the    *)
(* datagrams of a link arrive in order here.                               *)
(***************************************************************************)
EXTENDS NeighborMonitor, Sequences

CONSTANTS
  INFINITY_LIMIT, \* a longer distance counts as infinite
  FalseAlarms,    \* whether a neighbour may fall silent though the link is up
  MaxPending,     \* bound: updates under way anywhere when the next are due
  MaxInFlight,    \* bound: updates a receiver's socket buffers for a link
  MaxLosses,      \* bound: updates the network loses, apart from those dead links drop
  MaxSends,       \* bound: messages the manager asks to be sent
  MaxRestarts,    \* bound: restarts of routers
  LeastCost       \* LeastCost[n][d]: no path from n to d ever costs less; -1 without a path

Infinite == -1
None == -1

ASSUME RouterAssumption ==
  /\ INFINITY_LIMIT \in Nat
  /\ FalseAlarms \in BOOLEAN
  /\ {MaxPending, MaxInFlight, MaxLosses, MaxSends, MaxRestarts} \subseteq Nat

\* The triangle inequality, for every cost a link may come to have. The costs of
\* the shortest paths satisfy it, and no greater ones do.
ASSUME LeastCostAssumption ==
  /\ LeastCost \in [Node -> [Node -> Nat \cup {Infinite}]]
  /\ \A d \in Node : LeastCost[d][d] = 0
  /\ \A l \in Link, d \in Node : \A c \in PossibleCosts(l[1], l[2]) :
       LeastCost[l[2]][d] # Infinite =>
         LeastCost[l[1]][d] \in 0 .. c + LeastCost[l[2]][d]

VARIABLES
  dvTable,        \* dvTable[n][d]: n's distance and next hop to d
  net,            \* net[<<n, m>>]: the updates under way from n to m, oldest first
  mesg,           \* messages under way, with the two ends of the hop
  losses, sends, restarts   \* what MaxLosses, MaxSends and MaxRestarts bound

routerVars == <<dvTable, net, mesg, losses, sends, restarts>>
vars == <<monitorVars, routerVars>>

Distance == {Infinite} \cup 0 .. INFINITY_LIMIT
Entry == [dist : Distance, nextHop : Node \cup {None}]
Unreachable == [dist |-> Infinite, nextHop |-> None]
Update == [dest : Node, dist : Distance]
Mesg == [from : Node, to : Node, dest : Node]

VecTypeOK ==
  /\ MonitorTypeOK
  /\ dvTable \in [Node -> [Node -> Entry]]
  /\ net \in [Hop -> Seq(Update)]
  /\ mesg \subseteq Mesg
  /\ losses \in 0 .. MaxLosses
  /\ sends \in 0 .. MaxSends
  /\ restarts \in 0 .. MaxRestarts

\* main: a node knows the way to itself and nothing else.
FirstTable(n) == [d \in Node |-> IF d = n THEN [dist |-> 0, nextHop |-> n] ELSE Unreachable]

Init ==
  /\ MonitorInit
  /\ dvTable = [n \in Node |-> FirstTable(n)]
  /\ net = [h \in Hop |-> <<>>]
  /\ mesg = {}
  /\ losses = 0
  /\ sends = 0
  /\ restarts = 0

-----------------------------------------------------------------------------
(* The functions a turn is made of: s is what a turn of node n changes.     *)

State(n) == [conn |-> connections[n], cost |-> costs[n], dv |-> dvTable[n],
             net |-> net, mesg |-> mesg]

\* Mutation: no poisoned reverse.
NotPoisoned(entry, m) == entry.dist

\* What a node whose entry it is tells m: the next hop is told infinity.
Advertised(entry, m) == IF entry.nextHop = m THEN Infinite ELSE entry.dist

\* A socket drops what comes once its buffer is full.
Buffered(updates) ==
  IF Len(updates) <= MaxInFlight THEN updates ELSE SubSeq(updates, 1, MaxInFlight)

\* sendDistVecUpdate for every <<m, d>> of told: m hears of destination d. What
\* is sent over a dead link is lost, and so is what the buffer does not hold.
SendUpdates(n, s, told) ==
  LET dests(m) == InIdOrder[{d \in Node : <<m, d>> \in told}]
      updates(m) == [i \in DOMAIN dests(m) |->
                       [dest |-> dests(m)[i], dist |-> Advertised(s.dv[dests(m)[i]], m)]]
  IN [s EXCEPT !.net = [h \in Hop |->
        IF h[1] = n /\ h \in up THEN Buffered(@[h] \o updates(h[2])) ELSE @[h]]]

\* Mutation: no limit.
Unlimited(dist) == dist

\* A distance over the limit is infinite.
Limited(dist) == IF dist > INFINITY_LIMIT THEN Infinite ELSE dist

\* What is noted: no next hop for what is infinitely far.
EntryFor(dist, hop) == IF dist = Infinite THEN Unreachable ELSE [dist |-> dist, nextHop |-> hop]

\* Mutation: only a shorter way is worth noting.
OnlyShorter(conn, old, dist, hop) == dist # Infinite /\ (dist < old.dist \/ old.dist = Infinite)

\* Mutation: whoever tells of another distance is believed, not only the next hop.
AnyoneBelieved(conn, old, dist, hop) ==
  \/ hop < old.nextHop /\ old.dist = dist
  \/ old.nextHop # None /\ old.nextHop \notin conn /\ hop = None
  \/ old.dist # dist

\* The update is necessary: old is the entry, dist and hop what is proposed.
Necessary(conn, old, dist, hop) ==
  \/ dist # Infinite /\ dist < old.dist                                     \* lowerDist
  \/ hop < old.nextHop /\ old.dist = dist                                   \* lowerID
  \/ old.nextHop # None /\ old.nextHop \notin conn /\ hop = None            \* connectionLost
  \/ old.dist # dist /\ (old.nextHop = hop \/ old.dist = Infinite)          \* distChanged

UpdateDistVec(n, s, d, dist, hop) ==
  LET limited == Limited(dist) IN
  IF d # n /\ Necessary(s.conn, s.dv[d], limited, hop)
  THEN SendUpdates(n, [s EXCEPT !.dv[d] = EntryFor(limited, hop)], s.conn \X {d})
  ELSE s

\* Anything received from m shows that the link to m is up.
HeardFrom(n, s, m) ==
  UpdateDistVec(n, [s EXCEPT !.conn = Connected(@, m)], m, s.cost[m], m)

CheckUpdateTime(n, s, due) ==
  IF due THEN SendUpdates(n, s, s.conn \X {d \in Node : s.dv[d].dist # Infinite}) ELSE s

\* Mutation: the neighbours are dropped, what was routed through them is not.
CheckHeartbeatsKeepsRoutes(n, s, silent) == [s EXCEPT !.conn = @ \ silent]

\* Mutation: those that are left are not told of what is lost.
CheckHeartbeatsTellsNobody(n, s, silent) ==
  [s EXCEPT !.conn = @ \ silent,
            !.dv = [d \in Node |-> IF @[d].nextHop \in silent THEN Unreachable ELSE @[d]]]

\* The silent neighbours are dropped in order of their ID, each with all that is
\* routed through it; those not dropped yet are still told. The updates say
\* infinity for different destinations, and here go out in the destinations' order.
CheckHeartbeats(n, s, silent) ==
  LET lost == {d \in Node : s.dv[d].nextHop \in silent}
      dropped(d) == {m \in silent : m <= s.dv[d].nextHop}
      cut == [s EXCEPT !.conn = @ \ silent,
                       !.dv = [d \in Node |-> IF d \in lost THEN Unreachable ELSE @[d]]]
  IN SendUpdates(n, cut, {t \in s.conn \X lost : t[1] \notin dropped(t[2])})

\* UpdateConnection and the route that goes with it, when from is a node; the
\* manager's packets come from elsewhere.
NoteSender(n, s, from) == IF from = None THEN s ELSE HeardFrom(n, s, from)

Dead(n) == {m \in connections[n] : <<m, n>> \notin up}
FewPending == Cardinality(UNION {{h} \X DOMAIN net[h] : h \in Hop}) <= MaxPending

\* What a turn may find of the clock: the update due or not, and who is silent.
Due == IF FewPending THEN BOOLEAN ELSE {FALSE}
Silence(n, from) ==
  SUBSET ((IF FalseAlarms THEN connections[n] ELSE IF FewPending THEN Dead(n) ELSE {}) \ {from})

\* The states a turn can be in when it comes to look at the datagram itself.
Begun(n, s, from, due, silence) ==
  {CheckHeartbeats(n, r, silent) :
     r \in {CheckUpdateTime(n, q, now) : q \in {NoteSender(n, s, from)}, now \in due},
     silent \in silence}

Turn(n, s, from) == Begun(n, s, from, Due, Silence(n, from))

Become(n, s) ==
  /\ connections' = [connections EXCEPT ![n] = s.conn]
  /\ costs' = [costs EXCEPT ![n] = s.cost]
  /\ dvTable' = [dvTable EXCEPT ![n] = s.dv]
  /\ net' = s.net
  /\ mesg' = s.mesg

-----------------------------------------------------------------------------
(* One action per kind of datagram.                                         *)

\* HEREIAM from m.
Hear(n, m) ==
  /\ m \in Announcing(n)
  /\ \E s \in Turn(n, State(n), m) : Become(n, s)
  /\ UNCHANGED <<up, changes, losses, sends, restarts>>

\* Mutation: the cost of the link is not added.
ViaForgetsLink(dist, cost) == dist

\* A neighbour's distance as this node's: infinity stays what it is.
Via(dist, cost) == IF dist = Infinite THEN Infinite ELSE dist + cost

\* What a node makes of an update, once it knows a way to the one that sent it.
Learn(n, s, m, d, dist) ==
  IF s.dv[m].dist >= 0 THEN UpdateDistVec(n, s, d, Via(dist, s.cost[m]), m) ELSE s

ReceiveDist(n, m) ==
  /\ net[<<m, n>>] # <<>>
  /\ LET update == Head(net[<<m, n>>])
         taken == [State(n) EXCEPT !.net[<<m, n>>] = Tail(@)]
     IN \E s \in {Learn(n, t, m, update.dest, update.dist) : t \in Turn(n, taken, m)} : Become(n, s)
  /\ UNCHANGED <<up, changes, losses, sends, restarts>>

\* The cost is noted, and the direct route to m follows if the link is up.
SetCost(n, s, m, c) ==
  LET t == [s EXCEPT !.cost = WithCost(@, m, c)] IN
  IF m \in s.conn THEN UpdateDistVec(n, t, m, c, m) ELSE t

\* The manager's cost command.
CostCommand(n, m, c) ==
  /\ changes < MaxChanges /\ m # n
  /\ changes' = changes + 1
  /\ \E s \in {SetCost(n, t, m, c) : t \in Turn(n, State(n), None)} : Become(n, s)
  /\ UNCHANGED <<up, losses, sends, restarts>>

\* forwardMessage: to the next hop, if there is one and it is there.
Forward(n, s, d) ==
  LET hop == s.dv[d].nextHop IN
  IF hop \in s.conn /\ <<n, hop>> \in up
  THEN [s EXCEPT !.mesg = @ \cup {[from |-> n, to |-> hop, dest |-> d]}]
  ELSE s

\* The manager's send command.
SendCommand(n, d) ==
  /\ sends < MaxSends
  /\ sends' = sends + 1
  /\ \E s \in {Forward(n, t, d) : t \in Turn(n, State(n), None)} : Become(n, s)
  /\ UNCHANGED <<up, changes, losses, restarts>>

\* A message comes to its destination, or goes on.
ReceiveMesg(p) ==
  /\ LET n == p.to
         taken == [State(n) EXCEPT !.mesg = @ \ {p}]
     IN \E s \in {IF p.dest = n THEN t ELSE Forward(n, t, p.dest) : t \in Turn(n, taken, p.from)} :
          Become(n, s)
  /\ UNCHANGED <<up, changes, losses, sends, restarts>>

\* The network loses an update. External.
LoseUpdate(h) ==
  /\ losses < MaxLosses /\ net[h] # <<>>
  /\ losses' = losses + 1
  /\ net' = [net EXCEPT ![h] = Tail(@)]
  /\ UNCHANGED <<monitorVars, dvTable, mesg, sends, restarts>>

\* A router is stopped and started again before anyone misses it: it begins with what
\* its costs file says and an empty socket. What it sent before is still under way.
Restart(n) ==
  /\ restarts < MaxRestarts
  /\ restarts' = restarts + 1
  /\ Become(n, [conn |-> {}, cost |-> InitialCost[n], dv |-> FirstTable(n),
                net |-> [h \in Hop |-> IF h[2] = n THEN <<>> ELSE net[h]],
                mesg |-> {p \in mesg : p.to # n}])
  /\ UNCHANGED <<up, changes, losses, sends>>

Next ==
  \/ \E n, m \in Node : Hear(n, m)
  \/ \E n, m \in Node : ReceiveDist(n, m)
  \/ \E n, m \in Node, c \in NewCosts : CostCommand(n, m, c)
  \/ \E n, d \in Node : SendCommand(n, d)
  \/ \E p \in mesg : ReceiveMesg(p)
  \/ \E l \in Link : LinkChange(l) /\ UNCHANGED routerVars
  \/ \E h \in Hop : LoseUpdate(h)
  \/ \E n \in Node : Restart(n)

Spec == Init /\ [][Next]_vars

-----------------------------------------------------------------------------
(* Fairness: the socket's buffer is emptied as long as anything is in it, and *)
(* a neighbour that announces itself over and over is heard, also in a turn   *)
(* that finds the update due and every dead neighbour silent.                 *)

HearOnTime(n, m) ==
  /\ FewPending /\ m \in Announcing(n)
  /\ \E s \in Begun(n, State(n), m, {TRUE}, {Dead(n)}) : Become(n, s)
  /\ UNCHANGED <<up, changes, losses, sends, restarts>>

Fairness ==
  \A l \in Link : WF_vars(ReceiveDist(l[1], l[2])) /\ SF_vars(HearOnTime(l[1], l[2]))

FairSpec == Spec /\ Fairness

-----------------------------------------------------------------------------
(* What the router promises.                                                *)

\* Whatever is routed through a neighbour is routed through one the node believes
\* it is connected to: otherwise sendMessage drops what forwardMessage logs as
\* sent, and checkHeartbeats never cleans the entry.
NextHopConnected ==
  \A n, d \in Node :
    dvTable[n][d].nextHop \in connections[n] \cup (IF d = n THEN {n} ELSE {None})

\* A distance in a table is never below the cost of the cheapest path there could
\* be, and there is none to a node no path leads to: rumours that go in circles
\* only ever make a route look longer.
NoPhantomRoute ==
  \A n, d \in Node :
    dvTable[n][d].dist # Infinite => LeastCost[n][d] \in 0 .. dvTable[n][d].dist

\* What each neighbour has to offer for d.
Offers(n, d) ==
  {[dist |-> costs[n][m] + dvTable[m][d].dist, nextHop |-> m] :
     m \in {h \in Announcing(n) : dvTable[h][d].dist # Infinite}}

\* n's entry for d is the best offer of its neighbours, the one with the lower next hop
\* ID of two equally good.
HoldsBestOffer(n, d) ==
  LET usable == {o \in Offers(n, d) : o.dist <= INFINITY_LIMIT} IN
  IF usable = {} THEN dvTable[n][d] = Unreachable
  ELSE /\ dvTable[n][d] \in usable
       /\ \A o \in usable :
            \/ dvTable[n][d].dist < o.dist
            \/ dvTable[n][d].dist = o.dist /\ dvTable[n][d].nextHop <= o.nextHop

\* Every node that hears anybody holds the best offers. With positive costs only the
\* table of shortest paths satisfies this.
Converged ==
  \A n, d \in Node : (n # d /\ Announcing(n) # {}) => HoldsBestOffer(n, d)

\* The routes settle on the shortest ones once links and costs do.
Converges == <>[]Converged

\* The routers have converged and know their neighbours, and what is under way on the
\* links that are up only repeats what its senders' tables say.
Steady ==
  /\ Converged
  /\ \A n \in Node : connections[n] = Announcing(n)
  /\ \A h \in Hop : \A i \in DOMAIN net[h] :
       h \in up /\ net[h][i].dist = Advertised(dvTable[h[1]][net[h][i].dest], h[2])
  /\ \A p \in mesg : <<p.from, p.to>> \in up

\* Nothing a steady network does to itself disturbs it, a lost update included: only a
\* link, a cost, a restart or a false alarm can.
SteadyStays ==
  [][Steady /\ UNCHANGED <<up, costs, restarts>> /\ (FalseAlarms => UNCHANGED connections)
       => Steady' /\ UNCHANGED dvTable]_vars

=============================================================================
