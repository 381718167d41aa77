------------------------------ MODULE LsRouter ------------------------------
(***************************************************************************)
(* ls_router.cpp: link-state routing.  Each end of a link floods the       *)
(* link's cost, or -1 when it is gone, under a sequence number of its own; *)
(* every node keeps the costs it has heard of in a matrix and computes its *)
(* forwarding table from it.                                               *)
(*                                                                         *)
(* As in VecRouter each action is one turn of the receive loop: receive a  *)
(* datagram, flood if it comes from a new neighbour, drop the neighbours   *)
(* that have fallen silent, flood if the period is over, then act on the   *)
(* datagram.  The operators before the actions are the functions a turn    *)
(* calls, each from one state of the node to the next.                     *)
(*                                                                         *)
(* Left out: the restart of a node, and the copies and reorderings that    *)
(* UDP allows; the datagrams of a link arrive in order here.               *)
(***************************************************************************)
EXTENDS NeighborMonitor, Dijkstra, Sequences, Functions

CONSTANTS
  TTL,            \* how many links a link-state packet may cross, and one more
  FalseAlarms,    \* whether a neighbour may fall silent though the link is up
  MaxPending,     \* bound: packets under way anywhere when a timer goes off
  MaxFloods,      \* bound: periodic floods
  MaxLosses,      \* bound: packets the network loses, apart from those dead links drop
  MaxSends        \* bound: messages the manager asks to be sent

Down == -1
Manager == -1

ASSUME LsAssumption ==
  /\ {MaxPending, MaxFloods, MaxLosses, MaxSends} \subseteq Nat /\ TTL \in Nat \ {0}
  /\ FalseAlarms \in BOOLEAN
  /\ \A n, m \in Node : n # m => 0 \notin PossibleCosts(n, m)

VARIABLES
  adjMatrix,      \* adjMatrix[n][a][b]: what n believes the link of a and b costs, 0 if unheard of
  seqNumMatrix,   \* seqNumMatrix[n][a][b]: the number of the newest packet of a on its link to b
  confirmedMap,   \* confirmedMap[n]: n's forwarding table
  net,            \* net[<<n, m>>]: the link-state packets under way from n to m, oldest first
  mesg,           \* messages under way, with the two ends of the hop
  said,           \* history, said[a][b]: all a ever flooded of its link to b, oldest first
  floods, losses, sends   \* what MaxFloods, MaxLosses and MaxSends bound

lsVars == <<adjMatrix, seqNumMatrix, confirmedMap, net, mesg, said, floods, losses, sends>>
vars == <<monitorVars, lsVars>>

LSP == [node1 : Node, node2 : Node, cost : Int, seqNum : Nat, ttl : 1 .. TTL]
Mesg == [from : Node, to : Node, dest : Node]
Route == [cost : Nat, nexthop : Node \cup {NoHop}]

LsTypeOK ==
  /\ MonitorTypeOK
  /\ adjMatrix \in [Node -> [Node -> [Node -> Int]]]
  /\ seqNumMatrix \in [Node -> [Node -> [Node -> Nat]]]
  /\ DOMAIN confirmedMap = Node
  /\ \A n \in Node : \E D \in SUBSET Node : confirmedMap[n] \in [D -> Route]
  /\ net \in [Hop -> Seq(LSP)]
  /\ mesg \subseteq Mesg
  /\ said \in [Node -> [Node -> Seq(Int)]]
  /\ floods \in 0 .. MaxFloods /\ losses \in 0 .. MaxLosses /\ sends \in 0 .. MaxSends

\* main: nothing is known, and the table is empty until something is.
LsInit ==
  /\ adjMatrix = [n \in Node |-> [a \in Node |-> [b \in Node |-> 0]]]
  /\ seqNumMatrix = [n \in Node |-> [a \in Node |-> [b \in Node |-> 0]]]
  /\ confirmedMap = [n \in Node |-> <<>>]
  /\ net = [h \in Hop |-> <<>>]
  /\ mesg = {}
  /\ said = [a \in Node |-> [b \in Node |-> <<>>]]
  /\ floods = 0 /\ losses = 0

Init == MonitorInit /\ LsInit /\ sends = 0

-----------------------------------------------------------------------------
(* The functions a turn is made of: s is what a turn of node n changes.     *)

State(n) == [conn |-> connections[n], cost |-> costs[n], adj |-> adjMatrix[n],
             seq |-> seqNumMatrix[n], fwd |-> confirmedMap[n], net |-> net,
             mesg |-> mesg, said |-> said[n], floods |-> floods]

View(n, s) == [self |-> n, conn |-> s.conn, cost |-> s.cost, adj |-> s.adj]

WithTable(n, s) == [s EXCEPT !.fwd = UpdateFwdTable(View(n, s))]

\* Mutation: one half of the matrix only.
OneWay(adj, a, b, c) == [adj EXCEPT ![a][b] = c]

\* The matrix is symmetric.
WithLink(adj, a, b, c) == [adj EXCEPT ![a][b] = c, ![b][a] = c]

\* n floods news[x] of its link to every x in DOMAIN news, with the next number of
\* that link; <<m, x>> \in to says that m is sent the packet on x. What is sent over a
\* dead link is lost.
Flood(n, s, news, to) ==
  LET lsp(x) == [node1 |-> n, node2 |-> x, cost |-> news[x],
                 seqNum |-> s.seq[n][x] + 1, ttl |-> TTL]
      list(m) == InIdOrder[{x \in DOMAIN news : <<m, x>> \in to}]
      packets(m) == [i \in DOMAIN list(m) |-> lsp(list(m)[i])]
  IN [s EXCEPT
        !.seq[n] = [x \in Node |-> IF x \in DOMAIN news THEN @[x] + 1 ELSE @[x]],
        !.said = [x \in Node |-> IF x \in DOMAIN news THEN Append(@[x], news[x]) ELSE @[x]],
        !.net = [h \in Hop |-> IF h[1] = n /\ h \in up THEN @[h] \o packets(h[2]) ELSE @[h]]]

\* Mutation: links that are down are left out.
OwnLiveLinks(n, s) == [x \in s.conn |-> s.cost[x]]

\* The links floodLSP speaks of and what it says of them: the live ones, and those
\* the matrix has as gone.
OwnLinks(n, s) ==
  [x \in s.conn \cup {m \in Node \ {n} : s.adj[n][m] = Down} |->
     IF x \in s.conn THEN s.cost[x] ELSE Down]

\* Mutation: a link that is gone is flooded with the cost it had.
FloodOldCosts(n, s) ==
  Flood(n, s, [x \in DOMAIN OwnLinks(n, s) |-> s.cost[x]], s.conn \X Node)

\* n floods its own links to all its neighbours.
FloodLSP(n, s) == Flood(n, s, OwnLinks(n, s), s.conn \X Node)

\* Mutation: a new neighbour is not told of.
HeardFromQuietly(n, s, m) ==
  IF m \in s.conn THEN s
  ELSE WithTable(n, [s EXCEPT !.conn = Connected(@, m), !.adj = WithLink(@, n, m, s.cost[m])])

\* A datagram from m: a new neighbour enters the tables and everybody is told of it,
\* and it of everything.
HeardFrom(n, s, m) ==
  IF m \in s.conn THEN s
  ELSE LET t == [s EXCEPT !.conn = Connected(@, m), !.adj = WithLink(@, n, m, s.cost[m])]
       IN FloodLSP(n, WithTable(n, t))

\* The manager's packets do not come from a node.
NoteSender(n, s, from) == IF from = Manager THEN s ELSE HeardFrom(n, s, from)

\* Mutation: the table is left as it is.
DropSilentKeepsTable(n, s, silent) ==
  IF silent = {} THEN s
  ELSE LET t == [s EXCEPT !.conn = @ \ silent,
                          !.adj = [a \in Node |-> [b \in Node |->
                            IF n \in {a, b} /\ silent \cap {a, b} # {} THEN Down ELSE @[a][b]]]]
       IN Flood(n, t, [x \in silent |-> Down],
                {p \in s.conn \X silent : p[1] \in silent => p[2] < p[1]})

\* The silent neighbours are dropped in order of their ID, and the loss of each is
\* told to those not dropped yet (sendDownLSP).
DropSilent(n, s, silent) ==
  IF silent = {} THEN s
  ELSE LET t == [s EXCEPT !.conn = @ \ silent,
                          !.adj = [a \in Node |-> [b \in Node |->
                            IF n \in {a, b} /\ silent \cap {a, b} # {} THEN Down ELSE @[a][b]]]]
       IN Flood(n, WithTable(n, t), [x \in silent |-> Down],
                {p \in s.conn \X silent : p[1] \in silent => p[2] < p[1]})

PeriodicFlood(n, s, due) == IF due THEN [FloodLSP(n, s) EXCEPT !.floods = @ + 1] ELSE s

Dead(n) == {m \in connections[n] : <<m, n>> \notin up}
FewPending == FoldFunction(LAMBDA packets, count : count + Len(packets), 0, net) <= MaxPending

\* What a turn may find of the clock: the flood due or not, and who is silent.
Due == IF FewPending /\ floods < MaxFloods THEN BOOLEAN ELSE {FALSE}
Silence(n, from) ==
  SUBSET ((IF FalseAlarms THEN connections[n] ELSE IF FewPending THEN Dead(n) ELSE {}) \ {from})

\* The states a turn of s can be in when it comes to look at the datagram itself.
Turn(n, s, from) ==
  {PeriodicFlood(n, DropSilent(n, NoteSender(n, s, from), silent), due) :
     silent \in Silence(n, from), due \in Due}

Become(n, s) ==
  /\ connections' = [connections EXCEPT ![n] = s.conn]
  /\ costs' = [costs EXCEPT ![n] = s.cost]
  /\ adjMatrix' = [adjMatrix EXCEPT ![n] = s.adj]
  /\ seqNumMatrix' = [seqNumMatrix EXCEPT ![n] = s.seq]
  /\ confirmedMap' = [confirmedMap EXCEPT ![n] = s.fwd]
  /\ net' = s.net
  /\ mesg' = s.mesg
  /\ said' = [said EXCEPT ![n] = s.said]
  /\ floods' = s.floods

-----------------------------------------------------------------------------
(* One action per kind of datagram.                                         *)

\* HEREIAM from m.
Hear(n, m) ==
  /\ m \in Announcing(n)
  /\ \E s \in Turn(n, State(n), m) : Become(n, s)
  /\ UNCHANGED <<up, changes, losses, sends>>

\* Mutation: what a node has seen counts as new once more.
FreshOrSeen(s, p) == p.seqNum >= s.seq[p.node1][p.node2] /\ p.ttl - 1 > 0

\* The packet is newer than any of its link seen so far, and has not expired.
Fresh(s, p) == p.seqNum > s.seq[p.node1][p.node2] /\ p.ttl - 1 > 0

\* Mutation: the news that a link is gone is taken for a cost.
AdoptedUnchecked(n, cost, p) ==
  IF p.node2 = n THEN WithCost(cost, p.node1, p.cost)
  ELSE IF p.node1 = n THEN WithCost(cost, p.node2, p.cost)
  ELSE cost

\* The cost of a node's own link as the other end has it.
Adopted(n, cost, p) ==
  IF p.node2 = n /\ p.cost > 0 THEN WithCost(cost, p.node1, p.cost)
  ELSE IF p.node1 = n /\ p.cost > 0 THEN WithCost(cost, p.node2, p.cost)
  ELSE cost

\* A fresh packet is entered and passed on to all but the one it came from.
Accept(n, s, p, from) ==
  IF ~Fresh(s, p) THEN s
  ELSE LET t == [s EXCEPT
             !.seq[p.node1][p.node2] = p.seqNum,
             !.adj = WithLink(@, p.node1, p.node2, p.cost),
             !.cost = Adopted(n, @, p),
             !.net = [h \in Hop |-> IF h[1] = n /\ h[2] \in s.conn \ {from} /\ h \in up
                                    THEN Append(@[h], [p EXCEPT !.ttl = @ - 1]) ELSE @[h]]]
       IN WithTable(n, t)

ReceiveLSP(n, m) ==
  /\ net[<<m, n>>] # <<>>
  /\ LET taken == [State(n) EXCEPT !.net[<<m, n>>] = Tail(@)]
     IN \E s \in {Accept(n, t, Head(net[<<m, n>>]), m) : t \in Turn(n, taken, m)} : Become(n, s)
  /\ UNCHANGED <<up, changes, losses, sends>>

\* Mutation: the matrix keeps the old cost.
SetCostKeepsMatrix(n, s, m, c) ==
  LET t == [s EXCEPT !.cost = WithCost(@, m, c)] IN
  IF m \in s.conn THEN WithTable(n, Flood(n, t, [x \in {m} |-> c], s.conn \X {m})) ELSE t

\* Mutation: the cost of a dead link is entered and flooded as well.
SetCostAlways(n, s, m, c) ==
  LET t == [s EXCEPT !.cost = WithCost(@, m, c), !.adj = WithLink(@, n, m, c)] IN
  WithTable(n, Flood(n, t, [x \in {m} |-> c], s.conn \X {m}))

\* The cost is noted; the cost of a live link is entered and flooded.
SetCost(n, s, m, c) ==
  LET t == [s EXCEPT !.cost = WithCost(@, m, c)] IN
  IF m \in s.conn
  THEN WithTable(n, Flood(n, [t EXCEPT !.adj = WithLink(@, n, m, c)], [x \in {m} |-> c], s.conn \X {m}))
  ELSE t

\* The manager's cost command.
CostCommand(n, m, c) ==
  /\ changes < MaxChanges /\ m # n
  /\ changes' = changes + 1
  /\ \E t \in Turn(n, State(n), Manager) : Become(n, SetCost(n, t, m, c))
  /\ UNCHANGED <<up, losses, sends>>

\* To the next hop of the destination, if there is one.
Forward(n, s, d) ==
  IF d # n /\ d \in DOMAIN s.fwd /\ <<n, s.fwd[d].nexthop>> \in up
  THEN [s EXCEPT !.mesg = @ \cup {[from |-> n, to |-> s.fwd[d].nexthop, dest |-> d]}]
  ELSE s

\* The manager's send command.
SendCommand(n, d) ==
  /\ sends < MaxSends
  /\ sends' = sends + 1
  /\ \E t \in Turn(n, State(n), Manager) : Become(n, Forward(n, t, d))
  /\ UNCHANGED <<up, changes, losses>>

\* A message comes to its destination, or goes on.
ReceiveForward(p) ==
  /\ LET taken == [State(p.to) EXCEPT !.mesg = @ \ {p}]
     IN \E t \in Turn(p.to, taken, p.from) : Become(p.to, Forward(p.to, t, p.dest))
  /\ UNCHANGED <<up, changes, losses, sends>>

\* The network loses a packet. External.
LoseLSP(h) ==
  /\ losses < MaxLosses /\ net[h] # <<>>
  /\ losses' = losses + 1
  /\ net' = [net EXCEPT ![h] = Tail(@)]
  /\ UNCHANGED <<monitorVars, adjMatrix, seqNumMatrix, confirmedMap, mesg, said, floods, sends>>

Next ==
  \/ \E n, m \in Node : Hear(n, m)
  \/ \E n, m \in Node : ReceiveLSP(n, m)
  \/ \E n, m \in Node, c \in NewCosts : CostCommand(n, m, c)
  \/ \E n, d \in Node : SendCommand(n, d)
  \/ \E p \in mesg : ReceiveForward(p)
  \/ \E l \in Link : LinkChange(l) /\ UNCHANGED lsVars
  \/ \E h \in Hop : LoseLSP(h)

Spec == Init /\ [][Next]_vars

(* Fairness: a node receives as long as anything is in its socket's buffer,   *)
(* and it hears the announcements, repeated for ever, that have something to  *)
(* tell it, in a turn that finds every dead neighbour silent. Both are weak   *)
(* fairness, written out: TLC would compute the forwarding tables over and    *)
(* over to find out what is enabled.                                          *)

HearOnTime(n, m) ==
  /\ FewPending /\ m \in Announcing(n)
  /\ \E s \in {DropSilent(n, NoteSender(n, State(n), m), Dead(n) \ {m})} : Become(n, s)
  /\ UNCHANGED <<up, changes, losses, sends>>

NothingToReceive(n) == \A m \in Node : net[<<m, n>>] = <<>>
NothingToHear(n) ==
  \/ ~FewPending \/ Announcing(n) = {}
  \/ Dead(n) = {} /\ Announcing(n) \subseteq connections[n]

Fairness ==
  \A n \in Node :
    /\ []<>NothingToReceive(n) \/ []<><<\E m \in Node : ReceiveLSP(n, m)>>_vars
    /\ []<>NothingToHear(n) \/ []<><<\E m \in Node : HearOnTime(n, m)>>_vars

FairSpec == Spec /\ Fairness

-----------------------------------------------------------------------------
(* What the router promises.                                                *)

\* What a said of its link to b in the newest of its packets that n has got.
LastHeard(n, a, b) ==
  IF seqNumMatrix[n][a][b] = 0 THEN {} ELSE {said[a][b][seqNumMatrix[n][a][b]]}

\* Whatever order packets come in, what n believes of a link is what one of its ends
\* said in the newest of its packets that n has got (nothing, before the first), and
\* no node, by forwarding or otherwise, gets ahead of the one that numbers the packets.
MatrixExplained ==
  \A n, a, b \in Node : a # b =>
    /\ seqNumMatrix[n][a][b] <= Len(said[a][b])
    /\ LET heard == LastHeard(n, a, b) \cup LastHeard(n, b, a) IN
       adjMatrix[n][a][b] \in IF heard = {} THEN {0} ELSE heard

\* The cost of a live link is kept twice, in costs[] for the next hop and for floods,
\* in the matrix for the rest of the path. The two differ only if the other end has
\* given the link up.
CostsMatchMatrix ==
  \A n \in Node : \A m \in connections[n] :
    \/ adjMatrix[n][n][m] = costs[n][m]
    \/ adjMatrix[n][n][m] = Down /\ Down \in LastHeard(n, m, n)

\* A node that routes over a link of its own it is not connected by (its matrix has let the
\* other end's word overwrite that the link is gone) has missed the last thing the other
\* end said, or the other end still takes the link to be up.
ForgottenMeansMissed ==
  \A a, b \in Node : a # b /\ b \notin connections[a] /\ adjMatrix[a][a][b] > 0 =>
    a \in connections[b] \/ seqNumMatrix[a][b][a] < Len(said[b][a])

\* Floods go round cycles, but no packet crosses the same hop twice: what a node sends of
\* a link's end, its own or passed on, is newer each time, and nothing newer than it knows.
FloodsInOrder ==
  \A h \in Hop : \A i \in DOMAIN net[h] :
    LET p == net[h][i] IN
    /\ p.seqNum <= seqNumMatrix[h[1]][p.node1][p.node2]
    /\ \A j \in 1 .. i - 1 : net[h][j].node1 = p.node1 /\ net[h][j].node2 = p.node2 =>
         net[h][j].seqNum < p.seqNum

\* The forwarding table is always that of the shortest paths through what the node
\* believes now, however it came to believe it: no change is left without a new table.
\* Ties are broken by the last node before the destination where the two accounts of
\* the node's own links agree; every next hop is a neighbour.
RoutesAreBest ==
  \A n \in Node : confirmedMap[n] # <<>> =>
    LET v == View(n, State(n)) IN
    /\ IsShortest(v, confirmedMap[n])
    /\ OwnLinksAgree(v) => TiesBroken(v, confirmedMap[n])
    /\ \A d \in DOMAIN confirmedMap[n] \ {n} : confirmedMap[n][d].nexthop \in connections[n]

\* Those that hear anybody: the code looks at its clocks after a receipt only.
Hearing == {n \in Node : Announcing(n) # {}}

\* The pairs of nodes with a path of at most k links between them.
Within[k \in Nat] ==
  IF k = 0 THEN {<<n, n>> : n \in Node}
  ELSE LET closer == Within[k - 1] IN
       closer \cup {p \in Hop : \E m \in Announcing(p[1]) : <<m, p[2]>> \in closer}

\* A flood of cost c for the link of a and b would change nothing at d: neither the matrix
\* nor, if d is an end of the link, its own cost.
Knows(d, a, b, c) ==
  /\ adjMatrix[d][a][b] = c
  /\ c > 0 /\ d \in {a, b} => costs[d][IF d = a THEN b ELSE a] = c

\* One more flood by any node would tell nobody within its reach anything new.
NothingNew ==
  \E near \in {Within[TTL - 1]} : \A n \in Hearing : \E news \in {OwnLinks(n, State(n))} :
    \A d \in Node \ {n}, x \in DOMAIN news :
      <<n, d>> \in near => Knows(d, n, x, news[x])

Settled ==
  /\ \A h \in Hop : net[h] = <<>>
  /\ \A n \in Hearing : connections[n] = Announcing(n)
  /\ NothingNew

\* What n would know if it saw the network as it is.
TrueView(n) ==
  [self |-> n, conn |-> Announcing(n), cost |-> costs[n],
   adj |-> [a \in Node |-> [b \in Node |-> IF <<a, b>> \in up THEN costs[a][b] ELSE 0]]]

\* Every node that hears anybody has the shortest path to all it can reach and no path
\* to others, with the tie-break on the last node before the destination.
Converged ==
  \A n \in Hearing :
    /\ IsShortest(TrueView(n), confirmedMap[n])
    /\ TiesBroken(TrueView(n), confirmedMap[n])

\* Once there is nothing left to tell, the routes are right: no wrong belief is one
\* that further floods would leave alone.
SettledIsConverged == Settled => Converged

\* A link that is down, and that anybody who hears somebody has heard of, is gone in the
\* matrix of each of its ends that hears somebody: no word from before has overwritten it.
NoLinkForgotten ==
  \A a \in Hearing : \A b \in Node \ {a} : <<a, b>> \notin up =>
    \/ adjMatrix[a][a][b] = Down
    \/ \A n \in Hearing : seqNumMatrix[n][a][b] = 0 /\ seqNumMatrix[n][b][a] = 0

\* No path needs more links than a packet may cross: each node is near itself, and the
\* neighbours of what is near are near.
EveryoneInReach ==
  LET near == Within[TTL - 1] IN
  \A d \in Node :
    /\ <<d, d>> \in near
    /\ \A n \in Node : \A m \in Announcing(n) : <<m, d>> \in near => <<n, d>> \in near

\* A link that one of its ends has forgotten is down is all that can keep the routes of a
\* settled network from being right.
OnlyForgottenLinksMislead == NoLinkForgotten /\ EveryoneInReach => SettledIsConverged

\* Floods that cross and reach a node by several ways do not make an end forget a failed
\* link, as long as a periodic flood meets one change at most. It is no property of every
\* behaviour: an end that floods its cost for a link it does not know to have failed makes
\* the other end forget, and if it is then cut off nobody is told again.
NothingForgotten == Settled => NoLinkForgotten

\* The nodes that p would tell something new.
NewsTo(p) == {d \in Node : /\ p.seqNum > seqNumMatrix[d][p.node1][p.node2]
                           /\ ~Knows(d, p.node1, p.node2, p.cost)}

\* p, under way to m, can still come to d.
CanReach(p, m, d) == p.ttl > 1 /\ <<m, d>> \in Within[p.ttl - 2]

\* As Settled, but floods may be under way that only repeat what everybody knows.
Steady ==
  /\ \A n \in Hearing : connections[n] = Announcing(n)
  /\ \A h \in Hop : net[h] # <<>> => h \in up
  /\ \A p \in mesg : <<p.from, p.to>> \in up
  /\ NothingNew
  /\ \A h \in Hop : \A i \in DOMAIN net[h] :
       \A d \in NewsTo(net[h][i]) : ~CanReach(net[h][i], h[2], d)

\* Nothing a steady network does to itself disturbs it, not even a loss: floods that
\* overlap, periodic ones among them, change no belief and no table of a node that hears
\* anybody. Only a link, a cost command or a false alarm can.
SteadyStays ==
  [][UNCHANGED changes /\ Steady /\ (FalseAlarms => \A n \in Hearing : connections[n] \subseteq connections'[n])
       => /\ Steady' /\ UNCHANGED costs
          /\ \A n \in Hearing : /\ adjMatrix'[n] = adjMatrix[n]
                                 /\ confirmedMap'[n] = confirmedMap[n]]_vars

\* The routes settle, unless the network loses a packet: the next periodic flood has to
\* repair that.
Converges == <>[](Converged \/ losses > 0)

=============================================================================
