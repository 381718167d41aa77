------------------------------ MODULE Dijkstra ------------------------------
(***************************************************************************)
(* updateFwdTable of ls_utils.cpp: the forwarding table that a link-state  *)
(* router computes from what it knows of the network.                      *)
(*                                                                         *)
(* A view v holds what the function reads: v.self, the node's ID; v.conn,  *)
(* the neighbours it is connected to; v.cost[m], its cost to neighbour m;  *)
(* v.adj[a][b], the cost of the link between a and b, not positive where   *)
(* there is none.  The two tables of the algorithm map destinations to     *)
(* entries.  The tentative one is a vector in the code; at is an entry's   *)
(* place among the others, which decides between equal costs.              *)
(***************************************************************************)
EXTENDS Integers, FiniteSets

NoHop == -1
V == 256

Nodes(v) == DOMAIN v.adj

\* The nodes that adjMatrix says node a has a link to.
Adjacent(v, a) == {b \in Nodes(v) : v.adj[a][b] > 0}

\* push_back: behind everything pushed before the last erase, in order of ID.
Place(confirmed, i) == V * Cardinality(DOMAIN confirmed) + i

\* The tables before the loop: the node itself, and its neighbours.
Start(v) ==
  LET self == [d \in {v.self} |-> [cost |-> 0, nexthop |-> NoHop]] IN
  [confirmed |-> self,
   tentative |-> [m \in v.conn |-> [cost |-> v.cost[m], nexthop |-> m, at |-> Place(self, m)]]]

\* The first of the entries with the lowest cost.
Nearest(tentative) ==
  CHOOSE d \in DOMAIN tentative : \A e \in DOMAIN tentative :
    \/ tentative[d].cost < tentative[e].cost
    \/ tentative[d].cost = tentative[e].cost /\ tentative[d].at <= tentative[e].at

\* Mutation: the neighbour with the lowest ID is not looked for.
FirstComeHop(v, confirmed, i, cost, next, old) == old.nexthop

\* Two paths to i of the same cost, the known one and the new one through next: the
\* one whose last node before i has the lower ID is taken.
TieHop(v, confirmed, i, cost, next, old) ==
  LET others == {k \in DOMAIN confirmed \ {next} :
                   v.adj[i][k] > 0 /\ confirmed[k].cost + v.adj[i][k] = cost}
      lowest == CHOOSE k \in others : \A j \in others : k <= j
  IN IF others = {} THEN old.nexthop
     ELSE IF next < lowest THEN confirmed[next].nexthop
     ELSE IF lowest # v.self THEN confirmed[lowest].nexthop
     ELSE old.nexthop

\* Mutation: a tentative cost is never lowered.
KeptCost(v, confirmed, i, next, old) == old

\* i is in the tentative table already when next is confirmed.
Relaxed(v, confirmed, i, next, old) ==
  LET cost == confirmed[next].cost + v.adj[next][i] IN
  IF old.cost > cost THEN [old EXCEPT !.cost = cost, !.nexthop = confirmed[next].nexthop]
  ELSE IF old.cost = cost THEN [old EXCEPT !.nexthop = TieHop(v, confirmed, i, cost, next, old)]
  ELSE old

\* One pass of the loop: the nearest tentative entry is confirmed and its links followed.
ConfirmNext(v, s) ==
  LET next == Nearest(s.tentative)
      rest == DOMAIN s.tentative \ {next}
      confirmed == [d \in DOMAIN s.confirmed \cup {next} |->
        IF d = next THEN [cost |-> s.tentative[next].cost, nexthop |-> s.tentative[next].nexthop]
        ELSE s.confirmed[d]]
      found == Adjacent(v, next) \ (rest \cup DOMAIN confirmed)
  IN [confirmed |-> confirmed,
      tentative |-> [i \in rest \cup found |->
        IF i \in found THEN [cost |-> confirmed[next].cost + v.adj[next][i],
                             nexthop |-> confirmed[next].nexthop, at |-> Place(confirmed, i)]
        ELSE IF i \in Adjacent(v, next) THEN Relaxed(v, confirmed, i, next, s.tentative[i])
        ELSE s.tentative[i]]]

\* The loop goes on until nothing is tentative.
PassOver(v, s) == IF DOMAIN s.tentative = {} THEN s ELSE ConfirmNext(v, s)

\* The tables after k passes, or at the end: no node is confirmed twice.
Pass(v) ==
  LET pass[k \in Nat] == IF k = 0 THEN Start(v) ELSE PassOver(v, pass[k - 1])
  IN pass

UpdateFwdTable(v) == Pass(v)[Cardinality(Nodes(v))].confirmed

-----------------------------------------------------------------------------
(* What the table should be.                                                *)

\* The links as the algorithm uses them: the node's own by its neighbour tables, all
\* others by the matrix.
Weight(v, a, b) ==
  IF a # v.self THEN v.adj[a][b] ELSE IF b \in v.conn THEN v.cost[b] ELSE 0

\* The nodes a path to d of exactly d's cost can come through last.
Before(v, table, d) ==
  {p \in DOMAIN table : Weight(v, p, d) > 0 /\ table[p].cost + Weight(v, p, d) = table[d].cost}

\* The equations that only the costs of the shortest paths satisfy, positive as all
\* links are: no link leads out of the table or makes an entry cheaper, and every
\* entry is as cheap as a path that ends in a link from another entry.
IsShortest(v, table) ==
  /\ v.self \in DOMAIN table /\ table[v.self].cost = 0
  /\ \A p \in DOMAIN table, d \in Nodes(v) : Weight(v, p, d) > 0 =>
       d \in DOMAIN table /\ table[d].cost <= table[p].cost + Weight(v, p, d)
  /\ \A d \in DOMAIN table \ {v.self} : Before(v, table, d) # {}

\* The node's own neighbour tables and its matrix say the same of its links.
OwnLinksAgree(v) ==
  \A m \in Nodes(v) : IF m \in v.conn THEN v.adj[m][v.self] = v.cost[m] ELSE v.adj[m][v.self] <= 0

\* Of the paths of the same cost, that whose last node before the destination has
\* the lowest ID.
TiesBroken(v, table) ==
  \A d \in DOMAIN table \ {v.self} :
    LET last == CHOOSE p \in Before(v, table, d) : \A q \in Before(v, table, d) : p <= q IN
    table[d].nexthop = IF last = v.self THEN d ELSE table[last].nexthop
=============================================================================
