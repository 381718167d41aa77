--------------------------- MODULE NeighborMonitor ---------------------------
(***************************************************************************)
(* What monitor_neighbors.cpp gives both routers: who a node believes it   *)
(* is connected to, what each of its links costs, and the HEREIAM          *)
(* announcements that keep the first up to date.  A router reads and       *)
(* changes these tables in every turn of its receive loop, so the module   *)
(* offers them as operators on one node's tables and leaves the actions to *)
(* the router that extends it.                                             *)
(*                                                                         *)
(* The links themselves are external: iptables rules that                  *)
(* utility/make_topology.pl installs and an operator changes by hand.      *)
(***************************************************************************)
EXTENDS Integers, FiniteSets

CONSTANTS
  Node,           \* node IDs, the last byte of 10.1.1.x
  Link,           \* the pairs <<a, b>> that a link can join, in both directions
  InitialCost,    \* InitialCost[a][b]: what a's costs file says of its link to b, or 1
  NewCosts,       \* costs the manager may set
  MaxChanges      \* bound: link and cost changes in a behaviour

ASSUME MonitorAssumption ==
  /\ Node \subseteq Nat /\ IsFiniteSet(Node)
  /\ Link \subseteq {l \in Node \X Node : l[1] # l[2]}
  /\ \A l \in Link : <<l[2], l[1]>> \in Link
  /\ InitialCost \in [Node -> [Node -> Nat]]
  /\ NewCosts \subseteq Nat
  /\ MaxChanges \in Nat

\* The two ends of what is sent, and the nodes of a set as the loops over the
\* routers' tables come across them.
Hop == Node \X Node
InIdOrder == [S \in SUBSET Node |->
  CHOOSE q \in [1 .. Cardinality(S) -> S] :
    \A i, j \in 1 .. Cardinality(S) : i < j => q[i] < q[j]]

\* What n may ever hold the cost of its link to m to be.
PossibleCosts(n, m) == {InitialCost[n][m]} \cup NewCosts

VARIABLES
  up,             \* the links iptables lets traffic through
  connections,    \* connections[n]: the nodes n believes it has an active link to
  costs,          \* costs[n][m]: the cost n attributes to its link to m
  changes         \* link and cost changes so far

monitorVars == <<up, connections, costs, changes>>

MonitorTypeOK ==
  /\ up \subseteq Link
  /\ connections \in [Node -> SUBSET Node]
  /\ costs \in [Node -> [Node -> Nat]]
  /\ changes \in 0 .. MaxChanges

MonitorInit ==
  /\ up = Link
  /\ connections = [n \in Node |-> {}]
  /\ costs = InitialCost
  /\ changes = 0

\* updateConnection(m, TRUE) on one node's connections.
Connected(conn, m) == conn \cup {m}

\* updateCost(m, c) on one node's costs.
WithCost(cost, m, c) == [cost EXCEPT ![m] = c]

\* announceToNeighbors: the nodes whose HEREIAM, broadcast every 300 ms, reaches n.
Announcing(n) == {m \in Node : <<m, n>> \in up}

\* iptables starts or stops dropping what a link carries, both ways at once.
LinkChange(l) ==
  LET both == {l, <<l[2], l[1]>>} IN
  /\ changes < MaxChanges
  /\ changes' = changes + 1
  /\ up' = IF l \in up THEN up \ both ELSE up \cup both
  /\ UNCHANGED <<connections, costs>>
=============================================================================
