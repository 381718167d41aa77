----------------------------- MODULE MCVecRouter -----------------------------
(***************************************************************************)
(* Topologies and costs for TLC.                                           *)
(***************************************************************************)
EXTENDS VecRouterProofs

Both(links) == links \cup {<<l[2], l[1]>> : l \in links}

Line == Both({<<1, 2>>, <<2, 3>>})
Triangle == Both({<<1, 2>>, <<2, 3>>, <<1, 3>>})
Kite == Both({<<1, 2>>, <<2, 3>>, <<1, 3>>, <<3, 4>>})

UnitCost == [n \in Node |-> [m \in Node |-> 1]]

\* The costs files of 2 and 3 disagree, and 3 is too far for 1.
FarEnd == [n \in Node |-> [m \in Node |-> IF n = 2 /\ m = 3 THEN 3 ELSE 1]]

\* The direct way from 1 to 3 costs more than the one through 2.
LongSide == [n \in Node |-> [m \in Node |-> IF {n, m} = {1, 3} THEN 3 ELSE 1]]

\* The costs of the paths of at most k links when links cost what cost says, and the least
\* of the paths from n to d, if there is one.
Shortest(cost) ==
  LET paths[k \in Nat] ==
        [n, d \in Node |->
           IF n = d THEN {0}
           ELSE IF k = 0 THEN {}
           ELSE UNION {{cost[n][m] + c : c \in paths[k - 1][m, d]} :
                         m \in {h \in Node : <<n, h>> \in Link}}]
      all == paths[Cardinality(Node)]
      least(costsOf) == IF costsOf = {} THEN Infinite
                        ELSE CHOOSE c \in costsOf : \A e \in costsOf : c <= e
  IN [n \in Node |-> [d \in Node |-> least(all[n, d])]]

\* The shortest paths when each link is the cheapest it can ever be.
ShortestPaths ==
  Shortest([n \in Node |-> [m \in Node |->
    CHOOSE c \in PossibleCosts(n, m) : \A e \in PossibleCosts(n, m) : c <= e]])

(* States the routers reach from Init once they have converged: larger         *)
(* topologies start there, so that what follows a change can be followed.      *)

\* The nodes of part have converged, the others have heard nobody.
SteadyIn(part, cost) ==
  /\ up = {l \in Link : {l[1], l[2]} \subseteq part}
  /\ connections = [n \in Node |-> {m \in part : n \in part /\ <<n, m>> \in Link}]
  /\ costs = cost
  /\ changes = 0
  /\ \E least \in {Shortest(cost)} :
       LET first(n, d) == {m \in Node : <<n, m>> \in Link /\ cost[n][m] + least[m][d] = least[n][d]}
       IN dvTable = [n \in Node |-> [d \in Node |->
            IF n = d \/ ~ {n, d} \subseteq part THEN FirstTable(n)[d]
            ELSE [dist |-> least[n][d],
                  nextHop |-> CHOOSE m \in first(n, d) : \A h \in first(n, d) : m <= h]]]
  /\ net = [h \in Hop |-> <<>>]
  /\ mesg = {}
  /\ losses = 0 /\ sends = 0 /\ restarts = 0

SteadyInit == SteadyIn(Node, InitialCost)
SteadySpec == SteadyInit /\ [][Next]_vars /\ Fairness

-----------------------------------------------------------------------------
(* Several starting points for one run, on nodes 1 to 4.                     *)

\* Power-on, with a line of three for the network.
ColdInit ==
  /\ up = Line /\ connections = [n \in Node |-> {}]
  /\ costs = InitialCost /\ changes = 0
  /\ dvTable = [n \in Node |-> FirstTable(n)]
  /\ net = [h \in Hop |-> <<>>] /\ mesg = {}
  /\ losses = 0 /\ sends = 0 /\ restarts = 0

\* From power-on, from a triangle, and from a triangle with the tail 4, which is cut off.
\* Of the others any link fails or one router is restarted, or a cost of the triangle is
\* raised; a restart puts the costs of the costs file back.
Scenario ==
  /\ up' \subseteq up
  /\ <<3, 4>> \in up => up' \in {up, Triangle} /\ UNCHANGED <<costs, restarts>>
  /\ <<1, 3>> \notin up => UNCHANGED costs
  /\ \A n \in Node : costs'[n][4] = costs[n][4] /\ costs'[4] = costs[4]
  /\ changes' = 0 \/ restarts' = 0
  /\ restarts' # restarts => connections' # connections

\* Fairness with the conditions under which the steps can be taken written out, which TLC
\* is spared computing in every state.
FairnessSpelledOut ==
  \A n, m \in Node : <<m, n>> \in Link =>
    /\ []<>(net[<<m, n>>] = <<>>) \/ []<><<ReceiveDist(n, m)>>_vars
    /\ <>[]~(FewPending /\ m \in Announcing(n)) \/ []<><<HearOnTime(n, m)>>_vars

StartSpec ==
  (SteadyInit \/ SteadyIn({1, 2, 3}, LongSide) \/ ColdInit)
  /\ [][Next /\ Scenario]_vars /\ FairnessSpelledOut
=============================================================================
