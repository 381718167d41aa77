----------------------------- MODULE MCLsRouter -----------------------------
(***************************************************************************)
(* Topologies, costs and starting points for TLC.                          *)
(***************************************************************************)
EXTENDS LsSettledProofs

Both(links) == links \cup {<<l[2], l[1]>> : l \in links}

Line == Both({<<1, 2>>, <<2, 3>>})
Triangle == Both({<<1, 2>>, <<2, 3>>, <<1, 3>>})
Kite == Both({<<1, 2>>, <<2, 3>>, <<1, 3>>, <<3, 4>>})
All == {l \in Node \X Node : l[1] # l[2]}

UnitCost == [n \in Node |-> [m \in Node |-> 1]]

(* A network of these links and costs that has converged. Only the order of    *)
(* the sequence numbers of a link's end means anything: all begin at 1 here.   *)
SteadyOn(links, cost) ==
  /\ up = links
  /\ connections = [n \in Node |-> {m \in Node : <<n, m>> \in links}]
  /\ costs = cost
  /\ adjMatrix = [n \in Node |-> [a \in Node |-> [b \in Node |->
                   IF <<a, b>> \in links THEN cost[a][b] ELSE 0]]]
  /\ seqNumMatrix = [n \in Node |-> [a \in Node |-> [b \in Node |->
                      IF <<a, b>> \in links THEN 1 ELSE 0]]]
  /\ said = [a \in Node |-> [b \in Node |-> IF <<a, b>> \in links THEN <<cost[a][b]>> ELSE <<>>]]
  /\ confirmedMap = [n \in Node |-> UpdateFwdTable(View(n, [conn |-> connections[n],
                       cost |-> cost[n], adj |-> adjMatrix[n]]))]
  /\ net = [h \in Hop |-> <<>>]
  /\ mesg = {}
  /\ floods = 0 /\ losses = 0

SteadyInit == SteadyOn(Link, InitialCost) /\ changes = 0 /\ sends = MaxSends
SteadySpec == SteadyInit /\ [][Next]_vars /\ Fairness

-----------------------------------------------------------------------------
(* Several starting points for one run, on nodes 1 to 4.                     *)

\* A kite that has converged.
KiteInit == SteadyOn(Kite, InitialCost) /\ changes = 0 /\ sends = MaxSends

\* Nodes that know nothing yet, with a link between 2 and 3.
ColdInit ==
  /\ up = Both({<<2, 3>>}) /\ connections = [n \in Node |-> {}]
  /\ costs = InitialCost /\ changes = 0
  /\ LsInit /\ sends = MaxSends

\* Any network that has converged; a message is sent through it, nothing else happens.
AnyInit ==
  /\ \E w \in [{p \in All : p[1] < p[2]} -> 0 .. 2] :
       LET cost(a, b) == IF a = b THEN 0 ELSE IF a < b THEN w[<<a, b>>] ELSE w[<<b, a>>]
       IN SteadyOn({p \in All : cost(p[1], p[2]) > 0},
                   [a \in Node |-> [b \in Node |-> IF cost(a, b) = 0 THEN 1 ELSE cost(a, b)]])
  /\ changes = MaxChanges /\ sends = 0

\* What keeps the run small: links fail, and only the one of 1 and 2 comes up, making
\* a line; the one of 2 and 3 changes its cost; periodic floods come with one change at
\* most; losses, and floods of new costs, happen on the line only.
Scenario ==
  /\ up' \subseteq up \/ (up' \subseteq Line /\ <<1, 2>> \in up')
  /\ \A n, m \in Node : {n, m} # {2, 3} => costs'[n][m] = costs[n][m]
  /\ floods' = 0 \/ changes' <= 1
  /\ floods' = 0 \/ costs' = InitialCost \/ up' \subseteq Line
  /\ losses' = 0 \/ up' \subseteq Line

StartSpec ==
  (KiteInit \/ ColdInit \/ AnyInit) /\ [][Next /\ Scenario]_vars /\ Fairness
=============================================================================
