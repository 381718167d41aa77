-------------------------- MODULE VecRouterHistory --------------------------
(***************************************************************************)
(* VecRouter with a history variable: which routers have had every word    *)
(* their neighbours had for them.                                          *)
(*                                                                         *)
(* A router of vec_router.cpp keeps no copy of its neighbours' tables and  *)
(* never asks; what it missed once it may never learn.  What holds of its  *)
(* routes as long as it has missed nothing is stated here, per link and    *)
(* whatever goes wrong on the other links.                                 *)
(***************************************************************************)
EXTENDS VecRouter

VARIABLE
  followed        \* followed[<<m, n>>]: the costs n's link to m has had while n has had
                  \* every word of m, from before it had any; {} if it has missed one

varsH == <<vars, followed>>

\* n has nothing of m's, and is about to hear nothing.
NothingHeard(h) ==
  /\ h \in up
  /\ net[h] = <<>>
  /\ \A d \in Node : dvTable[h[2]][d].nextHop # h[1]

\* What n may miss of m's words: those said while the link was down, or after m has
\* given n up or been restarted; those the network or the socket's buffer has lost; and
\* those n ignored because it had just dropped the neighbour it reached m through.
NothingMissed(h) ==
  LET m == h[1]  n == h[2] IN
  /\ h \in up'
  /\ n \in connections[m] => n \in connections'[m]
  /\ losses' # losses => net'[h] = net[h]
  /\ Len(net'[h]) < MaxInFlight
  /\ (\E d \in Node : dvTable'[n][d].nextHop = m) => dvTable'[n][m].dist # Infinite

LinkCost(h) == costs[h[2]][h[1]]

InitH ==
  /\ Init
  /\ followed = [h \in Hop |-> IF h \in up THEN {LinkCost(h)} ELSE {}]

Follow ==
  followed' = [h \in Hop |->
    IF NothingHeard(h)' THEN {LinkCost(h)'}
    ELSE IF followed[h] # {} /\ NothingMissed(h) THEN followed[h] \cup {LinkCost(h)'}
    ELSE {}]

NextH == Next /\ Follow

SpecH == InitH /\ [][NextH]_varsH

-----------------------------------------------------------------------------

Says(q, d) == \E i \in DOMAIN q : q[i].dest = d

\* A router that has missed nothing holds, for each entry through m, what m last told it
\* plus the cost of the link, or m's next word is under way: the tests of updateDistVec,
\* which ignore most updates, never ignore one that matters.
EntryFollowsNextHop ==
  \A h \in Hop, d \in Node :
    LET m == h[1]  n == h[2] IN
    (followed[h] # {} /\ dvTable[n][d].nextHop = m /\ ~Says(net[h], d))
    => \E c \in followed[h] :
         dvTable[n][d].dist = Limited(Via(Advertised(dvTable[m][d], n), c))

\* Poisoned reverse: of two routers that route to d through each other, one that has
\* missed nothing is about to hear from the other that d is out of reach. They never need
\* to count to infinity, as they would if each told the other its distance.
TwoNodeLoopIsTransient ==
  \A h \in Hop, d \in Node :
    LET m == h[1]  n == h[2] IN
    (followed[h] # {} /\ dvTable[n][d].nextHop = m /\ dvTable[m][d].nextHop = n)
    => \E i \in DOMAIN net[h] : net[h][i] = [dest |-> d, dist |-> Infinite]

\* n has had every word of m's, and m's next periodic update would tell it nothing.
NothingToTell(h) ==
  LET m == h[1]  n == h[2] IN
  /\ followed[h] # {} /\ net[h] = <<>>
  /\ \A d \in Node \ {n} : dvTable[m][d].dist # Infinite =>
       ~Necessary(connections[n], dvTable[n][d],
                  Limited(Via(Advertised(dvTable[m][d], n), costs[n][m])), m)

\* n routes through none but live neighbours, and on none of its links is there anything
\* under way or left to tell, or has anything been missed.
Quiet(n) ==
  /\ connections[n] \subseteq Announcing(n)
  /\ \A h \in up : n \in {h[1], h[2]} => NothingToTell(h)

\* A distance that counts up around a cycle goes on until the limit makes it infinite, and
\* a way that was lost is looked for until the next best is found: routers come to rest
\* on the best offers only. Not so when a word has been missed.
QuietIsBest == \A n \in Node : Quiet(n) => \A d \in Node \ {n} : HoldsBestOffer(n, d)

\* Of each destination, the last word of q is what a node with the table dv tells n.
Current(q, dv, n) ==
  \A i \in DOMAIN q :
    \/ \E j \in DOMAIN q : i < j /\ q[j].dest = q[i].dest
    \/ q[i].dist = Advertised(dv[q[i].dest], n)

FollowInv ==
  /\ EntryFollowsNextHop
  /\ \A h \in Hop : followed[h] # {} =>
     LET m == h[1]  n == h[2] IN
     /\ h \in up
     /\ costs[n][m] \in followed[h]
     /\ Current(net[h], dvTable[m], n)
     /\ n \notin connections[m] =>
          net[h] = <<>> /\ \A d \in Node \ {m} : dvTable[n][d].nextHop # m
=============================================================================
