---------------------------- MODULE MCVecHistory ----------------------------
(***************************************************************************)
(* Routers that know what they have missed, for TLC.                       *)
(***************************************************************************)
EXTENDS MCVecRouter, VecHistoryProofs

SteadyInitH ==
  /\ SteadyInit
  /\ followed = [h \in Hop |-> IF h \in up THEN {LinkCost(h)} ELSE {}]

\* Of a failing link, a lost update and a restart of the leaf, one happens.
OneMishap ==
  /\ changes' + losses' + restarts' <= 1
  /\ restarts' # restarts => connections'[4] = {}

LoopSpec == SteadyInitH /\ [][NextH /\ OneMishap]_varsH
=============================================================================
