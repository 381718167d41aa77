SPECIFICATION LoopSpec
CONSTANTS
  Node = {1, 2, 3, 4}
  Link <- Kite
  InitialCost <- UnitCost
  NewCosts = {}
  MaxChanges = 1
  INFINITY_LIMIT = 4
  FalseAlarms = FALSE
  MaxPending = 1
  MaxInFlight = 12
  MaxLosses = 1
  LeastCost <- ShortestPaths
  MaxRestarts = 1
  MaxSends = 0
INVARIANTS
  NoPhantomRoute
  EntryFollowsNextHop
  TwoNodeLoopIsTransient
  FollowInv
  QuietIsBest
PROPERTIES
  SteadyStays
