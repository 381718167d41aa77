SPECIFICATION Spec
CONSTANTS
  Node = {1, 2, 3}
  Link <- Line
  InitialCost <- FarEnd
  NewCosts = {}
  MaxChanges = 1
  INFINITY_LIMIT = 3
  FalseAlarms = TRUE
  MaxPending = 2
  MaxInFlight = 1
  MaxLosses = 1
  LeastCost <- ShortestPaths
  MaxRestarts = 1
  MaxSends = 1
INVARIANTS
  VecTypeOK
  NextHopConnected
  NoPhantomRoute
  RouterInv
PROPERTIES
  SteadyStays
