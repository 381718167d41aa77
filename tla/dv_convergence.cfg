SPECIFICATION StartSpec
CONSTANTS
  Node = {1, 2, 3, 4}
  Link <- Kite
  InitialCost <- UnitCost
  NewCosts = {3}
  MaxChanges = 1
  INFINITY_LIMIT = 4
  FalseAlarms = FALSE
  MaxPending = 1
  MaxInFlight = 12
  MaxLosses = 0
  LeastCost <- ShortestPaths
  MaxRestarts = 1
  MaxSends = 0
PROPERTIES
  Converges
