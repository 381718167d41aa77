SPECIFICATION SteadySpec
CONSTANTS
  Node = {1, 2, 3}
  Link <- Line
  InitialCost <- UnitCost
  NewCosts = {}
  MaxChanges = 1
  INFINITY_LIMIT = 3
  FalseAlarms = FALSE
  MaxPending = 0
  MaxInFlight = 12
  MaxLosses = 1
  LeastCost <- ShortestPaths
  MaxRestarts = 0
  MaxSends = 0
PROPERTIES
  Converges
