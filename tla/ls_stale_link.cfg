SPECIFICATION SteadySpec
CONSTANTS
  Node = {1, 2, 3}
  Link <- Triangle
  InitialCost <- UnitCost
  NewCosts = {}
  MaxChanges = 2
  TTL = 4
  FalseAlarms = FALSE
  MaxPending = 1
  MaxFloods = 1
  MaxLosses = 0
  MaxSends = 0
INVARIANTS
  SettledIsConverged
