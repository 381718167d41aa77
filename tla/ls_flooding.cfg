SPECIFICATION StartSpec
CONSTANTS
  Node = {1, 2, 3, 4}
  Link <- All
  InitialCost <- UnitCost
  NewCosts = {3}
  MaxChanges = 2
  TTL = 4
  FalseAlarms = FALSE
  MaxPending = 1
  MaxFloods = 1
  MaxLosses = 1
  MaxSends = 1
INVARIANTS
  LsTypeOK
  MatrixExplained
  CostsMatchMatrix
  ForgottenMeansMissed
  FloodsInOrder
  RoutesAreBest
  OnlyForgottenLinksMislead
  NothingForgotten
PROPERTIES
  SteadyStays
  Converges
CHECK_DEADLOCK FALSE
