SPECIFICATION Spec
CONSTANTS
  small = small large = large x1 = x1 x2 = x2 v1 = v1
  Missing = Missing
  None = None
  Plans = {small, large}
  MaxCoins <- MCMaxCoins
  PeriodLength = 2
  Buffer = 1
  AdjustTtl = 3
  Sessions = {x1, x2}
  Estimate <- MCEstimate
  MaxOverrun = 1
  Upgraders = {v1}
  MaxPeriod = 1
  MaxTime = 4
  MaxFaults = 0
  MaxEdits = 0
SYMMETRY Symmetry
INVARIANTS TypeOK OpenedBeforeDrawn BalanceOutlivesPeriod
CHECK_DEADLOCK FALSE
