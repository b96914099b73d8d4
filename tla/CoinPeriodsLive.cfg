SPECIFICATION FairSpec
CONSTANTS
  small = small large = large x1 = x1 x2 = x2 v1 = v1
  Missing = Missing
  None = None
  Plans = {small, large}
  MaxCoins <- MCMaxCoins
  PeriodLength = 2
  Buffer = 1
  AdjustTtl = 3
  Sessions = {x1}
  Estimate <- MCEstimate
  MaxOverrun = 2
  Upgraders = {}
  MaxPeriod = 2
  MaxTime = 6
  MaxFaults = 1
  MaxEdits = 1
INVARIANTS DebtOnce
PROPERTIES PeriodsInOrder DueIsRolledOver
CHECK_DEADLOCK FALSE
