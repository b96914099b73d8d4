SPECIFICATION FairSpec
CONSTANTS
  team = team u1 = u1 u2 = u2
  r1 = r1 r2 = r2 r3 = r3  j1 = j1 j2 = j2 j3 = j3  e1 = e1 e2 = e2 e3 = e3
  k1 = k1 k2 = k2 k3 = k3 k4 = k4
  TeamCoins = 1
  UserCoins = 2
  Missing = Missing
  None = None
  Teams = {team}
  Users = {u1, u2}
  Members <- MCMembers
  Allowance <- MCAllowance
  Requests <- ManyRequests
  Reservers = {r1, r2}
  Adjusters = {j1}
  Events = {e1}
  MaxOverrun = 1
PROPERTIES HandlersConclude ImplementsAccount
CHECK_DEADLOCK FALSE
