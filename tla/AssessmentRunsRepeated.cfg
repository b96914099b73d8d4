SPECIFICATION FairSpec
CONSTANTS
  q1 = q1 q2 = q2 q3 = q3 w1 = w1 w2 = w2 w3 = w3 p1 = p1 p2 = p2
  i1 = i1 i2 = i2 s1 = s1 s2 = s2 org = org
  None = None
  Requesters = {q1, q2}
  Workers = {w1, w2, w3}
  Instances = {p1}
  InstanceOf <- OneReplica
  Inputs = {i1, i2}
  SessionOf <- MCSessionOf
  Sessions = {s1, s2}
  OrgOf <- MCOrgOf
  Orgs = {org}
  Deletable = {}
  MaxParallelRuns = 1
  MaxDeliveries = 2
  MaxFaults = 0
PROPERTIES CompletedStays
CHECK_DEADLOCK FALSE
