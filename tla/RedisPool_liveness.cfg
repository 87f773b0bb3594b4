SPECIFICATION FairSpec
CONSTANTS
  p1 = p1
  p2 = p2
  u1 = u1
  c1 = c1
  Tasks = {p1, p2, u1}
  PermitUsers = {u1}
  Closers = {c1}
  Lanes = 1
  MaxCalls = 3
  MaxCommands = 1
PROPERTIES
  AcquireResolves
  PooledCallReturns
