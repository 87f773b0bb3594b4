SPECIFICATION Spec
CONSTANTS
  p1 = p1
  p2 = p2
  c1 = c1
  Tasks = {p1, p2}
  PermitUsers = {}
  Closers = {c1}
  Lanes = 1
  MaxCalls = 3
  MaxCommands = 1
INVARIANTS
  WaitersExact
