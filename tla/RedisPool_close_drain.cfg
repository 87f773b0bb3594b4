SPECIFICATION Spec
CONSTANTS
  p1 = p1
  c1 = c1
  Tasks = {p1}
  PermitUsers = {}
  Closers = {c1}
  Lanes = 1
  MaxCalls = 2
  MaxCommands = 1
INVARIANTS
  CloseOkMeansDrained
