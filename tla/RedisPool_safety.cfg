SPECIFICATION Spec
CONSTANTS
  p1 = p1
  p2 = p2
  p3 = p3
  u1 = u1
  c1 = c1
  Tasks = {p1, p2, p3, u1}
  PermitUsers = {u1}
  Closers = {c1}
  Lanes = 2
  MaxCalls = 5
  MaxCommands = 2
SYMMETRY Symmetry
INVARIANTS
  TypeOK
  LaneConservation
  QueuedMeansSaturated
  InFlightExact
  StragglersBounded
  AcquireAccounted
  CommandsAccounted
  WaitersDrift
PROPERTIES ImplementsLaneGate
