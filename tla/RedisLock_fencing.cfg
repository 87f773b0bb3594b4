SPECIFICATION Spec
CONSTANTS
  Clients = {c1, c2}
  Ttls = {1, 2}
  MaxTtl = 2
  MaxAttempts = 3
  MaxFailures = 2
SYMMETRY Symmetry
INVARIANTS FenceFollowsLock
