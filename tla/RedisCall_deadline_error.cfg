SPECIFICATION Spec
CONSTANTS
  Operations = {"Get", "Set", "SetEx", "Mset", "Incr"}
  Deadlines <- OneDeadline
  Totals <- NoOption
  max_attempts = 3
  initial_backoff = 2
  max_backoff = 3
  multiplier = 2
  acquire_timeout = 2
  command_timeout = 2
  Blocks = {1, 3}
  Second = 2
  Gap = 1
CHECK_DEADLOCK FALSE
INVARIANTS DeadlineYieldsTimeout
