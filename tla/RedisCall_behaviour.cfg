SPECIFICATION FairSpec
CONSTANTS
  Operations = {"Get", "Ttl", "Mget", "Set", "SetEx", "Incr", "Hset", "EvalSha", "PipelineSet", "MultiExec", "Blpop", "XreadBlock"}
  Deadlines <- MCDeadlines
  Totals <- MCTotals
  max_attempts = 3
  initial_backoff = 2
  max_backoff = 3
  multiplier = 2
  acquire_timeout = 2
  command_timeout = 2
  Blocks = {1, 3}
  Second = 2
  Gap = 1
CHECK_DEADLOCK FALSE
INVARIANTS TypeOK WritesOnce AttemptWithinTotal EndsInTime BudgetSpent
PROPERTIES Returns
