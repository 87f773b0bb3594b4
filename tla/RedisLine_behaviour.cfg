SPECIFICATION FairSpec
CONSTANTS
  c1 = c1
  c2 = c2
  c3 = c3
  Callers = {c1, c2, c3}
  Plans <- MCPlans
  Lanes = 2
  max_attempts = 2
  MaxBreaks = 1
  MaxElements = 1
  MaxFlushes = 1
CHECK_DEADLOCK FALSE
INVARIANTS TypeOK AtMostOnce ProgramOrder AnswersAreTrue MissingMeansForgotten
PROPERTIES Ends
