SPECIFICATION LiveSpec
CONSTANTS
  KindOrder <- TwoKinds
  Critical <- MarketOnly
  MaxAttempts = 2
  MaxRuns = 2
  MaxClaims = 3
  MaxFaults = 2
  HandlersBreak = TRUE
INVARIANTS TypeOK OpenWorkIsAccountedFor CallsWithinBudget RetryBuildsOnOriginals
PROPERTIES ImplementsPlan RunEnds
CHECK_DEADLOCK FALSE
