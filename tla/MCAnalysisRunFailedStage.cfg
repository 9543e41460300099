SPECIFICATION Spec
CONSTANTS
  KindOrder <- OneKind
  Critical <- MarketOnly
  MaxAttempts = 2
  MaxRuns = 1
  MaxClaims = 2
  MaxFaults = 2
  HandlersBreak = FALSE
INVARIANTS FailedStageKeepsReport
CHECK_DEADLOCK FALSE
