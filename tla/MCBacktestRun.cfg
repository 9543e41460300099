SPECIFICATION LiveSpec
CONSTANTS
  Runners = {r1, r2}
  Symbols = {1, 2, 3}
  Gaps = {2}
  MaxClaims = 3
INVARIANTS
  CountersAgree
  ReportIsComplete
  WorkIsNotRepeated
PROPERTIES
  RunIsDecided
  ImplementsPublication
CHECK_DEADLOCK FALSE
