SPECIFICATION LiveSpec
CONSTANTS
  Datasets = {"bars"}
  LastYear = 2
  Foreign <- EmptyAndOther
  MaxRows = 1
  MaxCrashes = 3
  MaxRestores = 2
INVARIANTS TypeOK ServicesFindTheirFiles NothingIsLost RefusesOnlyTornOrEqual
PROPERTIES ImplementsSwap RestoreIsDecided
CHECK_DEADLOCK FALSE
