SPECIFICATION LiveSpec
CONSTANTS
    Tasks = {t1, t2}
    Calls = {c1, c2}
    NoTask = NoTask
    NoCall = NoCall
    MaxFaults = 2
INVARIANTS
    QuiescedOnceAccepted
    WorkRestored
    RecoveryHoldsWork
PROPERTIES
    CallsComeToAnEnd
CHECK_DEADLOCK FALSE
