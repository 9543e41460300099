SPECIFICATION DesktopSpec
CONSTANTS
    Tasks = {t1}
    Calls = {c1, c2}
    NoTask = NoTask
    NoCall = NoCall
    MaxFaults = 1
    MaxGenerations = 2
SYMMETRY Symmetry
INVARIANTS
    DesktopTypeOK
    StopQuiesces
    OpenAppWorks
PROPERTIES
    LeavingIsOrderly
CHECK_DEADLOCK FALSE
