SPECIFICATION DesktopLiveSpec
CONSTANTS
    Tasks = {t1}
    Calls = {c1}
    NoTask = NoTask
    NoCall = NoCall
    MaxFaults = 1
    MaxGenerations = 2
PROPERTIES
    AttemptEnds
    DeadSidecarIsNoticed
CHECK_DEADLOCK FALSE
