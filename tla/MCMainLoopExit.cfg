SPECIFICATION FairSpec
CONSTANTS
    Threads = {t1}
    Main = main
    Timers = {1}
    Uses = {"start", "stop"}
    MaxTime = 3
    MaxFunctions = 0
    MaxSets = 2
    MaxFDChanges = 0
    MaxCalls = 3
PROPERTIES
    ExitEndsLoop
CHECK_DEADLOCK FALSE
