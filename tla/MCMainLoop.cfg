SPECIFICATION FairSpec
CONSTANTS
    Threads = {t1}
    Main = main
    Timers = {1, 2}
    Uses = {"start", "start_repeat", "stop", "remove"}
    MaxTime = 2
    MaxFunctions = 2
    MaxSets = 2
    MaxFDChanges = 2
    MaxCalls = 3
INVARIANTS
    NothingIsForgotten
    TimersKeepCount
PROPERTIES
    OnlyBlockedCallsOutlastExit
    EveryFunctionRuns
    DueTimersFire
CHECK_DEADLOCK FALSE
