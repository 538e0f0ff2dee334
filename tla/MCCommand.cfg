SPECIFICATION FairSpec
CONSTANTS
    Capacity = 2
    MaxWritten = 3
    MaxFaults = 1
    ExitCodes = {0, 12, 127}
INVARIANTS
    RunsAreComplete
PROPERTIES
    CommandReturns
CHECK_DEADLOCK FALSE
