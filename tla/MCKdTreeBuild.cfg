SPECIFICATION FairSpec
CONSTANTS
    Workers = {w1, w2}
    Main = main
    MaxNode = 11
    Others = 1
    MoreBuilds = 1
INVARIANTS
    SomeWorkerDependsOnNobody
    TreeIsComplete
    NoTaskOutlivesItsBuild
PROPERTIES
    BuildEnds
CHECK_DEADLOCK FALSE
