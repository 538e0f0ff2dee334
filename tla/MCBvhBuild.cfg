SPECIFICATION FairSpec
CONSTANTS
    Workers = {w1, w2, w3}
    Main = main
    NumThreads = 3
    Nodes = {1,2,3,4,5,6,7,8,9,10,11}
    Inner = {}
    Shares = {1, 2}
INVARIANTS
    ChunksAreExact
    TreeIsComplete
PROPERTIES
    BuildEnds
CHECK_DEADLOCK FALSE
