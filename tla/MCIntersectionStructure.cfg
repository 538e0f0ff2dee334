SPECIFICATION Spec
CONSTANTS
    Axes <- MCAxes
    Infinity = 100
    KdScenes <- MCKdScenes
    BvhScenes <- MCBvhScenes
    Rays <- MCRays
    MaxDistance = 6
    MaxDepth = 2
    NumBuckets = 3
    MaxLeafIntersectables = 3
    ThreadMin = 2
    NumThreads = 3
    CountModulus = 256
    BlockSize = 2
    NumBuilders = 2
INVARIANTS
    KdTreeFindsHits
    KdTreeHitInCellIsNearest
    BvhFindsNearestHit
    BuildLosesNothing
CHECK_DEADLOCK FALSE
