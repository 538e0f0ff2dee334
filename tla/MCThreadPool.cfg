SPECIFICATION FairSpec
CONSTANTS
    Workers = {w1, w2}
    Clients = {c1, c2}
    Tasks = {t1, t2, t3}
    NoTask = NoTask
    MaxBatch = 2
INVARIANTS
    NoTaskLeftToSleepers
    NoPromisePendingAfterDestruction
PROPERTIES
    WaitMeansFinished
    DestructorReturns
    ImplementsTaskPool
CHECK_DEADLOCK FALSE
