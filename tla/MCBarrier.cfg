SPECIFICATION FairSpec
CONSTANTS
    Threads = {t1, t2, t3, t4, t5}
    OnlyArrive = {t4, t5}
    NumThreads = 3
    Width = 4
    MaxArrivals = 8
PROPERTIES
    BarrierHolds
    RoundEnds
CHECK_DEADLOCK FALSE
