SPECIFICATION Spec
CONSTANTS
    Lists = {a1, a2, a3}
    Listeners = {l1, l2, l3}
    None = None
    Variables = {v1, v2, v3}
    Elements = {e1, e2, e3, e4}
    MaxElements = 2
    Results = {r1, r2, r3}
    UniqueFDs = {u1, u2}
    Descriptors = {3, 4}
    Errors = {1, 2}
    VoidResults = {q1, q2}
    Files = {f1, f2}
    Addresses = {1, 2}
    Dirs = {d1, d2}
    Paths = {1, 2}
    Loops = {k1, k2}
    TimerObjects = {t1, t2, t3}
    TimerIds = {1, 2, 3}
    NoTimerData = NoTimerData
    NoTimer = NoTimer
    Uses = {}
    Loggers = {g1, g2}
    Callbacks = {c0, c1, c2, c3}
    default_callback = c0
    NotSet = NotSet
INVARIANTS
    PointersAgree
    PathsLeadToVariants
    EverythingIsHeldOnce
CHECK_DEADLOCK FALSE
