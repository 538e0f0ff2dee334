SPECIFICATION FairSpec
CONSTANTS
    Loops = {l1, l2}
    Monitors = {m1, m2}
    Fds = {f1, f2}
    None = None
    BatchSize = 4
    Uses = {"again", "stop", "move", "callback", "callback_other"}
    MaxCalls = 3
INVARIANTS
    RegistrationsMatch
PROPERTIES
    CalledOnlyWhileMonitored
    ReadyFdsAreHandled
    CallsReturn
CHECK_DEADLOCK FALSE
