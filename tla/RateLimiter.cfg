\* Two threads of the pool and a client: the checks one after another and at the same time.
SPECIFICATION Spec
CONSTANTS
    Keys = {k1}
    Limit = 2
    Minute = 1
    MaxTime = 3
    Threads = {t1, t2}
    None = None
INVARIANTS
    TypeOK
    SerialWithinLimit
    OvershootBounded
PROPERTIES
    RefusalJustified
    ImplementsWindow
CHECK_DEADLOCK FALSE
