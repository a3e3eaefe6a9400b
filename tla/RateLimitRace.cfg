\* Two threads and the promise of N requests a minute.
SPECIFICATION Spec
CONSTANTS
    Keys = {k1}
    Limit = 2
    Minute = 1
    MaxTime = 2
    Threads = {t1, t2}
    None = None
INVARIANTS
    WithinLimit
CHECK_DEADLOCK FALSE
