SPECIFICATION Spec
CONSTANTS
    Passwords = {p1, p2, p3, p4}
    Count = 2
    Requests = {r1, r2}
    MaxStarts = 5
    None = None
SYMMETRY AnyOrder
INVARIANTS TypeOK KeepsRecent OnlyResetsExceed
PROPERTY RecentNotReused
CHECK_DEADLOCK FALSE
