\* Two administrators, and requests of theirs at the same time that demote or disable.
SPECIFICATION Spec
CONSTANTS
    alice = alice
    bob = bob
    carol = carol
    Null = Null
    Users = {alice, bob}
    Ids = {s1, s2}
    Reqs = {r1, r2}
    Passwords = {p1}
    Kinds = {"login", "patch"}
    Patches <- Demotions
    InitRole <- TwoAdmins
    MaxSessions = 1
    MaxFailures = 2
    LockTtl = 1
    IdleTtl = 2
    AbsTtl = 4
    AdminAbsTtl = 3
    RefreshAfter = 1
    MaxTime = 0
    FailCap = 0
SYMMETRY SessionSymmetry
PROPERTIES
    LastAdminProtected
CHECK_DEADLOCK FALSE
