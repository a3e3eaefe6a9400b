\* Two administrators who may wait for each other's rows.
SPECIFICATION FairSpec
CONSTANTS
    alice = alice
    bob = bob
    carol = carol
    Null = Null
    Users = {alice, bob, carol}
    Ids = {s1, s2}
    Reqs = {r1, r2}
    Passwords = {p1}
    Kinds = {"login", "logout", "create", "patch"}
    Patches <- Promotion
    InitRole <- TwoAdminsAndVacancy
    MaxSessions = 1
    MaxFailures = 2
    LockTtl = 1
    IdleTtl = 2
    AbsTtl = 4
    AdminAbsTtl = 3
    RefreshAfter = 1
    MaxTime = 0
    FailCap = 0
PROPERTIES
    EveryRequestEnds
CHECK_DEADLOCK FALSE
