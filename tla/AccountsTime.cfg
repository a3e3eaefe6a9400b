\* Sessions that age and are refreshed, locks that run out or are set and lifted by hand.
SPECIFICATION Spec
CONSTANTS
    alice = alice
    bob = bob
    carol = carol
    Null = Null
    Users = {alice}
    Ids = {s1, s2}
    Reqs = {r1, r2}
    Passwords = {p1}
    Kinds = {"login", "me", "patch", "unlock"}
    Patches <- Lockings
    InitRole <- OneAdmin
    MaxSessions = 1
    MaxFailures = 2
    LockTtl = 1
    IdleTtl = 2
    AbsTtl = 4
    AdminAbsTtl = 3
    RefreshAfter = 1
    MaxTime = 3
    FailCap = 2
SYMMETRY SessionSymmetry
INVARIANTS
    LeaseBounded
PROPERTIES
    LeaseNeverShrinks
    LockStands
    NoEntryWhileBarred
    RevocationFinal
CHECK_DEADLOCK FALSE
