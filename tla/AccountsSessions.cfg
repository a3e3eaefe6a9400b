\* An administrator and an operator log in and out, change, reset, disable, demote and revoke.
SPECIFICATION Spec
CONSTANTS
    alice = alice
    bob = bob
    carol = carol
    Null = Null
    Users = {alice, bob}
    Ids = {s1, s2}
    Reqs = {r1, r2}
    Passwords = {p1, p2}
    Kinds = {"login", "logout", "change", "reset", "patch", "unlock", "revoke"}
    Patches <- Demotions
    InitRole <- AdminAndOperator
    MaxSessions = 1
    MaxFailures = 2
    LockTtl = 1
    IdleTtl = 2
    AbsTtl = 4
    AdminAbsTtl = 3
    RefreshAfter = 1
    MaxTime = 0
    FailCap = 0
SYMMETRY PasswordSymmetry
INVARIANTS
    TypeOK
    SessionCap
    CurrentCredential
    DisabledHasNoSession
PROPERTIES
    RevocationFinal
CHECK_DEADLOCK FALSE
