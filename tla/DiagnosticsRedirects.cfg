\* HTTP checks of a target that redirects more often than the limit.
SPECIFICATION Spec
CONSTANTS
    r1 = r1
    r2 = r2
    r3 = r3
    Reqs = {r1, r2}
    Asks <- HttpOnly
    Slots = 1
    MaxRedirects = 1
    None = None
INVARIANTS
    TooManyRedirectsReported
