\* HTTP checks, some of a URL that cannot be parsed.
SPECIFICATION Spec
CONSTANTS
    r1 = r1
    r2 = r2
    r3 = r3
    Reqs = {r1, r2}
    Asks <- HttpOnly
    Slots = 1
    MaxRedirects = 1
    None = None
INVARIANTS
    EveryDiagnosisStored
