\* Three requests, one of each kind, for one permit.
SPECIFICATION FairSpec
CONSTANTS
    r1 = r1
    r2 = r2
    r3 = r3
    Reqs = {r1, r2, r3}
    Asks <- OneOfEach
    Slots = 1
    MaxRedirects = 1
    None = None
INVARIANTS
    TypeOK
    PermitsConserved
    EveryHopChecked
    HistoryAgrees
PROPERTIES
    ImplementsQueue
    EveryDiagnosisEnds
