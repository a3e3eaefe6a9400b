\* Four calls to the service, one of them for the user, and a list of two results.
SPECIFICATION FairSpec
CONSTANTS
    MaxHistory = 2
    MaxCalls = 4
INVARIANTS
    TypeOK
    OneAtATime
    LatestShown
    HistoryIsRecent
PROPERTIES
    PanelComesBack
