\* Two requests for a pool of one connection, two migrators and two scripts.
SPECIFICATION FairSpec
CONSTANTS
    Requests = {r1, r2}
    Migrators = {m1, m2}
    PoolSize = 1
    Newest = 2
    None = None
INVARIANTS
    TypeOK
    ConnectionsReturned
    NobodyUnchecked
    SchemaWhole
    NoScriptTwice
    ReportIsTrue
PROPERTIES
    FailOpen
    AnswersAudited
    SomebodyIsAnswered
