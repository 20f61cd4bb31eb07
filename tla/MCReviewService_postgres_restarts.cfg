SPECIFICATION FairSpec
CONSTANTS
    h1 = h1
    h2 = h2
    k1 = k1
    k2 = k2
    o1 = o1
    seeded = seeded
    Nil = Nil
    Unknown = Unknown
    Handlers <- TwoHandlers
    Keys <- OneKey
    Outcomes <- OneOutcome
    Legacy <- OneLegacy
    Store = "postgres"
    Operations <- AllOperations
    Submitted <- AllSubmitted
    Faulty = TRUE
    IDGap = 2
    MaxRequests = 2
    MaxRestarts = 1
INVARIANT RecordsCoherent
PROPERTY EveryCallAnswered
\* The system stops when MaxRequests requests are served.
CHECK_DEADLOCK FALSE
