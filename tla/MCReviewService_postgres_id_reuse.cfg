SPECIFICATION Spec
CONSTANTS
    h1 = h1
    h2 = h2
    k1 = k1
    k2 = k2
    o1 = o1
    seeded = seeded
    Nil = Nil
    Unknown = Unknown
    Handlers <- OneHandler
    Keys <- OneKey
    Outcomes <- OneOutcome
    Legacy <- NoLegacy
    Store = "postgres"
    Operations <- AllOperations
    Submitted <- AllSubmitted
    Faulty = FALSE
    IDGap = 1
    MaxRequests = 4
    MaxRestarts = 1
INVARIANT AckedCreateKept
\* The system stops when MaxRequests requests are served.
CHECK_DEADLOCK FALSE
