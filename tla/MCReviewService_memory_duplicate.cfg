SPECIFICATION Spec
CONSTANTS
    h1 = h1
    h2 = h2
    k1 = k1
    k2 = k2
    o1 = o1
    seeded = seeded
    Nil = Nil
    Unknown = Unknown
    Handlers <- TwoHandlers
    Keys <- OneKey
    Outcomes <- OneOutcome
    Legacy <- NoLegacy
    Store = "memory"
    Operations <- OnlyCreate
    Submitted <- AllSubmitted
    Faulty = FALSE
    IDGap = 1
    MaxRequests = 3
    MaxRestarts = 0
INVARIANT IdempotentCreate
\* The system stops when MaxRequests requests are served.
CHECK_DEADLOCK FALSE
