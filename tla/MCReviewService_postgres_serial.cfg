SPECIFICATION Spec
CONSTANTS
    h1 = h1
    h2 = h2
    k1 = k1
    k2 = k2
    o1 = o1
    seeded = seeded
    Nil = Nil
    Unknown = Unknown
    Handlers <- OneHandler
    Keys <- OneKey
    Outcomes <- OneOutcome
    Legacy <- OneLegacy
    Store = "postgres"
    Operations <- AllOperations
    Submitted <- ApproveOrReject
    Faulty = TRUE
    IDGap = 1
    MaxRequests = 4
    MaxRestarts = 0
INVARIANTS AckedDecisionKept DecisionsGovern
PROPERTIES ImplementsAtomic TimelineAppendOnly RejectionSticks
\* The system stops when MaxRequests requests are served.
CHECK_DEADLOCK FALSE
