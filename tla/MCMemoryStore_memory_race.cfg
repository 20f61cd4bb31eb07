SPECIFICATION Spec
CONSTANTS
    h1 = h1
    h2 = h2
    r1 = r1
    o1 = o1
    Nil = Nil
    Keys <- NoKeys
    Outcomes <- OneOutcome
    Handlers <- TwoHandlers
    Reviews <- OneReview
    Requests <- DecideAndUpdate
    MaxRequests = 2
INVARIANT WholeSnapshots
\* The system stops when MaxRequests requests are served.
CHECK_DEADLOCK FALSE
