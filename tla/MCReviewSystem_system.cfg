SPECIFICATION MCSpec
CONSTANTS
    o1 = o1
    Nil = Nil
    Unknown = Unknown
    Outcomes <- OneOutcome
    Keys <- SomeKeys
    Pieces <- AllPieces
    LowerCase <- ToLower
    SecretSet = TRUE
    Widths <- SomeWidths
    Delivered <- SomeDeliveries
    Creates <- SomeCreates
    Submitted <- SomeSubmitted
    Updates <- SomeUpdates
    Seeds <- SomeSeeds
    MaxServed = 3
    MaxRestarts = 1
INVARIANTS StoresAgree AnswersAgree OneReviewPerHead TaskFollowsReview EvaluationRowsAgree IdentifiersUnique MetricsAccount
PROPERTIES RollbackTargetKept MemoryImplements
\* The system stops when MaxServed requests are served.
CHECK_DEADLOCK FALSE
