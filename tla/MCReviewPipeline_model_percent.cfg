SPECIFICATION Spec
CONSTANTS
    PublicFiles <- Enabled
    LocalFiles <- NoFile
    Candidates <- PlainChanges
    Evidence <- OneEvidence
    ModelCalls <- OneCall
    MaxAnswer = 1
    ModelAnalyses <- PercentAnalyses
    Words <- SomeWords
    Unusable = Unusable
    Store = "postgres"
INVARIANTS ModelNeverBlocksCreate
\* A pipeline ends.
CHECK_DEADLOCK FALSE
