SPECIFICATION MCFairSpec
CONSTANTS
    PublicFiles <- AllPublic
    LocalFiles <- Local
    Candidates <- AllChanges
    Evidence <- OneEvidence
    ModelCalls <- AllCalls
    MaxAnswer = 3
    ModelAnalyses <- AllAnalyses
    Words <- SomeWords
    Unusable = Unusable
    Store = "postgres"
INVARIANTS
    CallsAnswered WithinLimits LocalFileGoverns FallbackExplicit
    PipelineTypeOK MatchesRecord RulesAreFloor SignalsAccountForScore AnalysisReloads
PROPERTIES AnalysisEnds CreateAnswered
\* A pipeline ends.
CHECK_DEADLOCK FALSE
