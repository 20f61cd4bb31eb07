--------------------------- MODULE ReviewPipeline ---------------------------
(***************************************************************************)
(* runPipeline (internal/review/service.go) for one new review, from the   *)
(* change to the stored record: the deterministic stages (pipeline.go)     *)
(* around the analysis of AgentRuntime, whose steps happen between         *)
(* CONTEXT_READY and SIGNALS_EXTRACTED.  RunCreate of ReviewService is all *)
(* of this as one step that keeps the gate alone.                          *)
(***************************************************************************)
EXTENDS AgentRuntime

CONSTANT Store   \* "memory" or "postgres"

ASSUME PipelineAssumption == Store \in {"memory", "postgres"}

VARIABLES
    timeline,   \* the statuses the review has passed
    signals,    \* its risk signals
    result,     \* score, level, confidence, human: what the review row holds
    reviewers,  \* whom its recommendation asks for
    outcome     \* what became of it: "running", "stored" or "refused"

review == <<timeline, signals, result, reviewers, outcome>>
vars   == <<agentVars, review>>

Record == INSTANCE ReviewRecord WITH Keys <- {}, Outcomes <- {}, Nil <- "none"

Status == timeline[Len(timeline)]

NoResult == [score |-> 0, level |-> "LOW", confidence |-> 0, human |-> FALSE]

Init ==
    /\ AgentInit
    /\ timeline = <<"CREATED">>
    /\ signals = {}
    /\ result = NoResult
    /\ reviewers = {}
    /\ outcome = "running"
-----------------------------------------------------------------------------
\* transition, for each status in turn.
Transition(statuses) == timeline' = timeline \o statuses

\* normalizeChange, understandChange and collectEvidence; the analysis starts.
CollectContext ==
    /\ Status = "CREATED"
    /\ Transition(<<"NORMALIZED", "UNDERSTOOD", "COLLECTING_CONTEXT",
                    "CONTEXT_READY">>)
    /\ StartAnalysis
    /\ UNCHANGED <<signals, result, reviewers, outcome>>

RunAnalysis == Status = "CONTEXT_READY" /\ Analyze /\ UNCHANGED review

\* The rules' signals, and the analysis' suggestions merged into them.
ExtractSignals ==
    /\ Status = "CONTEXT_READY"
    /\ stage = "done"
    /\ signals' = Merge(RuleSignals(change), analysis.suggestions)
    /\ Transition(<<"SIGNALS_EXTRACTED">>)
    /\ UNCHANGED <<agentVars, result, reviewers, outcome>>

Score ==
    /\ Status = "SIGNALS_EXTRACTED"
    /\ result' = ApplyAnalysis(ScoreReview(signals), analysis)
    /\ Transition(<<"SCORED">>)
    /\ UNCHANGED <<agentVars, signals, reviewers, outcome>>

\* Mutant: only a high risk stops the review for a human.
RecommendByLevel ==
    /\ Status = "SCORED"
    /\ reviewers' = Reviewers(change, result)
    /\ Transition(IF result.level \in {"HIGH", "CRITICAL"}
                    THEN <<"RECOMMENDED", "WAITING_HUMAN_REVIEW">>
                    ELSE <<"RECOMMENDED">>)
    /\ UNCHANGED <<agentVars, signals, result, outcome>>

\* buildRecommendation, and the stop for a human where the gate asks for one.
Recommend ==
    /\ Status = "SCORED"
    /\ reviewers' = Reviewers(change, result)
    /\ Transition(IF result.human THEN <<"RECOMMENDED", "WAITING_HUMAN_REVIEW">>
                                  ELSE <<"RECOMMENDED">>)
    /\ UNCHANGED <<agentVars, signals, result, outcome>>

\* Save: Postgres refuses a number its column cannot hold.  The review row has
\* the review's confidence, the evidence of the analysis the analyzer's own.
Save ==
    /\ Status \in {"RECOMMENDED", "WAITING_HUMAN_REVIEW"}
    /\ outcome = "running"
    /\ outcome' = IF Store = "postgres" =>
                        /\ FitsColumn(result.confidence)
                        /\ FitsColumn(analysis.confidence)
                    THEN "stored" ELSE "refused"
    /\ UNCHANGED <<agentVars, timeline, signals, result, reviewers>>

Next ==
    \/ CollectContext \/ RunAnalysis \/ ExtractSignals \/ Score \/ Recommend
    \/ Save

Spec == Init /\ [][Next]_vars

\* The goroutine of the request runs, and every request to the model ends.
FairSpec == Spec /\ WF_vars(Next)
-----------------------------------------------------------------------------
(***************************************************************************)
(* Properties.                                                             *)
(***************************************************************************)
Signals == [name : Texts \cup {s.name : s \in UNION {RuleSignals(c) :
                                                   c \in Candidates}},
            severity : Levels, delta : Nat]

\* Every variable has its type, the agent's included, and the score is within
\* what the pipeline scores, 10 to 100.
PipelineTypeOK ==
    /\ AgentTypeOK
    /\ timeline \in Seq(Record!Statuses)
    /\ \A s \in signals : s \in Signals
    /\ result.score \in {0} \cup 10 .. 100
    /\ result.level \in Levels
    /\ result.confidence \in Int
    /\ result.human \in BOOLEAN
    /\ reviewers \subseteq {"release-manager", "service-owner",
                            "security-reviewer"}
    /\ outcome \in {"running", "stored", "refused"}

\* The record that is saved is the one the service's model takes a new review
\* to have: the status and every event of the timeline follow from the gate
\* alone, whichever analyzer ran and however it ended.
MatchesRecord ==
    outcome # "running" =>
      LET record == Record!NewRecord("none", result.human)
      IN  timeline = record.timeline /\ Status = record.status

\* What the rules alone say is the floor of the result: no analysis lowers the
\* score, the level or the confidence, and none opens a gate the rules shut.
RulesAreFloor ==
    outcome # "running" =>
      LET rules == ScoreReview(RuleSignals(change))
      IN  /\ result.score >= rules.score
          /\ result.level = LevelOf(result.score)
          /\ result.confidence >= rules.confidence
          /\ rules.human => result.human

\* The stored signals account for the score: their names are different and
\* their deltas add up to it, however often the model repeats a name or
\* suggests one the rules raised.
SignalsAccountForScore ==
    outcome # "running" =>
      /\ \A s, t \in signals : s.name = t.name => s = t
      /\ \A s \in RuleSignals(change) : s \in signals
      /\ result.score = ScoreOf(signals)

\* What Get reads back of the analysis from the stored evidence suggests the
\* very signals that are stored (analysisForRecord; the row of evidence keeps
\* the suggestions as the analyzer made them).
AnalysisReloads ==
    outcome # "running" =>
      Merge(RuleSignals(change), Reloaded(analysis.suggestions)) = signals

\* Every pipeline ends in an answer, whatever the model does.
CreateAnswered == <>(outcome # "running")

\* No answer of the model makes a create fail (design of the agent, "The agent
\* path must never make the review API unavailable").
ModelNeverBlocksCreate == outcome # "refused"
=============================================================================
