---------------------------- MODULE RiskScoring ----------------------------
(***************************************************************************)
(* How a change becomes signals, a score, a risk level and the decision    *)
(* whether a human must review it (internal/review/pipeline.go and         *)
(* analyzer.go).  The text of a change is abstracted to the features its   *)
(* keywords decide.  Confidences are in hundredths.                        *)
(***************************************************************************)
EXTENDS Integers, Sequences, FiniteSetsExt

\* Any other source type is treated as a pull request.
SourceTypes == {"pull_request", "sql_migration", "k8s_diff", "terraform_plan",
                "gateway_config"}

\* "prod-like" is an environment that names prod in another spelling.
Environments == {"prod", "prod-like", "other"}

\* critical, auth, sensitive: what containsCriticalPath, containsAuthScope and
\* containsSensitiveArtifact answer.  Sensitive artifacts are files; auth found
\* outside the texts the critical path is searched in was found in a file.
Changes ==
    {c \in [source : SourceTypes, environment : Environments,
            critical : BOOLEAN, auth : BOOLEAN, sensitive : BOOLEAN,
            files : BOOLEAN] :
        (c.sensitive \/ (c.auth /\ ~c.critical)) => c.files}

Levels == {"LOW", "MEDIUM", "HIGH", "CRITICAL"}

Signal(name, severity, delta) ==
    [name |-> name, severity |-> severity, delta |-> delta]

SourceSignal(source) ==
    CASE source = "pull_request"   -> Signal("application_code_change", "MEDIUM", 14)
      [] source = "sql_migration"  -> Signal("irreversible_operation", "HIGH", 30)
      [] source = "k8s_diff"       -> Signal("runtime_config_changed", "MEDIUM", 18)
      [] source = "terraform_plan" -> Signal("infrastructure_change", "HIGH", 24)
      [] source = "gateway_config" -> Signal("traffic_routing_changed", "HIGH", 26)

When(condition, s) == IF condition THEN {s} ELSE {}

\* extractRiskSignals.  Its signal for a change without failure modes is never
\* raised: understandChange names one for every source type.
RuleSignals(c) ==
    {SourceSignal(c.source)}
      \cup When(c.environment # "other", Signal("production_release", "HIGH", 20))
      \cup When(c.critical, Signal("core_path_modified", "HIGH", 18))
      \cup When(c.auth, Signal("auth_logic_changed", "HIGH", 18))
      \cup When(c.sensitive, Signal("sensitive_artifact_changed", "MEDIUM", 12))
-----------------------------------------------------------------------------
(***************************************************************************)
(* Analyses.  An analyzer suggests signals by name and severity.           *)
(***************************************************************************)
DeltaOf(severity) ==
    CASE severity = "CRITICAL" -> 28
      [] severity = "HIGH"     -> 18
      [] severity = "MEDIUM"   -> 10
      [] OTHER                 -> 4

\* Whether understandChange leaves a risk hint.
HasHints(c) ==
    \/ c.source \in {"sql_migration", "k8s_diff", "gateway_config"}
    \/ c.critical \/ c.auth \/ c.sensitive

\* HeuristicAnalyzer; its cap of 90 is above what the parts add up to.
Heuristic(c) ==
    [analyzer    |-> "heuristic_fallback",
     confidence  |-> 62 + (IF HasHints(c) THEN 8 ELSE 0)
                        + (IF c.files THEN 5 ELSE 0)
                        + (IF c.critical THEN 8 ELSE 0),
     human       |-> c.environment = "prod" \/ c.auth,
     suggestions |->
        (IF c.auth THEN <<[name |-> "llm_auth_path_concern",
                           severity |-> "HIGH"]>> ELSE <<>>)
          \o IF c.sensitive THEN <<[name |-> "llm_sensitive_artifact_concern",
                                    severity |-> "MEDIUM"]>> ELSE <<>>]

\* The suggestions that count: named, and the first of their name.
FirstOfName(suggestions) ==
    {i \in DOMAIN suggestions :
        /\ suggestions[i].name # ""
        /\ \A j \in 1 .. i - 1 : suggestions[j].name # suggestions[i].name}

\* Mutant: a name that was merged is not remembered.
MergeEvery(signals, suggestions) ==
    signals \cup
      {Signal(suggestions[i].name, suggestions[i].severity,
              DeltaOf(suggestions[i].severity)) :
         i \in {k \in DOMAIN suggestions :
                  /\ suggestions[k].name # ""
                  /\ \A s \in signals : s.name # suggestions[k].name}}

\* mergeSuggestedSignals: a rule's signal stands against a suggestion.
Merge(signals, suggestions) ==
    signals \cup
      {Signal(suggestions[i].name, suggestions[i].severity,
              DeltaOf(suggestions[i].severity)) :
         i \in {k \in FirstOfName(suggestions) :
                  \A s \in signals : s.name # suggestions[k].name}}

\* Mutant: of suggestions with one name, the last is kept.
LastReloaded(suggestions) ==
    LET kept == {i \in DOMAIN suggestions :
                    /\ suggestions[i].name # ""
                    /\ \A j \in i + 1 .. Len(suggestions) :
                          suggestions[j].name # suggestions[i].name}
    IN  [k \in 1 .. Cardinality(kept) |->
            suggestions[CHOOSE i \in kept :
                          Cardinality({j \in kept : j <= i}) = k]]

\* The suggestions analysisForRecord reads back from the stored evidence.
Reloaded(suggestions) ==
    LET kept == FirstOfName(suggestions)
    IN  [k \in 1 .. Cardinality(kept) |->
            suggestions[CHOOSE i \in kept :
                          Cardinality({j \in kept : j <= i}) = k]]
-----------------------------------------------------------------------------
(***************************************************************************)
(* Score and gate.                                                         *)
(***************************************************************************)
LevelOf(score) ==
    CASE score >= 80 -> "CRITICAL"
      [] score >= 60 /\ score < 80 -> "HIGH"
      [] score >= 35 /\ score < 60 -> "MEDIUM"
      [] score < 35 -> "LOW"

ConfidenceIn(level) ==
    CASE level = "CRITICAL" -> 94
      [] level = "HIGH"     -> 87
      [] level = "MEDIUM"   -> 78
      [] level = "LOW"      -> 76

\* Mutant: the score is not capped.
UncappedScore(signals) == 10 + MapThenSumSet(LAMBDA s : s.delta, signals)

ScoreOf(signals) == Min({100, 10 + MapThenSumSet(LAMBDA s : s.delta, signals)})

\* scoreReview.
ScoreReview(signals) ==
    LET score == ScoreOf(signals)
        level == LevelOf(score)
        confidence == ConfidenceIn(level)
    IN  [score      |-> score,
         level      |-> level,
         confidence |-> confidence,
         human      |-> level \in {"HIGH", "CRITICAL"} \/ confidence < 75]

\* Mutant: the analyzer decides alone whether a human is needed.
ApplyAnalysisGate(result, analysis) ==
    [result EXCEPT !.human = analysis.human,
                   !.confidence = Max({@, analysis.confidence})]

\* applyHybridAnalysisToScore: an analysis only ever adds to the result.
ApplyAnalysis(result, analysis) ==
    [result EXCEPT !.human = @ \/ analysis.human,
                   !.confidence = Max({@, analysis.confidence})]

\* buildRecommendation: the reviewers a change needs.
Reviewers(c, result) ==
    {"release-manager"}
      \cup When(result.human, "service-owner")
      \cup When(c.auth, "security-reviewer")

\* A NUMERIC(5,4) column holds fewer than ten units either way.
FitsColumn(confidence) == -1000 < confidence /\ confidence < 1000
=============================================================================
