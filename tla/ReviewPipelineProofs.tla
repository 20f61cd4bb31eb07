------------------------ MODULE ReviewPipelineProofs ------------------------
(***************************************************************************)
(* Theorems of ReviewPipeline, for every analyzer the files select and     *)
(* every analysis the model may give.                                      *)
(***************************************************************************)
EXTENDS ReviewPipeline, AgentRuntimeProofs

\* The timelines of a new review, by the stage it has reached ...
Accepted    == <<"CREATED">>
Ready       == <<"CREATED", "NORMALIZED", "UNDERSTOOD", "COLLECTING_CONTEXT",
                 "CONTEXT_READY">>
Extracted   == <<"CREATED", "NORMALIZED", "UNDERSTOOD", "COLLECTING_CONTEXT",
                 "CONTEXT_READY", "SIGNALS_EXTRACTED">>
Rated       == <<"CREATED", "NORMALIZED", "UNDERSTOOD", "COLLECTING_CONTEXT",
                 "CONTEXT_READY", "SIGNALS_EXTRACTED", "SCORED">>
Recommended == <<"CREATED", "NORMALIZED", "UNDERSTOOD", "COLLECTING_CONTEXT",
                 "CONTEXT_READY", "SIGNALS_EXTRACTED", "SCORED",
                 "RECOMMENDED">>
Waiting     == <<"CREATED", "NORMALIZED", "UNDERSTOOD", "COLLECTING_CONTEXT",
                 "CONTEXT_READY", "SIGNALS_EXTRACTED", "SCORED",
                 "RECOMMENDED", "WAITING_HUMAN_REVIEW">>

\* ... what the transitions append to them ...
Context     == <<"NORMALIZED", "UNDERSTOOD", "COLLECTING_CONTEXT",
                 "CONTEXT_READY">>
Extraction  == <<"SIGNALS_EXTRACTED">>
Scoring     == <<"SCORED">>
Proceeding  == <<"RECOMMENDED">>
Stopping    == <<"RECOMMENDED", "WAITING_HUMAN_REVIEW">>

\* ... and what the model of the service appends at once.
FreePath    == <<"NORMALIZED", "UNDERSTOOD", "COLLECTING_CONTEXT",
                 "CONTEXT_READY", "SIGNALS_EXTRACTED", "SCORED",
                 "RECOMMENDED">>
Gate        == <<"WAITING_HUMAN_REVIEW">>
GatedPath   == <<"NORMALIZED", "UNDERSTOOD", "COLLECTING_CONTEXT",
                 "CONTEXT_READY", "SIGNALS_EXTRACTED", "SCORED",
                 "RECOMMENDED", "WAITING_HUMAN_REVIEW">>

LEMMA TimelineTypes ==
    /\ Accepted \in Seq(Record!Statuses)
    /\ Ready \in Seq(Record!Statuses)
    /\ Extracted \in Seq(Record!Statuses)
    /\ Rated \in Seq(Record!Statuses)
    /\ Recommended \in Seq(Record!Statuses)
    /\ Waiting \in Seq(Record!Statuses)
    /\ Context \in Seq(Record!Statuses)
    /\ Extraction \in Seq(Record!Statuses)
    /\ Scoring \in Seq(Record!Statuses)
    /\ Proceeding \in Seq(Record!Statuses)
    /\ Stopping \in Seq(Record!Statuses)
    /\ FreePath \in Seq(Record!Statuses)
    /\ Gate \in Seq(Record!Statuses)
    /\ GatedPath \in Seq(Record!Statuses)
  BY DEF Accepted, Ready, Extracted, Rated, Recommended, Waiting, Context,
         Extraction, Scoring, Proceeding, Stopping, FreePath, Gate, GatedPath,
         Record!Statuses

\* The last event of each timeline tells them apart.
LEMMA LastEvents ==
    /\ Accepted[Len(Accepted)] = "CREATED"
    /\ Ready[Len(Ready)] = "CONTEXT_READY"
    /\ Extracted[Len(Extracted)] = "SIGNALS_EXTRACTED"
    /\ Rated[Len(Rated)] = "SCORED"
    /\ Recommended[Len(Recommended)] = "RECOMMENDED"
    /\ Waiting[Len(Waiting)] = "WAITING_HUMAN_REVIEW"
  BY DEF Accepted, Ready, Extracted, Rated, Recommended, Waiting

\* A sequence with the elements of s and then those of t is their
\* concatenation.
LEMMA Joined ==
    ASSUME NEW S, NEW s \in Seq(S), NEW t \in Seq(S), NEW r \in Seq(S),
           Len(r) = Len(s) + Len(t),
           \A i \in 1 .. Len(s) : r[i] = s[i],
           \A j \in 1 .. Len(t) : r[Len(s) + j] = t[j]
    PROVE  s \o t = r
  <1>1. Len(s) \in Nat /\ Len(t) \in Nat
    BY LenProperties
  <1>2. s \o t \in Seq(S) /\ Len(s \o t) = Len(r)
    BY ConcatProperties
  <1>3. ASSUME NEW i \in 1 .. Len(r)
        PROVE  (s \o t)[i] = r[i]
    <2>1. CASE i <= Len(s)
      BY <1>1, <2>1, ConcatProperties
    <2>2. CASE i > Len(s)
      <3>1. i - Len(s) \in 1 .. Len(t) /\ i = Len(s) + (i - Len(s))
        BY <1>1, <2>2
      <3>2. (s \o t)[i] = t[i - Len(s)]
        BY <1>1, <2>2, ConcatProperties
      <3> QED
        BY <3>1, <3>2
    <2> QED
      BY <1>1, <2>1, <2>2
  <1> QED
    BY <1>2, <1>3, SeqEqual

\* What each transition makes of the timeline before it.
LEMMA Transitions ==
    /\ Accepted \o Context = Ready
    /\ Ready \o Extraction = Extracted
    /\ Extracted \o Scoring = Rated
    /\ Rated \o Proceeding = Recommended
    /\ Rated \o Stopping = Waiting
    /\ FreePath \o Gate = GatedPath
    /\ Accepted \o FreePath = Recommended
    /\ Accepted \o GatedPath = Waiting
  <1>1. Accepted \o Context = Ready
    <2>1. Len(Ready) = Len(Accepted) + Len(Context)
      BY DEF Accepted, Context, Ready
    <2>2. \A i \in 1 .. Len(Accepted) : Ready[i] = Accepted[i]
      BY DEF Accepted, Ready
    <2>3. \A j \in 1 .. Len(Context) :
            Ready[Len(Accepted) + j] = Context[j]
      BY DEF Accepted, Context, Ready
    <2>4. /\ Accepted \in Seq(Record!Statuses)
          /\ Context \in Seq(Record!Statuses)
          /\ Ready \in Seq(Record!Statuses)
      BY TimelineTypes
    <2> QED
      BY <2>1, <2>2, <2>3, <2>4, Joined
  <1>2. Ready \o Extraction = Extracted
    <2>1. Len(Extracted) = Len(Ready) + Len(Extraction)
      BY DEF Ready, Extraction, Extracted
    <2>2. \A i \in 1 .. Len(Ready) : Extracted[i] = Ready[i]
      BY DEF Ready, Extracted
    <2>3. \A j \in 1 .. Len(Extraction) :
            Extracted[Len(Ready) + j] = Extraction[j]
      BY DEF Ready, Extraction, Extracted
    <2>4. /\ Ready \in Seq(Record!Statuses)
          /\ Extraction \in Seq(Record!Statuses)
          /\ Extracted \in Seq(Record!Statuses)
      BY TimelineTypes
    <2> QED
      BY <2>1, <2>2, <2>3, <2>4, Joined
  <1>3. Extracted \o Scoring = Rated
    <2>1. Len(Rated) = Len(Extracted) + Len(Scoring)
      BY DEF Extracted, Scoring, Rated
    <2>2. \A i \in 1 .. Len(Extracted) : Rated[i] = Extracted[i]
      BY DEF Extracted, Rated
    <2>3. \A j \in 1 .. Len(Scoring) :
            Rated[Len(Extracted) + j] = Scoring[j]
      BY DEF Extracted, Scoring, Rated
    <2>4. /\ Extracted \in Seq(Record!Statuses)
          /\ Scoring \in Seq(Record!Statuses)
          /\ Rated \in Seq(Record!Statuses)
      BY TimelineTypes
    <2> QED
      BY <2>1, <2>2, <2>3, <2>4, Joined
  <1>4. Rated \o Proceeding = Recommended
    <2>1. Len(Recommended) = Len(Rated) + Len(Proceeding)
      BY DEF Rated, Proceeding, Recommended
    <2>2. \A i \in 1 .. Len(Rated) : Recommended[i] = Rated[i]
      BY DEF Rated, Recommended
    <2>3. \A j \in 1 .. Len(Proceeding) :
            Recommended[Len(Rated) + j] = Proceeding[j]
      BY DEF Rated, Proceeding, Recommended
    <2>4. /\ Rated \in Seq(Record!Statuses)
          /\ Proceeding \in Seq(Record!Statuses)
          /\ Recommended \in Seq(Record!Statuses)
      BY TimelineTypes
    <2> QED
      BY <2>1, <2>2, <2>3, <2>4, Joined
  <1>5. Rated \o Stopping = Waiting
    <2>1. Len(Waiting) = Len(Rated) + Len(Stopping)
      BY DEF Rated, Stopping, Waiting
    <2>2. \A i \in 1 .. Len(Rated) : Waiting[i] = Rated[i]
      BY DEF Rated, Waiting
    <2>3. \A j \in 1 .. Len(Stopping) :
            Waiting[Len(Rated) + j] = Stopping[j]
      BY DEF Rated, Stopping, Waiting
    <2>4. /\ Rated \in Seq(Record!Statuses)
          /\ Stopping \in Seq(Record!Statuses)
          /\ Waiting \in Seq(Record!Statuses)
      BY TimelineTypes
    <2> QED
      BY <2>1, <2>2, <2>3, <2>4, Joined
  <1>6. FreePath \o Gate = GatedPath
    <2>1. Len(GatedPath) = Len(FreePath) + Len(Gate)
      BY DEF FreePath, Gate, GatedPath
    <2>2. \A i \in 1 .. Len(FreePath) : GatedPath[i] = FreePath[i]
      BY DEF FreePath, GatedPath
    <2>3. \A j \in 1 .. Len(Gate) :
            GatedPath[Len(FreePath) + j] = Gate[j]
      BY DEF FreePath, Gate, GatedPath
    <2>4. /\ FreePath \in Seq(Record!Statuses)
          /\ Gate \in Seq(Record!Statuses)
          /\ GatedPath \in Seq(Record!Statuses)
      BY TimelineTypes
    <2> QED
      BY <2>1, <2>2, <2>3, <2>4, Joined
  <1>7. Accepted \o FreePath = Recommended
    <2>1. Len(Recommended) = Len(Accepted) + Len(FreePath)
      BY DEF Accepted, FreePath, Recommended
    <2>2. \A i \in 1 .. Len(Accepted) : Recommended[i] = Accepted[i]
      BY DEF Accepted, Recommended
    <2>3. \A j \in 1 .. Len(FreePath) :
            Recommended[Len(Accepted) + j] = FreePath[j]
      BY DEF Accepted, FreePath, Recommended
    <2>4. /\ Accepted \in Seq(Record!Statuses)
          /\ FreePath \in Seq(Record!Statuses)
          /\ Recommended \in Seq(Record!Statuses)
      BY TimelineTypes
    <2> QED
      BY <2>1, <2>2, <2>3, <2>4, Joined
  <1>8. Accepted \o GatedPath = Waiting
    <2>1. Len(Waiting) = Len(Accepted) + Len(GatedPath)
      BY DEF Accepted, GatedPath, Waiting
    <2>2. \A i \in 1 .. Len(Accepted) : Waiting[i] = Accepted[i]
      BY DEF Accepted, Waiting
    <2>3. \A j \in 1 .. Len(GatedPath) :
            Waiting[Len(Accepted) + j] = GatedPath[j]
      BY DEF Accepted, GatedPath, Waiting
    <2>4. /\ Accepted \in Seq(Record!Statuses)
          /\ GatedPath \in Seq(Record!Statuses)
          /\ Waiting \in Seq(Record!Statuses)
      BY TimelineTypes
    <2> QED
      BY <2>1, <2>2, <2>3, <2>4, Joined
  <1> QED
    BY <1>1, <1>2, <1>3, <1>4, <1>5, <1>6, <1>7, <1>8

\* What ReviewRecord takes a new review to have.
LEMMA NewRecords ==
    ASSUME NEW gated
    PROVE  /\ Record!NewRecord("none", gated).timeline =
                IF gated THEN Waiting ELSE Recommended
           /\ Record!NewRecord("none", gated).status =
                IF gated THEN "WAITING_HUMAN_REVIEW" ELSE "RECOMMENDED"
  <1> DEFINE path == Record!PipelinePath(gated)
             keyed == [Record!Blank EXCEPT !.key = "none"]
             blank == [keyed EXCEPT !.timeline = <<"CREATED">>]
  <1>1. path = IF gated THEN GatedPath ELSE FreePath
    <2>1. path = FreePath \o IF gated THEN Gate ELSE <<>>
      BY DEF Record!PipelinePath, FreePath, Gate
    <2>2. FreePath \o <<>> = FreePath
      BY TimelineTypes, ConcatEmptySeq
    <2> QED
      BY <2>1, <2>2, Transitions
  <1>2. "timeline" \in DOMAIN Record!Blank /\ "status" \in DOMAIN Record!Blank
    BY DEF Record!Blank
  <1>3. /\ "timeline" \in DOMAIN keyed /\ "status" \in DOMAIN keyed
    BY <1>2
  <1> HIDE DEF keyed
  <1>4. /\ blank.timeline = Accepted
        /\ "timeline" \in DOMAIN blank /\ "status" \in DOMAIN blank
    BY <1>3 DEF Accepted
  <1> HIDE DEF blank, path
  <1>6. /\ Record!RunPipeline(blank, gated).timeline = Accepted \o path
        /\ Record!RunPipeline(blank, gated).status = Record!LastOf(path)
    <2> DEFINE one == [blank EXCEPT !.gated = gated]
               two == [one EXCEPT !.status = Record!LastOf(path)]
               three == [two EXCEPT !.timeline = @ \o path]
    <2>1. /\ one.timeline = Accepted
          /\ "timeline" \in DOMAIN one /\ "status" \in DOMAIN one
      BY <1>4
    <2>2. Record!RunPipeline(blank, gated) = three
      BY DEF Record!RunPipeline, path
    <2> HIDE DEF one
    <2>3. /\ two.timeline = Accepted
          /\ two.status = Record!LastOf(path)
          /\ "timeline" \in DOMAIN two /\ "status" \in DOMAIN two
      BY <2>1
    <2> HIDE DEF two
    <2>4. /\ three.timeline = Accepted \o path
          /\ three.status = Record!LastOf(path)
      BY <2>3
    <2> HIDE DEF three
    <2> QED
      BY <2>2, <2>4
  <1>7. Record!NewRecord("none", gated) = Record!RunPipeline(blank, gated)
    BY DEF Record!NewRecord, blank, keyed
  <1>5. Record!LastOf(path) =
          IF gated THEN "WAITING_HUMAN_REVIEW" ELSE "RECOMMENDED"
    BY <1>1 DEF Record!LastOf, FreePath, GatedPath
  <1> QED
    BY <1>1, <1>5, <1>6, <1>7, Transitions
-----------------------------------------------------------------------------
(***************************************************************************)
(* The pipeline runs the analysis as AgentRuntime has it: every step is a  *)
(* step of its loop or leaves all of it alone.                             *)
(***************************************************************************)
LEMMA StepRunsAnalysis == [Next]_vars => [AgentNext]_agentVars
  <1> SUFFICES ASSUME [Next]_vars
               PROVE  [AgentNext]_agentVars
    OBVIOUS
  <1>1. CASE CollectContext
    BY <1>1 DEF CollectContext, AgentNext
  <1>2. CASE RunAnalysis
    BY <1>2 DEF RunAnalysis, AgentNext
  <1>3. CASE ExtractSignals
    BY <1>3 DEF ExtractSignals
  <1>4. CASE Score
    BY <1>4 DEF Score
  <1>5. CASE Recommend
    BY <1>5 DEF Recommend
  <1>6. CASE Save
    BY <1>6 DEF Save
  <1>7. CASE UNCHANGED vars
    BY <1>7 DEF vars
  <1> QED
    BY <1>1, <1>2, <1>3, <1>4, <1>5, <1>6, <1>7 DEF Next

\* The pipeline implements the analysis: no stage around the loop (rules,
\* score, recommendation, save) changes what the loop keeps (runPipeline).
THEOREM PipelineRunsAnalysis == Spec => AgentSpec
  <1>1. Init => AgentInit
    BY DEF Init
  <1> QED
    BY <1>1, StepRunsAnalysis, PTL DEF Spec, AgentSpec

\* What the agent promises alone it keeps within the pipeline.
THEOREM AgentKeepsPromises ==
    Spec => [](AgentTypeOK /\ LocalFileGoverns /\ FallbackExplicit
                 /\ WithinLimits /\ CallsAnswered)
  BY PipelineRunsAnalysis, AgentTypeCorrect, LocalGoverns, FallbacksAreMarked,
     LimitsHold, EveryCallHasItsResult, PTL
-----------------------------------------------------------------------------
(***************************************************************************)
(* How far the review is, and what it has by then.                         *)
(***************************************************************************)
Finished == {Recommended, Waiting}

Progress ==
    /\ timeline \in {Accepted, Ready, Extracted, Rated} \cup Finished
    /\ timeline \notin {Accepted, Ready} =>
         signals = Merge(RuleSignals(change), analysis.suggestions)
    /\ timeline \in {Rated} \cup Finished =>
         result = ApplyAnalysis(ScoreReview(signals), analysis)
    /\ timeline = Recommended => ~result.human
    /\ timeline = Waiting => result.human
    /\ outcome # "running" => timeline \in Finished

LEMMA InitProgress == Init => Progress
  <1> SUFFICES ASSUME Init
               PROVE  Progress
    OBVIOUS
  <1>1. timeline = Accepted /\ outcome = "running"
    BY DEF Init, Accepted
  <1> QED
    BY <1>1, LastEvents DEF Progress, Finished

\* The status tells the timeline.
LEMMA Stages ==
    ASSUME Progress
    PROVE  /\ Status = "CREATED" => timeline = Accepted
           /\ Status = "CONTEXT_READY" => timeline = Ready
           /\ Status = "SIGNALS_EXTRACTED" => timeline = Extracted
           /\ Status = "SCORED" => timeline = Rated
           /\ Status \in {"RECOMMENDED", "WAITING_HUMAN_REVIEW"} =>
                timeline \in Finished
  BY LastEvents DEF Progress, Finished, Status

LEMMA StepProgress == Progress /\ [Next]_vars => Progress'
  <1> SUFFICES ASSUME Progress, [Next]_vars
               PROVE  Progress'
    OBVIOUS
  <1>1. CASE CollectContext
    <2>1. timeline' = Ready /\ outcome' = outcome /\ timeline = Accepted
      BY <1>1, Stages, Transitions DEF CollectContext, Transition, Context
    <2> QED
      BY <2>1, LastEvents DEF Progress, Finished
  <1>2. CASE RunAnalysis
    <2>1. timeline = Ready /\ UNCHANGED review
      BY <1>2, Stages DEF RunAnalysis
    <2> QED
      BY <2>1, LastEvents DEF Progress, Finished, review
  <1>3. CASE ExtractSignals
    <2>1. /\ timeline' = Extracted /\ timeline = Ready
          /\ signals' = Merge(RuleSignals(change), analysis.suggestions)
          /\ outcome' = outcome /\ UNCHANGED agentVars
      BY <1>3, Stages, Transitions DEF ExtractSignals, Transition, Extraction
    <2> QED
      BY <2>1, LastEvents DEF Progress, Finished, agentVars, loop
  <1>4. CASE Score
    <2>1. /\ timeline' = Rated /\ timeline = Extracted
          /\ result' = ApplyAnalysis(ScoreReview(signals), analysis)
          /\ UNCHANGED <<agentVars, signals, outcome>>
      BY <1>4, Stages, Transitions DEF Score, Transition, Scoring
    <2> QED
      BY <2>1, LastEvents DEF Progress, Finished, agentVars, loop
  <1>5. CASE Recommend
    <2>1. /\ timeline = Rated
          /\ timeline' = IF result.human THEN Waiting ELSE Recommended
          /\ UNCHANGED <<agentVars, signals, result, outcome>>
      BY <1>5, Stages, Transitions
         DEF Recommend, Transition, Proceeding, Stopping
    <2> QED
      BY <2>1, LastEvents DEF Progress, Finished, agentVars, loop
  <1>6. CASE Save
    <2>1. /\ timeline \in Finished
          /\ UNCHANGED <<agentVars, timeline, signals, result>>
      BY <1>6, Stages DEF Save
    <2> QED
      BY <2>1 DEF Progress, Finished, agentVars, loop
  <1>7. CASE UNCHANGED vars
    BY <1>7 DEF Progress, vars, review, agentVars, loop
  <1> QED
    BY <1>1, <1>2, <1>3, <1>4, <1>5, <1>6, <1>7 DEF Next

THEOREM Progresses == Spec => []Progress
  BY InitProgress, StepProgress, PTL DEF Spec

\* The record that is saved is the one ReviewRecord takes a new review to
\* have, so the model of the service loses nothing of the status or the
\* timeline by taking the whole pipeline as one step (runPipeline).
THEOREM SavedAsRecorded == Spec => []MatchesRecord
  <1>1. Progress => MatchesRecord
    <2> SUFFICES ASSUME Progress, outcome # "running"
                 PROVE  MatchesRecord
      BY DEF MatchesRecord
    <2>1. CASE timeline = Waiting
      <3>1. result.human
        BY <2>1 DEF Progress
      <3>2. Status = "WAITING_HUMAN_REVIEW"
        BY <2>1, LastEvents DEF Status
      <3> QED
        BY <2>1, <3>1, <3>2, NewRecords DEF MatchesRecord
    <2>2. CASE timeline = Recommended
      <3>1. ~result.human
        BY <2>2 DEF Progress
      <3>2. Status = "RECOMMENDED"
        BY <2>2, LastEvents DEF Status
      <3> QED
        BY <2>2, <3>1, <3>2, NewRecords DEF MatchesRecord
    <2> QED
      BY <2>1, <2>2 DEF Progress, Finished
  <1> QED
    BY <1>1, Progresses, PTL
-----------------------------------------------------------------------------
(***************************************************************************)
(* What merging does to the signals.                                       *)
(***************************************************************************)
\* The rules raise no two signals of one name.
LEMMA RuleNames ==
    ASSUME NEW c \in Changes,
           NEW s \in RuleSignals(c), NEW t \in RuleSignals(c),
           s.name = t.name
    PROVE  s = t
  <1> DEFINE fixed == {Signal("production_release", "HIGH", 20),
                       Signal("core_path_modified", "HIGH", 18),
                       Signal("auth_logic_changed", "HIGH", 18),
                       Signal("sensitive_artifact_changed", "MEDIUM", 12)}
  <1>1. RuleSignals(c) \subseteq {SourceSignal(c.source)} \cup fixed
    BY DEF RuleSignals, When
  <1>2. \A f, g \in fixed : f.name = g.name => f = g
    BY DEF Signal
  <1>3. SourceSignal(c.source).name \in
          {"application_code_change", "irreversible_operation",
           "runtime_config_changed", "infrastructure_change",
           "traffic_routing_changed"}
    <2>1. c.source \in SourceTypes
      BY DEF Changes
    <2> QED
      BY <2>1 DEF SourceTypes, SourceSignal, Signal
  <1>4. \A f \in fixed : f.name # SourceSignal(c.source).name
    BY <1>3 DEF Signal
  <1> HIDE DEF fixed
  <1> QED
    BY <1>1, <1>2, <1>4

\* Merging suggestions into signals whose names differ keeps them different.
LEMMA MergedNames ==
    ASSUME NEW base, \A s, t \in base : s.name = t.name => s = t,
           NEW S, NEW suggestions \in Seq(S)
    PROVE  \A s, t \in Merge(base, suggestions) : s.name = t.name => s = t
  <1> DEFINE made(i) == Signal(suggestions[i].name, suggestions[i].severity,
                               DeltaOf(suggestions[i].severity))
             taken == {k \in FirstOfName(suggestions) :
                         \A s \in base : s.name # suggestions[k].name}
  <1>1. Merge(base, suggestions) = base \cup {made(i) : i \in taken}
    BY DEF Merge
  <1>2. \A i : made(i).name = suggestions[i].name
    BY DEF Signal
  <1>3. ASSUME NEW i \in taken, NEW j \in taken,
               suggestions[i].name = suggestions[j].name
        PROVE  i = j
    <2>1. Len(suggestions) \in Nat /\ DOMAIN suggestions = 1 .. Len(suggestions)
      BY LenProperties
    <2>2. i \in 1 .. Len(suggestions) /\ j \in 1 .. Len(suggestions)
      BY <2>1 DEF FirstOfName
    <2>3. ~(i \in 1 .. j - 1) /\ ~(j \in 1 .. i - 1)
      BY <1>3 DEF FirstOfName
    <2> QED
      BY <2>1, <2>2, <2>3
  <1>4. \A i \in taken : \A s \in base : s.name # made(i).name
    BY <1>2
  <1> HIDE DEF made, taken
  <1>5. ASSUME NEW s \in base \cup {made(i) : i \in taken},
               NEW t \in base \cup {made(i) : i \in taken}, s.name = t.name
        PROVE  s = t
    <2>1. CASE s \in base /\ t \in base
      BY <1>5, <2>1
    <2>2. CASE s \in base /\ t \notin base
      BY <1>4, <1>5, <2>2
    <2>3. CASE s \notin base /\ t \in base
      BY <1>4, <1>5, <2>3
    <2>4. CASE s \notin base /\ t \notin base
      <3>1. PICK i \in taken : s = made(i)
        BY <2>4
      <3>2. PICK j \in taken : t = made(j)
        BY <2>4
      <3> QED
        BY <1>2, <1>3, <1>5, <3>1, <3>2
    <2> QED
      BY <2>1, <2>2, <2>3, <2>4
  <1> QED
    BY <1>1, <1>5

\* The signals that are stored have different names, hold all the rules raised
\* and are what the score was computed from, whatever names the model gives
\* its suggestions and however often (mergeSuggestedSignals, scoreReview).
THEOREM SignalsExplainScore == Spec => []SignalsAccountForScore
  <1>1. AgentTypeOK /\ Progress => SignalsAccountForScore
    <2> SUFFICES ASSUME AgentTypeOK, Progress, outcome # "running"
                 PROVE  SignalsAccountForScore
      BY DEF SignalsAccountForScore
    <2>1. change \in Changes
      BY AgentAssumption DEF AgentTypeOK
    <2>2. analysis.suggestions \in Seq(Suggestions)
      BY DEF AgentTypeOK, Analyses
    <2>3. timeline \in Finished /\ timeline \notin {Accepted, Ready}
      BY LastEvents DEF Progress, Finished
    <2>4. /\ signals = Merge(RuleSignals(change), analysis.suggestions)
          /\ result = ApplyAnalysis(ScoreReview(signals), analysis)
      BY <2>3 DEF Progress
    <2>5. \A s, t \in RuleSignals(change) : s.name = t.name => s = t
      BY <2>1, RuleNames
    <2>6. \A s, t \in signals : s.name = t.name => s = t
      BY <2>2, <2>4, <2>5, MergedNames
    <2>7. \A s \in RuleSignals(change) : s \in signals
      BY <2>4 DEF Merge
    <2>8. result.score = ScoreOf(signals)
      BY <2>4 DEF ApplyAnalysis, ScoreReview
    <2> QED
      BY <2>6, <2>7, <2>8 DEF SignalsAccountForScore
  <1> QED
    BY <1>1, AgentKeepsPromises, Progresses, PTL

(***************************************************************************)
(* The suggestions read back.                                              *)
(***************************************************************************)
\* Counting the members up to each one numbers a finite set of positions.
LEMMA Ranks ==
    ASSUME NEW n \in Nat, NEW kept \in SUBSET (1 .. n)
    PROVE  /\ Cardinality(kept) \in Nat
           /\ \A k \in 1 .. Cardinality(kept) :
                \E i \in kept : Cardinality({j \in kept : j <= i}) = k
           /\ \A i \in kept :
                Cardinality({j \in kept : j <= i}) \in 1 .. Cardinality(kept)
           /\ \A i, k \in kept :
                Cardinality({j \in kept : j <= i})
                  = Cardinality({j \in kept : j <= k}) => i = k
  <1> DEFINE upTo(i) == {j \in kept : j <= i}
             rank == [i \in kept |-> Cardinality(upTo(i))]
             m == Cardinality(kept)
  <1>1. IsFiniteSet(kept) /\ m \in Nat
    <2>1. IsFiniteSet(1 .. n)
      BY FS_Interval
    <2>2. IsFiniteSet(kept)
      BY <2>1, FS_Subset
    <2> QED
      BY <2>2, FS_CardinalityType
  <1>2. \A i \in kept : i \in Int
    OBVIOUS
  <1> HIDE DEF m
  <1>3. ASSUME NEW i \in kept
        PROVE  IsFiniteSet(upTo(i)) /\ rank[i] \in 1 .. m
    <2>1. upTo(i) \in SUBSET kept /\ i \in upTo(i)
      BY <1>2
    <2>2. IsFiniteSet(upTo(i)) /\ Cardinality(upTo(i)) <= m
      BY <1>1, <2>1, FS_Subset DEF m
    <2>3. Cardinality(upTo(i)) \in Nat
      BY <2>2, FS_CardinalityType
    <2>4. Cardinality(upTo(i)) # 0
      BY <2>1, <2>2, FS_EmptySet
    <2>5. rank[i] = Cardinality(upTo(i))
      OBVIOUS
    <2> HIDE DEF rank, upTo
    <2> QED
      BY <1>1, <2>2, <2>3, <2>4, <2>5
  <1>4. ASSUME NEW i \in kept, NEW k \in kept, rank[i] = rank[k], i < k
        PROVE  FALSE
    <2> i \in Int /\ k \in Int
      BY <1>2
    <2>1. upTo(i) \in SUBSET upTo(k) /\ k \in upTo(k) /\ k \notin upTo(i)
      <3>1. \A j \in kept : j \in Int /\ (j <= i => j <= k)
        BY <1>2, <1>4
      <3>2. k <= k /\ ~(k <= i)
        BY <1>4
      <3> QED
        BY <3>1, <3>2
    <2>2. Cardinality(upTo(i)) = Cardinality(upTo(k))
      BY <1>4
    <2>3. IsFiniteSet(upTo(k))
      BY <1>3
    <2> HIDE DEF upTo
    <2> QED
      BY <2>1, <2>2, <2>3, FS_Subset
  <1>5. \A i, k \in kept : rank[i] = rank[k] => i = k
    <2> SUFFICES ASSUME NEW i \in kept, NEW k \in kept, rank[i] = rank[k],
                        i # k
                 PROVE  FALSE
      OBVIOUS
    <2>1. i < k \/ k < i
      BY <1>2
    <2> HIDE DEF rank
    <2> QED
      BY <1>4, <2>1
  <1> DEFINE image == {rank[i] : i \in kept}
  <1>6. rank \in Bijection(kept, image)
    <2>1. rank \in [kept -> image]
      OBVIOUS
    <2>2. \A r \in image : \E i \in kept : rank[i] = r
      OBVIOUS
    <2> HIDE DEF rank, image
    <2>3. IsInjective(rank)
      BY <1>5, <2>1 DEF IsInjective
    <2> QED
      BY <2>1, <2>2, <2>3 DEF Bijection, Injection, Surjection
  <1>7. \A i \in kept : rank[i] = Cardinality(upTo(i))
    OBVIOUS
  <1>8. image = 1 .. m
    <2>1. image \in SUBSET (1 .. m)
      BY <1>3
    <2> HIDE DEF rank, image
    <2>2. ExistsBijection(kept, image)
      BY <1>6 DEF ExistsBijection
    <2>3. Cardinality(image) = m
      BY <1>1, <2>2, FS_Bijection DEF m
    <2>4. IsFiniteSet(1 .. m) /\ Cardinality(1 .. m) = m
      BY <1>1, FS_Interval
    <2> QED
      BY <2>1, <2>3, <2>4, FS_Subset
  <1>9. \A k \in 1 .. m : \E i \in kept : rank[i] = k
    BY <1>8
  <1> HIDE DEF rank, image
  <1>10. \A i \in kept : rank[i] \in 1 .. m
    BY <1>3
  <1> QED
    BY <1>1, <1>5, <1>7, <1>9, <1>10 DEF m

\* Reloaded keeps the first suggestion of each name, each once.
LEMMA ReloadedSuggestions ==
    ASSUME NEW S, NEW suggestions \in Seq(S)
    PROVE  /\ FirstOfName(suggestions) \subseteq DOMAIN suggestions
           /\ \A k \in DOMAIN Reloaded(suggestions) :
                \E i \in FirstOfName(suggestions) :
                  Reloaded(suggestions)[k] = suggestions[i]
           /\ \A i \in FirstOfName(suggestions) :
                \E k \in FirstOfName(Reloaded(suggestions)) :
                  Reloaded(suggestions)[k] = suggestions[i]
  <1> DEFINE kept == FirstOfName(suggestions)
             rank(i) == Cardinality({j \in kept : j <= i})
             m == Cardinality(kept)
             at(k) == CHOOSE i \in kept : rank(i) = k
             loaded == [k \in 1 .. m |-> suggestions[at(k)]]
  <1>1. Reloaded(suggestions) = loaded
    BY DEF Reloaded
  <1>2. /\ Len(suggestions) \in Nat
        /\ kept \in SUBSET (1 .. Len(suggestions))
        /\ kept \subseteq DOMAIN suggestions
    <2>1. /\ Len(suggestions) \in Nat
          /\ DOMAIN suggestions = 1 .. Len(suggestions)
      BY LenProperties
    <2>2. kept \subseteq DOMAIN suggestions
      BY DEF FirstOfName
    <2> QED
      BY <2>1, <2>2
  <1>3. \A i \in kept : suggestions[i].name # ""
    BY DEF FirstOfName
  <1>4. ASSUME NEW i \in kept, NEW k \in kept,
               suggestions[i].name = suggestions[k].name
        PROVE  i = k
    <2>1. ~(i \in 1 .. k - 1) /\ ~(k \in 1 .. i - 1)
      BY <1>4 DEF FirstOfName
    <2>2. i \in 1 .. Len(suggestions) /\ k \in 1 .. Len(suggestions)
      BY <1>2
    <2> QED
      BY <1>2, <2>1, <2>2
  <1> HIDE DEF kept
  <1>5. /\ m \in Nat
        /\ \A k \in 1 .. m : \E i \in kept : rank(i) = k
        /\ \A i \in kept : rank(i) \in 1 .. m
        /\ \A i, k \in kept : rank(i) = rank(k) => i = k
    BY <1>2, Ranks
  <1> HIDE DEF m, rank
  <1>6. \A k \in 1 .. m : at(k) \in kept /\ rank(at(k)) = k
    BY <1>5
  <1>7. \A i \in kept : at(rank(i)) = i
    BY <1>5, <1>6
  <1> HIDE DEF at
  <1>8. DOMAIN loaded = 1 .. m /\ \A k \in 1 .. m : loaded[k] = suggestions[at(k)]
    OBVIOUS
  <1> HIDE DEF loaded
  <1>9. ASSUME NEW k \in 1 .. m
        PROVE  k \in FirstOfName(loaded)
    <2>1. loaded[k].name # ""
      BY <1>3, <1>6, <1>8
    <2>2. ASSUME NEW l \in 1 .. k - 1, loaded[l].name = loaded[k].name
          PROVE  FALSE
      <3>1. l \in 1 .. m /\ l # k
        BY <1>5
      <3>2. at(l) = at(k)
        BY <1>4, <1>6, <1>8, <2>2, <3>1
      <3> QED
        BY <1>6, <3>1, <3>2
    <2> QED
      BY <1>8, <2>1, <2>2 DEF FirstOfName
  <1>10. \A i \in kept : /\ rank(i) \in FirstOfName(loaded)
                         /\ loaded[rank(i)] = suggestions[i]
    BY <1>5, <1>7, <1>8, <1>9
  <1>11. \A k \in DOMAIN loaded : \E i \in kept : loaded[k] = suggestions[i]
    BY <1>6, <1>8
  <1> QED
    BY <1>1, <1>2, <1>10, <1>11 DEF kept

\* Merging what was kept is merging all.
LEMMA ReloadedMerge ==
    ASSUME NEW base, NEW S, NEW suggestions \in Seq(S)
    PROVE  Merge(base, Reloaded(suggestions)) = Merge(base, suggestions)
  <1> DEFINE loaded == Reloaded(suggestions)
             made(a) == Signal(a.name, a.severity, DeltaOf(a.severity))
             new(s) == {k \in FirstOfName(s) : \A b \in base : b.name # s[k].name}
  <1>1. /\ Merge(base, loaded) = base \cup {made(loaded[i]) : i \in new(loaded)}
        /\ Merge(base, suggestions)
             = base \cup {made(suggestions[i]) : i \in new(suggestions)}
    BY DEF Merge
  <1>2. \A i \in new(suggestions) :
          \E k \in new(loaded) : loaded[k] = suggestions[i]
    BY ReloadedSuggestions
  <1>3. \A k \in new(loaded) :
          \E i \in new(suggestions) : loaded[k] = suggestions[i]
    <2>1. FirstOfName(loaded) \subseteq DOMAIN loaded
      BY DEF FirstOfName
    <2> QED
      BY <2>1, ReloadedSuggestions
  <1> HIDE DEF made, new, loaded
  <1>4. {made(loaded[i]) : i \in new(loaded)}
          = {made(suggestions[i]) : i \in new(suggestions)}
    BY <1>2, <1>3
  <1> QED
    BY <1>1, <1>4 DEF loaded

\* For all suggestions of the model, the analysis that is read back from the
\* stored evidence suggests the very signals that are stored, however often it
\* repeats a name, leaves it out or takes a rule's (analysisForRecord,
\* mergeSuggestedSignals).
THEOREM AnalysisIsReadBack == Spec => []AnalysisReloads
  <1>1. AgentTypeOK /\ Progress => AnalysisReloads
    <2> SUFFICES ASSUME AgentTypeOK, Progress, outcome # "running"
                 PROVE  AnalysisReloads
      BY DEF AnalysisReloads
    <2>1. analysis.suggestions \in Seq(Suggestions)
      BY DEF AgentTypeOK, Analyses
    <2>2. timeline \in Finished /\ timeline \notin {Accepted, Ready}
      BY LastEvents DEF Progress, Finished
    <2>3. signals = Merge(RuleSignals(change), analysis.suggestions)
      BY <2>2 DEF Progress
    <2> QED
      BY <2>1, <2>3, ReloadedMerge DEF AnalysisReloads
  <1> QED
    BY <1>1, AgentKeepsPromises, Progresses, PTL

(***************************************************************************)
(* The sum of the deltas.                                                  *)
(***************************************************************************)
First(s) == CHOOSE x \in s : TRUE

\* The function adds up the deltas of each of the sets, the way MapThenSumSet
\* does: whichever CHOOSE takes first, then the rest.
IsSum(sum, sets) ==
    sum = [s \in sets |-> IF s = {} THEN 0
                          ELSE First(s).delta + sum[s \ {First(s)}]]

Sum(S) == CHOOSE sum : IsSum(sum, SUBSET S)

\* The sum the score takes is the value of such a function.
LEMMA SumOfDeltas ==
    ASSUME NEW S
    PROVE  MapThenSumSet(LAMBDA s : s.delta, S) = Sum(S)[S]
BY DEF MapThenSumSet, MapThenFoldSet, Sum, IsSum, First

\* Where some subset of a finite set is bad, one is whose own subsets are not:
\* what stands in for an induction over finite sets.
LEMMA SmallestSet ==
    ASSUME NEW S, IsFiniteSet(S), NEW Bad \in SUBSET (SUBSET S), Bad # {}
    PROVE  \E B \in Bad : \A C \in SUBSET B : C # B => C \notin Bad
  <1>1. Bad \subseteq FiniteSubsetsOf(S)
    BY FS_Subset DEF FiniteSubsetsOf
  <1>2. PICK B \in Bad :
          \A C \in Bad : <<C, B>> \notin StrictSubsetOrdering(S)
    BY <1>1, FS_StrictSubsetOrderingWellFounded, WFMin
  <1>3. ASSUME NEW C \in SUBSET B, C # B, C \in Bad
        PROVE  FALSE
    <2>1. <<C, B>> \in (SUBSET S) \X (SUBSET S)
      BY <1>2, <1>3
    <2>2. <<C, B>> \in StrictSubsetOrdering(S)
      BY <1>3, <2>1 DEF StrictSubsetOrdering
    <2> QED
      BY <1>2, <1>3, <2>2
  <1> QED
    BY <1>2, <1>3

\* Of the numbers of a set, one is the smallest.
LEMMA SmallestNumber ==
    ASSUME NEW T \in SUBSET Nat, T # {}
    PROVE  \E m \in T : \A k \in T : m <= k
  <1> DEFINE R == {ss \in Nat \X Nat : ss[1] < ss[2]}
  <1>1. IsWellFoundedOn(R, Nat)
    BY NatLessThanWellFounded DEF OpToRel
  <1>2. \A k, m \in Nat : k < m => <<k, m>> \in R
    OBVIOUS
  <1> HIDE DEF R
  <1>3. PICK m \in T : \A k \in T : <<k, m>> \notin R
    BY <1>1, WFMin
  <1>4. ASSUME NEW k \in T
        PROVE  m <= k
    <2>1. k \in Nat /\ m \in Nat /\ ~(k < m)
      BY <1>2, <1>3
    <2> QED
      BY <2>1
  <1> QED
    BY <1>4

\* Such a function exists, since it does for the subsets up to each size.
LEMMA SumsExist ==
    ASSUME NEW S, IsFiniteSet(S)
    PROVE  IsSum(Sum(S), SUBSET S)
  <1> DEFINE upTo(n) == {s \in SUBSET S : Cardinality(s) <= n}
             Bad == {n \in Nat : ~ \E sum : IsSum(sum, upTo(n))}
  <1>1. \A s \in SUBSET S :
          /\ IsFiniteSet(s) /\ Cardinality(s) \in Nat
          /\ Cardinality(s) <= Cardinality(S)
          /\ Cardinality(s) = 0 <=> s = {}
    BY FS_Subset, FS_CardinalityType, FS_EmptySet
  <1>2. \A s \in SUBSET S : s # {} =>
          /\ First(s) \in s
          /\ Cardinality(s \ {First(s)}) = Cardinality(s) - 1
    BY <1>1, FS_RemoveElement DEF First
  <1>3. \E sum : IsSum(sum, upTo(0))
    <2> DEFINE sum == [s \in upTo(0) |-> 0]
    <2>1. \A s \in upTo(0) : s = {}
      BY <1>1
    <2>2. sum = [s \in upTo(0) |->
                   IF s = {} THEN 0
                   ELSE First(s).delta + sum[s \ {First(s)}]]
      BY <2>1
    <2> QED
      BY <2>2 DEF IsSum
  <1>4. ASSUME NEW n \in Nat, NEW sum, IsSum(sum, upTo(n))
        PROVE  \E more : IsSum(more, upTo(n + 1))
    <2> DEFINE more == [s \in upTo(n + 1) |->
                          IF s = {} THEN 0
                          ELSE First(s).delta + sum[s \ {First(s)}]]
    <2>1. ASSUME NEW s \in upTo(n + 1), s # {}
          PROVE  more[s \ {First(s)}] = sum[s \ {First(s)}]
      <3> DEFINE r == s \ {First(s)}
      <3>1. s \in SUBSET S /\ Cardinality(s) <= n + 1
        OBVIOUS
      <3>2. r \in SUBSET S /\ Cardinality(r) = Cardinality(s) - 1
        BY <1>2, <2>1, <3>1
      <3> HIDE DEF r
      <3>3. r \in upTo(n) /\ r \in upTo(n + 1)
        BY <1>1, <3>1, <3>2
      <3>4. sum[r] = IF r = {} THEN 0 ELSE First(r).delta + sum[r \ {First(r)}]
        BY <1>4, <3>3 DEF IsSum
      <3>5. more[r] = IF r = {} THEN 0 ELSE First(r).delta + sum[r \ {First(r)}]
        BY <3>3
      <3> QED
        BY <3>4, <3>5 DEF r
    <2> HIDE DEF upTo
    <2>2. more = [s \in upTo(n + 1) |->
                    IF s = {} THEN 0
                    ELSE First(s).delta + more[s \ {First(s)}]]
      BY <2>1
    <2> QED
      BY <2>2 DEF IsSum
  <1>5. Bad = {}
    <2> SUFFICES ASSUME Bad # {} PROVE FALSE
      OBVIOUS
    <2>1. PICK m \in Bad : \A k \in Bad : m <= k
      BY SmallestNumber
    <2>2. m \in Nat /\ m # 0
      BY <1>3
    <2>a. m - 1 \in Nat /\ (m - 1) + 1 = m /\ ~(m <= m - 1)
      BY <2>2
    <2>3. m - 1 \in Nat /\ m - 1 \notin Bad /\ (m - 1) + 1 = m
      BY <2>1, <2>a
    <2>4. PICK sum : IsSum(sum, upTo(m - 1))
      BY <2>3
    <2> HIDE DEF upTo
    <2>5. \E more : IsSum(more, upTo(m - 1 + 1))
      BY <1>4, <2>3, <2>4
    <2> QED
      BY <2>3, <2>5
  <1>6. upTo(Cardinality(S)) = SUBSET S
    BY <1>1
  <1>7. Cardinality(S) \in Nat
    BY FS_CardinalityType
  <1>8. \E sum : IsSum(sum, SUBSET S)
    BY <1>5, <1>6, <1>7
  <1> QED
    BY <1>8 DEF Sum

Deltas(S) == \A x \in S : x.delta \in Nat

\* The sum is taken an element at a time ...
LEMMA SumSteps ==
    ASSUME NEW S, IsFiniteSet(S), NEW sum, IsSum(sum, SUBSET S)
    PROVE  /\ sum[{}] = 0
           /\ \A s \in SUBSET S : s # {} =>
                /\ First(s) \in s
                /\ sum[s] = First(s).delta + sum[s \ {First(s)}]
  <1>1. \A s \in SUBSET S :
          sum[s] = IF s = {} THEN 0
                   ELSE First(s).delta + sum[s \ {First(s)}]
    BY DEF IsSum
  <1> QED
    BY <1>1 DEF First

\* ... is a number ...
LEMMA SumIsNumber ==
    ASSUME NEW S, IsFiniteSet(S), Deltas(S), NEW sum, IsSum(sum, SUBSET S)
    PROVE  \A s \in SUBSET S : sum[s] \in Nat
  <1> DEFINE Bad == {s \in SUBSET S : sum[s] \notin Nat}
  <1> SUFFICES ASSUME Bad # {} PROVE FALSE
    OBVIOUS
  <1>a. /\ Bad \in SUBSET (SUBSET S)
        /\ \A s \in SUBSET S : s \in Bad <=> sum[s] \notin Nat
    OBVIOUS
  <1> HIDE DEF Bad
  <1>1. PICK B \in Bad : \A C \in SUBSET B : C # B => C \notin Bad
    BY <1>a, SmallestSet
  <1>2. B \in SUBSET S /\ sum[B] \notin Nat
    BY <1>a
  <1>c. /\ sum[{}] = 0
        /\ \A s \in SUBSET S : s # {} =>
             First(s) \in s /\ sum[s] = First(s).delta + sum[s \ {First(s)}]
    BY SumSteps
  <1>b. sum[{}] \in Nat
    BY <1>c
  <1>3. B # {}
    BY <1>2, <1>b
  <1> DEFINE x == First(B)
             C == B \ {x}
  <1>4. x \in B /\ sum[B] = x.delta + sum[C]
    BY <1>2, <1>3, <1>c
  <1>5. C \in SUBSET B /\ C # B /\ C \in SUBSET S
    BY <1>2, <1>4
  <1> HIDE DEF x, C
  <1>6. sum[C] \in Nat /\ x.delta \in Nat
    BY <1>1, <1>2, <1>4, <1>5, <1>a DEF Deltas
  <1> QED
    BY <1>2, <1>4, <1>6

\* ... and is the same whichever element is taken first.
LEMMA SumWithout ==
    ASSUME NEW S, IsFiniteSet(S), Deltas(S), NEW sum, IsSum(sum, SUBSET S),
           NEW T \in SUBSET S, NEW e \in T
    PROVE  sum[T] = e.delta + sum[T \ {e}]
  <1> DEFINE Bad == {s \in SUBSET S :
                       \E x \in s : sum[s] # x.delta + sum[s \ {x}]}
  <1> SUFFICES ASSUME Bad # {} PROVE FALSE
    OBVIOUS
  <1>a. /\ Bad \in SUBSET (SUBSET S)
        /\ \A s \in SUBSET S :
             s \in Bad <=> \E x \in s : sum[s] # x.delta + sum[s \ {x}]
    OBVIOUS
  <1> HIDE DEF Bad
  <1>1. PICK B \in Bad : \A C \in SUBSET B : C # B => C \notin Bad
    BY <1>a, SmallestSet
  <1>2. PICK x \in B : sum[B] # x.delta + sum[B \ {x}]
    BY <1>a
  <1>3. B \in SUBSET S /\ B # {}
    BY <1>2, <1>a
  <1> DEFINE y == First(B)
  <1>b. \A s \in SUBSET S : s # {} =>
          First(s) \in s /\ sum[s] = First(s).delta + sum[s \ {First(s)}]
    BY SumSteps
  <1>4. y \in B /\ sum[B] = y.delta + sum[B \ {y}]
    BY <1>3, <1>b
  <1> HIDE DEF y
  <1>5. x # y
    BY <1>2, <1>4
  <1> DEFINE X == B \ {x}
             Y == B \ {y}
             R == (B \ {x}) \ {y}
  <1>6. /\ X \in SUBSET B /\ X # B /\ y \in X /\ X \ {y} = R
        /\ Y \in SUBSET B /\ Y # B /\ x \in Y /\ Y \ {x} = R
        /\ X \in SUBSET S /\ Y \in SUBSET S /\ R \in SUBSET S
    BY <1>3, <1>4, <1>5
  <1>7. sum[B] # x.delta + sum[X] /\ sum[B] = y.delta + sum[Y]
    BY <1>2, <1>4
  <1>8. x.delta \in Nat /\ y.delta \in Nat
    BY <1>3, <1>4 DEF Deltas
  <1> HIDE DEF X, Y, R
  <1>9. X \notin Bad /\ Y \notin Bad
    BY <1>1, <1>6
  <1>10. sum[X] = y.delta + sum[R] /\ sum[Y] = x.delta + sum[R]
    BY <1>6, <1>9, <1>a
  <1>11. sum[R] \in Nat
    BY <1>6, SumIsNumber
  <1> QED
    BY <1>7, <1>8, <1>10, <1>11

\* Fewer deltas never make a greater sum.
LEMMA SumGrows ==
    ASSUME NEW S, IsFiniteSet(S), Deltas(S), NEW sum, IsSum(sum, SUBSET S),
           NEW T \in SUBSET S
    PROVE  sum[T] <= sum[S]
  <1> DEFINE Bad == {s \in SUBSET S : T \subseteq s /\ ~(sum[T] <= sum[s])}
  <1> SUFFICES ASSUME Bad # {} PROVE FALSE
    OBVIOUS
  <1>a. /\ Bad \in SUBSET (SUBSET S)
        /\ \A s \in SUBSET S : s \in Bad <=> T \subseteq s /\ ~(sum[T] <= sum[s])
    OBVIOUS
  <1> HIDE DEF Bad
  <1>1. PICK B \in Bad : \A C \in SUBSET B : C # B => C \notin Bad
    BY <1>a, SmallestSet
  <1>2. B \in SUBSET S /\ T \subseteq B /\ ~(sum[T] <= sum[B])
    BY <1>a
  <1>3. \A s \in SUBSET S : sum[s] \in Nat
    BY SumIsNumber
  <1>4. PICK x \in B : x \notin T
    <2>1. B # T
      BY <1>2, <1>3
    <2> QED
      BY <1>2, <2>1
  <1> DEFINE C == B \ {x}
  <1>5. C \in SUBSET B /\ C # B /\ C \in SUBSET S /\ T \subseteq C
    BY <1>2, <1>4
  <1>6. sum[B] = x.delta + sum[C]
    BY <1>2, <1>4, SumWithout
  <1> HIDE DEF C
  <1>7. sum[T] <= sum[C]
    BY <1>1, <1>5, <1>a
  <1>8. x.delta \in Nat
    BY <1>2 DEF Deltas
  <1> QED
    BY <1>2, <1>3, <1>5, <1>6, <1>7, <1>8

\* A sum says the same of the sets that both know.
LEMMA SumsAgree ==
    ASSUME NEW S, IsFiniteSet(S), NEW T \in SUBSET S,
           NEW sum, IsSum(sum, SUBSET S), NEW part, IsSum(part, SUBSET T)
    PROVE  sum[T] = part[T]
  <1> DEFINE Bad == {s \in SUBSET T : sum[s] # part[s]}
  <1> SUFFICES ASSUME Bad # {} PROVE FALSE
    OBVIOUS
  <1>a. /\ Bad \in SUBSET (SUBSET T)
        /\ \A s \in SUBSET T : s \in Bad <=> sum[s] # part[s]
    OBVIOUS
  <1> HIDE DEF Bad
  <1>1. IsFiniteSet(T)
    BY FS_Subset
  <1>2. PICK B \in Bad : \A C \in SUBSET B : C # B => C \notin Bad
    BY <1>1, <1>a, SmallestSet
  <1>3. B \in SUBSET T /\ B \in SUBSET S /\ sum[B] # part[B]
    BY <1>a
  <1>c. /\ sum[{}] = 0
        /\ \A s \in SUBSET S : s # {} =>
             First(s) \in s /\ sum[s] = First(s).delta + sum[s \ {First(s)}]
    BY SumSteps
  <1>d. /\ part[{}] = 0
        /\ \A s \in SUBSET T : s # {} =>
             /\ First(s) \in s
             /\ part[s] = First(s).delta + part[s \ {First(s)}]
    BY <1>1, SumSteps
  <1>4. sum[{}] = 0 /\ part[{}] = 0
    BY <1>c, <1>d
  <1>5. B # {}
    BY <1>3, <1>4
  <1> DEFINE C == B \ {First(B)}
  <1>6. /\ First(B) \in B
        /\ sum[B] = First(B).delta + sum[C]
    BY <1>3, <1>5, <1>c
  <1>7. part[B] = First(B).delta + part[C]
    BY <1>3, <1>5, <1>d
  <1>8. C \in SUBSET B /\ C # B /\ C \in SUBSET T
    BY <1>3, <1>6
  <1> HIDE DEF C
  <1>9. sum[C] = part[C]
    BY <1>2, <1>8, <1>a
  <1> QED
    BY <1>3, <1>6, <1>7, <1>9

(***************************************************************************)
(* The score.                                                              *)
(***************************************************************************)
\* The score is the capped sum.
LEMMA ScoreValue ==
    ASSUME NEW S, IsFiniteSet(S), Deltas(S)
    PROVE  /\ Sum(S)[S] \in Nat
           /\ ScoreOf(S) = IF 90 < Sum(S)[S] THEN 100 ELSE 10 + Sum(S)[S]
  <1> DEFINE total == Sum(S)[S]
  <1>1. total \in Nat
    <2>1. IsSum(Sum(S), SUBSET S) /\ S \in SUBSET S
      BY SumsExist
    <2> QED
      BY <2>1, SumIsNumber
  <1>2. ScoreOf(S) = Min({100, 10 + total})
    BY SumOfDeltas DEF ScoreOf
  <1> HIDE DEF total
  <1> DEFINE score == IF 90 < total THEN 100 ELSE 10 + total
  <1>3. /\ score \in {100, 10 + total}
        /\ \A y \in {100, 10 + total} : score <= y
    BY <1>1
  <1>4. ASSUME NEW x \in {100, 10 + total},
               \A y \in {100, 10 + total} : x <= y
        PROVE  x = score
    BY <1>1, <1>4
  <1>5. Min({100, 10 + total}) = score
    BY <1>3, <1>4 DEF Min
  <1> QED
    BY <1>1, <1>2, <1>5 DEF total

\* The score is within 10 and 100.
LEMMA ScoreInRange ==
    ASSUME NEW S, IsFiniteSet(S), Deltas(S)
    PROVE  ScoreOf(S) \in 10 .. 100
  <1>1. /\ Sum(S)[S] \in Nat
        /\ ScoreOf(S) = IF 90 < Sum(S)[S] THEN 100 ELSE 10 + Sum(S)[S]
    BY ScoreValue
  <1> QED
    BY <1>1

\* More signals never make a lower score.
LEMMA ScoreGrows ==
    ASSUME NEW S, IsFiniteSet(S), Deltas(S), NEW T \in SUBSET S
    PROVE  ScoreOf(T) <= ScoreOf(S)
  <1>1. IsFiniteSet(T) /\ Deltas(T)
    BY FS_Subset DEF Deltas
  <1> DEFINE all == Sum(S)[S]
             part == Sum(T)[T]
  <1>2. all \in Nat /\ ScoreOf(S) = IF 90 < all THEN 100 ELSE 10 + all
    BY ScoreValue
  <1>3. part \in Nat /\ ScoreOf(T) = IF 90 < part THEN 100 ELSE 10 + part
    BY <1>1, ScoreValue
  <1>4. IsSum(Sum(S), SUBSET S) /\ IsSum(Sum(T), SUBSET T)
    BY <1>1, SumsExist
  <1>5. Sum(S)[T] = part
    BY <1>4, SumsAgree
  <1>6. Sum(S)[T] <= all
    BY <1>4, SumGrows
  <1>7. part <= all
    BY <1>5, <1>6
  <1> HIDE DEF all, part
  <1> QED
    BY <1>2, <1>3, <1>7

\* A higher score is never less risky or less confident.
LEMMA LevelsGrow ==
    ASSUME NEW a \in Int, NEW b \in Int, a <= b
    PROVE  /\ LevelOf(a) \in Levels
           /\ ConfidenceIn(LevelOf(a)) \in 75 .. 100
           /\ ConfidenceIn(LevelOf(a)) <= ConfidenceIn(LevelOf(b))
           /\ LevelOf(a) \in {"HIGH", "CRITICAL"} =>
                LevelOf(b) \in {"HIGH", "CRITICAL"}
  <1>1. \A x \in Int :
          \/ 80 <= x /\ LevelOf(x) = "CRITICAL"
          \/ 60 <= x /\ x < 80 /\ LevelOf(x) = "HIGH"
          \/ 35 <= x /\ x < 60 /\ LevelOf(x) = "MEDIUM"
          \/ x < 35 /\ LevelOf(x) = "LOW"
    BY DEF LevelOf
  <1>2. /\ ConfidenceIn("CRITICAL") = 94
        /\ ConfidenceIn("HIGH") = 87
        /\ ConfidenceIn("MEDIUM") = 78
        /\ ConfidenceIn("LOW") = 76
    BY DEF ConfidenceIn
  <1>3. \/ 80 <= a /\ LevelOf(a) = "CRITICAL"
        \/ 60 <= a /\ a < 80 /\ LevelOf(a) = "HIGH"
        \/ 35 <= a /\ a < 60 /\ LevelOf(a) = "MEDIUM"
        \/ a < 35 /\ LevelOf(a) = "LOW"
    BY <1>1
  <1>4. \/ 80 <= b /\ LevelOf(b) = "CRITICAL"
        \/ 60 <= b /\ b < 80 /\ LevelOf(b) = "HIGH"
        \/ 35 <= b /\ b < 60 /\ LevelOf(b) = "MEDIUM"
        \/ b < 35 /\ LevelOf(b) = "LOW"
    BY <1>1
  <1>5. LevelOf(a) \in Levels
    BY <1>3 DEF Levels
  <1>6. LevelOf(a) \in {"HIGH", "CRITICAL"} =>
          LevelOf(b) \in {"HIGH", "CRITICAL"}
    BY <1>3, <1>4
  <1>7. ConfidenceIn(LevelOf(a)) \in 75 .. 100
    BY <1>2, <1>3
  <1>8. ConfidenceIn(LevelOf(a)) <= ConfidenceIn(LevelOf(b))
    BY <1>2, <1>3, <1>4
  <1> QED
    BY <1>5, <1>6, <1>7, <1>8

\* What analysis and score make of a result: the greater confidence, and a gate
\* that either of them shuts.
LEMMA Applied ==
    ASSUME NEW S, NEW a, a.confidence \in Int, NEW score \in Int,
           ScoreOf(S) = score
    PROVE  /\ ApplyAnalysis(ScoreReview(S), a).score = score
           /\ ApplyAnalysis(ScoreReview(S), a).level = LevelOf(score)
           /\ ApplyAnalysis(ScoreReview(S), a).confidence \in Int
           /\ ApplyAnalysis(ScoreReview(S), a).confidence
                >= ConfidenceIn(LevelOf(score))
           /\ ApplyAnalysis(ScoreReview(S), a).human
                = \/ ScoreReview(S).human
                  \/ a.human
           /\ ScoreReview(S).human \in BOOLEAN
           /\ ScoreReview(S).human <=>
                LevelOf(score) \in {"HIGH", "CRITICAL"}
  <1> DEFINE own == ConfidenceIn(LevelOf(score))
             base == ScoreReview(S)
             applied == ApplyAnalysis(base, a)
  <1>1. own \in Int /\ ~(own < 75)
    BY LevelsGrow
  <1>2. base = [score      |-> score,
                level      |-> LevelOf(score),
                confidence |-> own,
                human      |-> \/ LevelOf(score) \in {"HIGH", "CRITICAL"}
                               \/ own < 75]
    BY DEF ScoreReview
  <1> HIDE DEF own
  <1>a. base.human = (\/ LevelOf(score) \in {"HIGH", "CRITICAL"}
                      \/ own < 75)
    BY <1>2
  <1>b. base.human <=> \/ LevelOf(score) \in {"HIGH", "CRITICAL"}
                       \/ own < 75
    BY <1>a
  <1>3. /\ base.human \in BOOLEAN
        /\ base.human <=> LevelOf(score) \in {"HIGH", "CRITICAL"}
    BY <1>1, <1>a, <1>b
  <1>4. /\ DOMAIN base = {"score", "level", "confidence", "human"}
        /\ base.score = score
        /\ base.level = LevelOf(score)
        /\ base.confidence = own
    BY <1>2
  <1> HIDE DEF base
  <1>5. applied = [base EXCEPT !.human = base.human \/ a.human,
                               !.confidence = Max({base.confidence, a.confidence})]
    BY DEF ApplyAnalysis
  <1> DEFINE most == Max({own, a.confidence})
  <1> HIDE DEF applied
  <1>6. /\ applied.score = score
        /\ applied.level = LevelOf(score)
        /\ applied.confidence = most
        /\ applied.human = (base.human \/ a.human)
    BY <1>4, <1>5
  <1>7. most \in Int /\ most >= own
    <2> DEFINE greater == IF own >= a.confidence THEN own ELSE a.confidence
    <2>1. /\ greater \in {own, a.confidence}
          /\ \A y \in {own, a.confidence} : greater >= y
      BY <1>1
    <2>2. /\ most \in {own, a.confidence}
          /\ \A y \in {own, a.confidence} : most >= y
      BY <2>1 DEF Max
    <2> HIDE DEF most
    <2> QED
      BY <1>1, <2>2
  <1> HIDE DEF most
  <1> QED
    BY <1>3, <1>6, <1>7 DEF applied, base, own

(***************************************************************************)
(* The signals.                                                            *)
(***************************************************************************)
\* The rules raise finitely many signals, graded by levels.
LEMMA RuleTypes ==
    ASSUME NEW c \in Changes
    PROVE  /\ IsFiniteSet(RuleSignals(c))
           /\ \A s \in RuleSignals(c) : s.severity \in Levels /\ s.delta \in Nat
  <1> DEFINE release   == When(c.environment # "other",
                               Signal("production_release", "HIGH", 20))
             core      == When(c.critical,
                               Signal("core_path_modified", "HIGH", 18))
             auth      == When(c.auth, Signal("auth_logic_changed", "HIGH", 18))
             sensitive == When(c.sensitive,
                               Signal("sensitive_artifact_changed", "MEDIUM", 12))
  <1>1. RuleSignals(c) =
          {SourceSignal(c.source)} \cup release \cup core \cup auth
            \cup sensitive
    BY DEF RuleSignals
  <1>2. /\ IsFiniteSet({SourceSignal(c.source)}) /\ IsFiniteSet(release)
        /\ IsFiniteSet(core) /\ IsFiniteSet(auth) /\ IsFiniteSet(sensitive)
    BY FS_EmptySet, FS_Singleton DEF When
  <1>3. /\ SourceSignal(c.source).severity \in Levels
        /\ SourceSignal(c.source).delta \in Nat
    <2>1. c.source \in SourceTypes
      BY DEF Changes
    <2> QED
      BY <2>1 DEF SourceTypes, SourceSignal, Signal, Levels
  <1>4. \A s \in release \cup core \cup auth \cup sensitive :
          s.severity \in Levels /\ s.delta \in Nat
    BY DEF When, Signal, Levels
  <1> HIDE DEF release, core, auth, sensitive
  <1>5. IsFiniteSet({SourceSignal(c.source)} \cup release)
    BY <1>2, FS_Union
  <1>6. IsFiniteSet({SourceSignal(c.source)} \cup release \cup core)
    BY <1>2, <1>5, FS_Union
  <1>7. IsFiniteSet({SourceSignal(c.source)} \cup release \cup core \cup auth)
    BY <1>2, <1>6, FS_Union
  <1>8. IsFiniteSet(RuleSignals(c))
    BY <1>1, <1>2, <1>7, FS_Union
  <1> QED
    BY <1>1, <1>3, <1>4, <1>8

\* Merging leaves finitely many signals and numbers for their deltas, and what
\* it adds is a suggestion's.
LEMMA MergedTypes ==
    ASSUME NEW base, IsFiniteSet(base), Deltas(base),
           NEW S, NEW suggestions \in Seq(S)
    PROVE  /\ IsFiniteSet(Merge(base, suggestions))
           /\ Deltas(Merge(base, suggestions))
           /\ base \subseteq Merge(base, suggestions)
           /\ \A s \in Merge(base, suggestions) : s \notin base =>
                \E i \in DOMAIN suggestions :
                  s = Signal(suggestions[i].name, suggestions[i].severity,
                             DeltaOf(suggestions[i].severity))
  <1> DEFINE made(i) == Signal(suggestions[i].name, suggestions[i].severity,
                               DeltaOf(suggestions[i].severity))
             taken == {k \in FirstOfName(suggestions) :
                         \A s \in base : s.name # suggestions[k].name}
             added == {made(i) : i \in taken}
             making == [i \in taken |-> made(i)]
  <1>1. Merge(base, suggestions) = base \cup added
    BY DEF Merge
  <1>2. taken \subseteq DOMAIN suggestions
    BY DEF FirstOfName
  <1>3. IsFiniteSet(taken)
    <2>1. /\ Len(suggestions) \in Nat
          /\ DOMAIN suggestions = 1 .. Len(suggestions)
      BY LenProperties
    <2>2. IsFiniteSet(1 .. Len(suggestions))
      BY <2>1, FS_Interval
    <2> HIDE DEF taken
    <2> QED
      BY <1>2, <2>1, <2>2, FS_Subset
  <1>4. \A i \in taken : made(i).delta \in Nat
    BY DEF Signal, DeltaOf
  <1> HIDE DEF made, taken
  <1>5. making \in Surjection(taken, added)
    BY DEF Surjection
  <1>6. \A s \in added : s.delta \in Nat
    BY <1>4
  <1>7. \A s \in added : \E i \in DOMAIN suggestions : s = made(i)
    BY <1>2
  <1> HIDE DEF added, making
  <1>8. IsFiniteSet(added)
    BY <1>3, <1>5, FS_Surjection
  <1>9. IsFiniteSet(base \cup added)
    BY <1>8, FS_Union
  <1> QED
    BY <1>1, <1>6, <1>7, <1>9 DEF made, Deltas

(***************************************************************************)
(* What the variables hold.                                                *)
(***************************************************************************)
\* No analysis ends with a severity that is not a level.
Graded ==
    \A i \in DOMAIN analysis.suggestions :
      analysis.suggestions[i].severity \in Levels

\* Neither the heuristics nor a parsed answer suggest another severity.
LEMMA HeuristicGrades ==
    ASSUME NEW c
    PROVE  \A i \in DOMAIN Heuristic(c).suggestions :
             Heuristic(c).suggestions[i].severity \in Levels
  <1> DEFINE auth == IF c.auth THEN <<[name |-> "llm_auth_path_concern",
                                       severity |-> "HIGH"]>> ELSE <<>>
             sensitive == IF c.sensitive
                            THEN <<[name |-> "llm_sensitive_artifact_concern",
                                    severity |-> "MEDIUM"]>> ELSE <<>>
             Concerns == [name : {"llm_auth_path_concern",
                                  "llm_sensitive_artifact_concern"},
                          severity : Levels]
             both == auth \o sensitive
  <1>1. Heuristic(c).suggestions = both
    BY DEF Heuristic
  <1>2. /\ [name |-> "llm_auth_path_concern", severity |-> "HIGH"] \in Concerns
        /\ [name |-> "llm_sensitive_artifact_concern", severity |-> "MEDIUM"]
             \in Concerns
    BY DEF Levels
  <1>3. \A s \in Concerns : s.severity \in Levels
    OBVIOUS
  <1> HIDE DEF Concerns
  <1>4. auth \in Seq(Concerns) /\ sensitive \in Seq(Concerns)
    BY <1>2, Singleton
  <1>5. both \in Seq(Concerns)
    BY <1>4, ConcatProperties
  <1> HIDE DEF both
  <1>6. \A i \in DOMAIN both : both[i] \in Concerns
    BY <1>5
  <1> QED
    BY <1>1, <1>3, <1>6

LEMMA ParsedGrades ==
    ASSUME NEW a \in Analyses
    PROVE  \A i \in DOMAIN Parsed(a).suggestions :
             Parsed(a).suggestions[i].severity \in Levels
  <1>1. Parsed(a).suggestions = NormalizedSuggestions(a.suggestions)
    BY DEF Parsed, Analyses
  <1>2. \A i \in DOMAIN a.suggestions :
          a.suggestions[i] \in Suggestions
    BY DEF Analyses
  <1> DEFINE graded == NormalizedSuggestions(a.suggestions)
  <1>3. /\ DOMAIN graded = DOMAIN a.suggestions
        /\ \A i \in DOMAIN a.suggestions :
             graded[i].severity = IF a.suggestions[i].severity \in Levels
                                    THEN a.suggestions[i].severity ELSE "LOW"
    BY <1>2 DEF NormalizedSuggestions, Suggestions
  <1> HIDE DEF graded
  <1> QED
    BY <1>1, <1>3 DEF graded, Levels

LEMMA StepGraded == AgentTypeOK /\ Graded /\ [AgentNext]_agentVars => Graded'
  <1> SUFFICES ASSUME AgentTypeOK, Graded, [AgentNext]_agentVars
               PROVE  Graded'
    OBVIOUS
  <1>1. ASSUME analysis' = analysis
        PROVE  Graded'
    BY <1>1 DEF Graded
  <1>2. ASSUME analysis' = Heuristic(change)
        PROVE  Graded'
    BY <1>2, HeuristicGrades DEF Graded
  <1>3. CASE StartAnalysis
    BY <1>1, <1>2, <1>3 DEF StartAnalysis
  <1>4. CASE ReceiveFinal
    <2>1. PICK content \in ModelAnalyses \cup {Unusable} :
            IF content = Unusable THEN Fail ELSE analysis' = Parsed(content)
      BY <1>4 DEF ReceiveFinal
    <2>2. CASE content = Unusable
      BY <1>1, <2>1, <2>2 DEF Fail
    <2>3. CASE content # Unusable
      <3>1. content \in Analyses /\ analysis' = Parsed(content)
        BY <2>1, <2>3, AgentAssumption
      <3> QED
        BY <3>1, ParsedGrades DEF Graded
    <2> QED
      BY <2>2, <2>3
  <1>5. CASE FallBack
    <2>1. analysis' = FallbackAnalysis(change)
      BY <1>5 DEF FallBack
    <2>2. FallbackAnalysis(change).suggestions = Heuristic(change).suggestions
      BY DEF FallbackAnalysis, Heuristic
    <2> QED
      BY <2>1, <2>2, HeuristicGrades DEF Graded
  <1>6. CASE RequestFails \/ ReceiveCalls \/ ExecuteCall \/ NextRound
    BY <1>1, <1>6 DEF RequestFails, ReceiveCalls, ExecuteCall, NextRound, Fail
  <1>7. CASE UNCHANGED agentVars
    BY <1>1, <1>7 DEF agentVars, loop
  <1> QED
    BY <1>3, <1>4, <1>5, <1>6, <1>7 DEF AgentNext, Analyze

\* What the stages to come have not yet written, and what they may write.
Written ==
    /\ timeline \in {Accepted, Ready} => signals = {}
    /\ timeline \in {Accepted, Ready, Extracted} => result = NoResult
    /\ reviewers \subseteq {"release-manager", "service-owner",
                            "security-reviewer"}
    /\ outcome \in {"running", "stored", "refused"}

LEMMA StepWritten == Progress /\ Written /\ [Next]_vars => Written'
  <1> SUFFICES ASSUME Progress, Written, [Next]_vars
               PROVE  Written'
    OBVIOUS
  <1>1. CASE CollectContext
    <2>1. /\ timeline' = Ready /\ timeline = Accepted
          /\ UNCHANGED <<signals, result, reviewers, outcome>>
      BY <1>1, Stages, Transitions DEF CollectContext, Transition, Context
    <2> QED
      BY <2>1 DEF Written
  <1>2. CASE RunAnalysis
    BY <1>2 DEF RunAnalysis, review, Written
  <1>3. CASE ExtractSignals
    <2>1. /\ timeline' = Extracted /\ timeline = Ready
          /\ UNCHANGED <<result, reviewers, outcome>>
      BY <1>3, Stages, Transitions DEF ExtractSignals, Transition, Extraction
    <2> QED
      BY <2>1, LastEvents DEF Written
  <1>4. CASE Score
    <2>1. timeline' = Rated /\ UNCHANGED <<signals, reviewers, outcome>>
      BY <1>4, Stages, Transitions DEF Score, Transition, Scoring
    <2> QED
      BY <2>1, LastEvents DEF Written
  <1>5. CASE Recommend
    <2>1. /\ timeline' \in Finished
          /\ reviewers' = Reviewers(change, result)
          /\ outcome' = outcome
      BY <1>5, Stages, Transitions
         DEF Recommend, Transition, Proceeding, Stopping, Finished
    <2>2. reviewers' \subseteq {"release-manager", "service-owner",
                                "security-reviewer"}
      BY <2>1 DEF Reviewers, When
    <2> QED
      BY <2>1, <2>2, LastEvents DEF Written, Finished
  <1>6. CASE Save
    BY <1>6 DEF Save, Written
  <1>7. CASE UNCHANGED vars
    BY <1>7 DEF vars, review, Written
  <1> QED
    BY <1>1, <1>2, <1>3, <1>4, <1>5, <1>6, <1>7 DEF Next

\* The extracted signals are finitely many, hold the rules' and have their type.
LEMMA ExtractedSignals ==
    ASSUME AgentTypeOK, Graded,
           signals = Merge(RuleSignals(change), analysis.suggestions)
    PROVE  /\ IsFiniteSet(signals)
           /\ Deltas(signals)
           /\ RuleSignals(change) \subseteq signals
           /\ \A s \in signals : s \in Signals
  <1> DEFINE rules == RuleSignals(change)
             suggested == analysis.suggestions
             made(i) == Signal(suggested[i].name, suggested[i].severity,
                               DeltaOf(suggested[i].severity))
  <1>1. change \in Candidates /\ change \in Changes
    BY AgentAssumption DEF AgentTypeOK
  <1>2. suggested \in Seq(Suggestions)
    BY DEF AgentTypeOK, Analyses
  <1>3. /\ IsFiniteSet(rules)
        /\ \A s \in rules : s.severity \in Levels /\ s.delta \in Nat
    BY <1>1, RuleTypes
  <1>4. Deltas(rules)
    BY <1>3 DEF Deltas
  <1>5. /\ IsFiniteSet(Merge(rules, suggested))
        /\ Deltas(Merge(rules, suggested))
        /\ rules \subseteq Merge(rules, suggested)
        /\ \A s \in Merge(rules, suggested) : s \notin rules =>
             \E i \in DOMAIN suggested : s = made(i)
    BY <1>2, <1>3, <1>4, MergedTypes
  <1>6. \A s \in rules : s \in Signals
    <2>1. \A s \in rules : s = [name |-> s.name, severity |-> s.severity,
                               delta |-> s.delta]
      <3>1. SourceSignal(change.source)
              = [name |-> SourceSignal(change.source).name,
                 severity |-> SourceSignal(change.source).severity,
                 delta |-> SourceSignal(change.source).delta]
        <4>1. change.source \in SourceTypes
          BY <1>1 DEF Changes
        <4> QED
          BY <4>1 DEF SourceSignal, SourceTypes, Signal
      <3> QED
        BY <3>1 DEF RuleSignals, When, Signal
    <2>2. \A s \in rules :
            s.name \in {r.name : r \in UNION {RuleSignals(c) : c \in Candidates}}
      BY <1>1
    <2> HIDE DEF rules
    <2> QED
      BY <1>3, <2>1, <2>2 DEF Signals
  <1>7. \A i \in DOMAIN suggested : made(i) \in Signals
    <2> SUFFICES ASSUME NEW i \in DOMAIN suggested
                 PROVE  made(i) \in Signals
      OBVIOUS
    <2>1. suggested[i] \in Suggestions /\ suggested[i].severity \in Levels
      BY <1>2 DEF Graded
    <2>2. suggested[i].name \in Texts /\ DeltaOf(suggested[i].severity) \in Nat
      BY <2>1 DEF Suggestions, DeltaOf
    <2> QED
      BY <2>1, <2>2 DEF Signals, Signal
  <1> HIDE DEF rules, suggested, made
  <1> QED
    BY <1>5, <1>6, <1>7 DEF rules, suggested

\* The result that is computed from them.
LEMMA RatedResult ==
    ASSUME AgentTypeOK, IsFiniteSet(signals), Deltas(signals),
           result = ApplyAnalysis(ScoreReview(signals), analysis)
    PROVE  /\ result.score = ScoreOf(signals)
           /\ result.score \in 10 .. 100
           /\ result.level = LevelOf(result.score)
           /\ result.level \in Levels
           /\ result.confidence \in Int
           /\ result.confidence >= ConfidenceIn(result.level)
           /\ result.human \in BOOLEAN
           /\ result.level \in {"HIGH", "CRITICAL"} => result.human
  <1>1. analysis.confidence \in Int /\ analysis.human \in BOOLEAN
    BY DEF AgentTypeOK, Analyses
  <1> DEFINE score == ScoreOf(signals)
  <1>2. score \in 10 .. 100 /\ score \in Int
    BY ScoreInRange
  <1> HIDE DEF score
  <1>3. /\ result.score = score
        /\ result.level = LevelOf(score)
        /\ result.confidence \in Int
        /\ result.confidence >= ConfidenceIn(LevelOf(score))
        /\ result.human = (ScoreReview(signals).human \/ analysis.human)
        /\ ScoreReview(signals).human \in BOOLEAN
        /\ ScoreReview(signals).human <=>
             LevelOf(score) \in {"HIGH", "CRITICAL"}
    BY <1>1, <1>2, Applied DEF score
  <1>4. LevelOf(score) \in Levels
    BY <1>2, LevelsGrow
  <1> QED
    BY <1>1, <1>2, <1>3, <1>4 DEF score

LEMMA StaysGraded == Spec => []Graded
  <1>1. Init => Graded
    <2> SUFFICES ASSUME Init PROVE Graded
      OBVIOUS
    <2>1. analysis.suggestions = <<>>
      BY DEF Init, AgentInit, NoAnalysis
    <2>2. DOMAIN <<>> = {}
      OBVIOUS
    <2> QED
      BY <2>1, <2>2 DEF Graded
  <1>2. AgentTypeOK /\ Graded /\ [Next]_vars => Graded'
    BY StepGraded, StepRunsAnalysis
  <1> QED
    BY <1>1, <1>2, AgentKeepsPromises, PTL DEF Spec

\* Every stage leaves the variables their types: whatever the model suggests,
\* signals are graded by a level, weigh a natural number and are named by a
\* rule or a suggestion, and the score is within 10 and 100 (runPipeline).
THEOREM PipelineTypes == Spec => []PipelineTypeOK
  <1>1. Init => Written
    BY DEF Init, Written
  <1>3. AgentTypeOK /\ Progress /\ Graded /\ Written => PipelineTypeOK
    <2> SUFFICES ASSUME AgentTypeOK, Progress, Graded, Written
                 PROVE  PipelineTypeOK
      OBVIOUS
    <2>1. timeline \in Seq(Record!Statuses)
      BY TimelineTypes DEF Progress, Finished
    <2>2. /\ timeline \in {Accepted, Ready} => signals = {}
          /\ timeline \notin {Accepted, Ready} =>
               signals = Merge(RuleSignals(change), analysis.suggestions)
      BY DEF Written, Progress
    <2>3. \A s \in signals : s \in Signals
      BY <2>2, ExtractedSignals
    <2>4. \/ result = NoResult
          \/ /\ timeline \notin {Accepted, Ready}
             /\ result = ApplyAnalysis(ScoreReview(signals), analysis)
      BY LastEvents DEF Written, Progress, Finished
    <2>5. /\ result.score \in {0} \cup 10 .. 100
          /\ result.level \in Levels
          /\ result.confidence \in Int
          /\ result.human \in BOOLEAN
      <3>1. CASE result = NoResult
        BY <3>1 DEF NoResult, Levels
      <3>2. CASE /\ timeline \notin {Accepted, Ready}
                 /\ result = ApplyAnalysis(ScoreReview(signals), analysis)
        <4>1. IsFiniteSet(signals) /\ Deltas(signals)
          BY <2>2, <3>2, ExtractedSignals
        <4> QED
          BY <3>2, <4>1, RatedResult
      <3> QED
        BY <2>4, <3>1, <3>2
    <2> QED
      BY <2>1, <2>3, <2>5 DEF PipelineTypeOK, Written
  <1> QED
    BY <1>1, <1>3, StepWritten, StaysGraded, AgentKeepsPromises, Progresses,
       PTL DEF Spec

\* What the rules alone say is the floor of every stored result: no analysis
\* lowers the score, the level or the confidence, and none opens a gate the
\* rules shut (applyHybridAnalysisToScore, scoreReview).
THEOREM RulesSetTheFloor == Spec => []RulesAreFloor
  <1>1. AgentTypeOK /\ Graded /\ Progress => RulesAreFloor
    <2> SUFFICES ASSUME AgentTypeOK, Graded, Progress, outcome # "running"
                 PROVE  RulesAreFloor
      BY DEF RulesAreFloor
    <2> DEFINE rules == RuleSignals(change)
               least == ScoreOf(rules)
    <2>1. timeline \in Finished /\ timeline \notin {Accepted, Ready}
      BY LastEvents DEF Progress, Finished
    <2>2. /\ signals = Merge(RuleSignals(change), analysis.suggestions)
          /\ result = ApplyAnalysis(ScoreReview(signals), analysis)
      BY <2>1 DEF Progress
    <2>3. IsFiniteSet(signals) /\ Deltas(signals) /\ rules \subseteq signals
      BY <2>2, ExtractedSignals
    <2>4. /\ result.score = ScoreOf(signals)
          /\ result.score \in 10 .. 100
          /\ result.level = LevelOf(result.score)
          /\ result.confidence \in Int
          /\ result.confidence >= ConfidenceIn(result.level)
          /\ result.level \in {"HIGH", "CRITICAL"} => result.human
      BY <2>2, <2>3, RatedResult
    <2>5. IsFiniteSet(rules) /\ Deltas(rules)
      BY <2>3, FS_Subset DEF Deltas
    <2>6. least \in 10 .. 100 /\ least <= result.score
      BY <2>3, <2>4, <2>5, ScoreInRange, ScoreGrows
    <2>7. /\ ScoreReview(rules).score = least
          /\ ScoreReview(rules).confidence = ConfidenceIn(LevelOf(least))
          /\ ScoreReview(rules).human <=>
               \/ LevelOf(least) \in {"HIGH", "CRITICAL"}
               \/ ConfidenceIn(LevelOf(least)) < 75
      BY DEF ScoreReview
    <2> HIDE DEF least
    <2>8. /\ ConfidenceIn(LevelOf(least)) \in 75 .. 100
          /\ ConfidenceIn(LevelOf(result.score)) \in 75 .. 100
          /\ ConfidenceIn(LevelOf(least)) <= ConfidenceIn(LevelOf(result.score))
          /\ LevelOf(least) \in {"HIGH", "CRITICAL"} =>
               LevelOf(result.score) \in {"HIGH", "CRITICAL"}
      BY <2>4, <2>6, LevelsGrow
    <2>9. result.confidence >= ScoreReview(rules).confidence
      BY <2>4, <2>7, <2>8
    <2>10. ScoreReview(rules).human => result.human
      BY <2>4, <2>7, <2>8
    <2>11. result.score >= ScoreReview(rules).score
      BY <2>4, <2>6, <2>7
    <2> QED
      BY <2>4, <2>9, <2>10, <2>11 DEF RulesAreFloor
  <1> QED
    BY <1>1, StaysGraded, AgentKeepsPromises, Progresses, PTL
=============================================================================
