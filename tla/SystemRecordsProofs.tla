------------------------ MODULE SystemRecordsProofs ------------------------
(***************************************************************************)
(* Lemmas about the data of ReviewSystem: what an operation makes of the   *)
(* record it loads, and the theorem that PostgresStore reads back whatever *)
(* it saved.                                                               *)
(***************************************************************************)
EXTENDS ReviewSystem, DedupeKeyProofs, FiniteSetTheorems

(***************************************************************************)
(* Records.                                                                *)
(***************************************************************************)
Origins == {"service", "pipeline", "decision", "evaluation", "retry"}

Events == [state : Statuses, by : Origins, at : Int]

DecisionRows == [verdict : Verdicts, request : Nat, at : Int]

FieldNames ==
    {"id", "task", "change", "key", "source", "names", "environment", "status",
     "result", "created", "request", "understanding", "evidence", "signals",
     "recommendation", "timeline", "decisions", "evaluation", "error"}

IsRecord(rec) == rec = [f \in FieldNames |-> rec[f]]

\* What no operation but the first writes.
Identified(rec) ==
    /\ rec.id \in Int
    /\ rec.task \in Int
    /\ rec.change \in Text
    /\ rec.key \in Text
    /\ rec.source \in Text
    /\ rec.environment \in Text
    /\ rec.names \in SUBSET STRING
    /\ rec.created \in Int
    /\ rec.request \in ReviewRequests \cup {Nil}

\* What the pipeline writes.
Assessed(rec) ==
    /\ rec.result = [score      |-> rec.result.score,
                     level      |-> rec.result.level,
                     confidence |-> rec.result.confidence,
                     human      |-> rec.result.human]
    /\ rec.result.human \in BOOLEAN
    /\ rec.understanding \in Understandings \cup {Nil}
    /\ rec.evidence = [numbers |-> rec.evidence.numbers]
    /\ rec.evidence.numbers \in SUBSET Int
    /\ rec.signals = [numbers |-> rec.signals.numbers,
                      raised  |-> rec.signals.raised]
    /\ rec.signals.numbers \in SUBSET Int
    /\ rec.recommendation = [reviewers |-> rec.recommendation.reviewers,
                             version   |-> rec.recommendation.version]
    /\ rec.recommendation.version \in Text

\* What every operation writes or may write.
Historied(rec) ==
    /\ rec.status \in Statuses
    /\ rec.timeline \in Seq(Events)
    /\ rec.timeline # <<>>
    /\ rec.decisions \in Seq(DecisionRows)
    /\ rec.evaluation \in EvaluationValues \cup {Nil}

Whole(rec) ==
    IsRecord(rec) /\ Identified(rec) /\ Assessed(rec) /\ Historied(rec)

\* The fields one record has from another.
SameFields(out, rec, names) == \A f \in names : out[f] = rec[f]

IdentityNames ==
    {"id", "task", "change", "key", "source", "names", "environment", "created",
     "request"}

AssessmentNames ==
    {"result", "understanding", "evidence", "signals", "recommendation"}

LEMMA IdentityKept ==
    ASSUME NEW rec, Identified(rec), NEW out,
           SameFields(out, rec, IdentityNames)
    PROVE  Identified(out)
  BY DEF Identified, SameFields, IdentityNames

LEMMA AssessmentKept ==
    ASSUME NEW rec, Assessed(rec), NEW out,
           SameFields(out, rec, AssessmentNames)
    PROVE  Assessed(out)
  BY DEF Assessed, SameFields, AssessmentNames

\* A sequence with one more element.
LEMMA Appending ==
    ASSUME NEW S, NEW s \in Seq(S), NEW x \in S
    PROVE  /\ Append(s, x) \in Seq(S)
           /\ Append(s, x) # <<>>
           /\ Len(Append(s, x)) = Len(s) + 1
           /\ LastOf(Append(s, x)) = x
  BY AppendProperties, LenProperties DEF LastOf
-----------------------------------------------------------------------------
(***************************************************************************)
(* What an operation makes of the record it loaded.                        *)
(***************************************************************************)
DecidedDraft(rec, verdict, number, now) ==
    [rec EXCEPT
       !.status = StatusOf(verdict),
       !.decisions = Append(@, [verdict |-> verdict,
                                request |-> number, at |-> now]),
       !.evaluation = [EvaluationFor(rec, now) EXCEPT !.final = verdict],
       !.timeline = Append(@, Event(StatusOf(verdict), "decision", now))]

EvaluatedDraft(rec, update, now) ==
    [rec EXCEPT
       !.evaluation = [EvaluationFor(rec, now) EXCEPT
          !.outcome = IF update.outcome = Nil THEN @ ELSE update.outcome,
          !.incident = IF update.incident = Nil THEN @ ELSE update.incident],
       !.timeline = Append(@, Event(rec.status, "evaluation", now))]

RetriedDraft(rec, counter, now) ==
    ProcessedFrom(Reset(rec, now), RequestFromRecord(rec), counter, now)

CreatedDraft(req, counter, now) ==
    ProcessedFrom(NewReview(req, dedupeKeyFor(req), counter, now), req,
                  counter + 2, now)

\* A decision changes the status, the decisions, the evaluation and the
\* timeline.
DecidedFrom(out, rec, verdict, number, now) ==
    /\ Whole(out)
    /\ SameFields(out, rec, FieldNames \ {"status", "decisions", "evaluation",
                                          "timeline"})
    /\ out.status = StatusOf(verdict)
    /\ out.decisions = Append(rec.decisions, [verdict |-> verdict,
                                              request |-> number, at |-> now])
    /\ out.evaluation = [EvaluationFor(rec, now) EXCEPT !.final = verdict]
    /\ out.evaluation \in EvaluationValues
    /\ out.timeline =
         Append(rec.timeline, Event(StatusOf(verdict), "decision", now))

LEMMA DecidedFields ==
    ASSUME NEW rec, Whole(rec), NEW verdict \in Verdicts, NEW number \in Nat,
           NEW now \in Int
    PROVE  DecidedFrom(DecidedDraft(rec, verdict, number, now), rec, verdict,
                   number, now)
  <1> DEFINE out == DecidedDraft(rec, verdict, number, now)
             evaluation == [EvaluationFor(rec, now) EXCEPT !.final = verdict]
             event == Event(StatusOf(verdict), "decision", now)
             row == [verdict |-> verdict, request |-> number, at |-> now]
  <1>1. evaluation \in EvaluationValues
    BY DEF Whole, Historied, EvaluationFor, NewEvaluation, EvaluationValues
  <1>2. StatusOf(verdict) \in Statuses
    BY DEF StatusOf, Verdicts, Statuses
  <1>3. event \in Events /\ row \in DecisionRows
    BY <1>2 DEF Event, Events, Origins, DecisionRows
  <1>4. /\ Append(rec.timeline, event) \in Seq(Events)
        /\ Append(rec.timeline, event) # <<>>
    BY <1>3, Appending DEF Whole, Historied
  <1>5. Append(rec.decisions, row) \in Seq(DecisionRows)
    BY <1>3, Appending DEF Whole, Historied
  <1>. out = [rec EXCEPT !.status = StatusOf(verdict),
                         !.decisions = Append(rec.decisions, row),
                         !.evaluation = evaluation,
                         !.timeline = Append(rec.timeline, event)]
    BY DEF DecidedDraft
  <1> HIDE DEF out, evaluation, event, row
  <1>6. /\ IsRecord(out)
        /\ SameFields(out, rec, FieldNames \ {"status", "decisions",
                                  "evaluation", "timeline"})
        /\ out.status = StatusOf(verdict)
        /\ out.decisions = Append(rec.decisions, row)
        /\ out.evaluation = evaluation
        /\ out.timeline = Append(rec.timeline, event)
    BY DEF Whole, IsRecord, FieldNames, SameFields
  <1>7. /\ SameFields(out, rec, IdentityNames)
        /\ SameFields(out, rec, AssessmentNames)
    BY <1>6 DEF SameFields, FieldNames, IdentityNames, AssessmentNames
  <1>8. Identified(out) /\ Assessed(out)
    BY <1>7, IdentityKept, AssessmentKept DEF Whole
  <1>9. Historied(out)
    BY <1>1, <1>2, <1>4, <1>5, <1>6, <1>7 DEF Whole, Historied
  <1>10. DecidedFrom(out, rec, verdict, number, now)
    BY <1>1, <1>6, <1>8, <1>9 DEF DecidedFrom, Whole, evaluation, event, row
  <1> QED
    BY <1>10 DEF out

\* An update changes the evaluation and the timeline.
EvaluatedFrom(out, rec, update, now) ==
    LET old == EvaluationFor(rec, now)
    IN  /\ Whole(out)
        /\ SameFields(out, rec, FieldNames \ {"evaluation", "timeline"})
        /\ out.evaluation \in EvaluationValues
        /\ out.evaluation.final = old.final
        /\ out.evaluation.created = old.created
        /\ out.evaluation.outcome = IF update.outcome = Nil THEN old.outcome
                                    ELSE update.outcome
        /\ out.evaluation.incident = IF update.incident = Nil THEN old.incident
                                     ELSE update.incident
        /\ out.evaluation = [old EXCEPT !.outcome = out.evaluation.outcome,
                                        !.incident = out.evaluation.incident]
        /\ out.timeline =
             Append(rec.timeline, Event(rec.status, "evaluation", now))

LEMMA EvaluatedFields ==
    ASSUME NEW rec, Whole(rec), NEW update \in Updates, NEW now \in Int
    PROVE  EvaluatedFrom(EvaluatedDraft(rec, update, now), rec, update, now)
  <1> DEFINE out == EvaluatedDraft(rec, update, now)
             old == EvaluationFor(rec, now)
             o == IF update.outcome = Nil THEN old.outcome ELSE update.outcome
             i == IF update.incident = Nil THEN old.incident
                  ELSE update.incident
             evaluation == [old EXCEPT !.outcome = o, !.incident = i]
             event == Event(rec.status, "evaluation", now)
  <1>1. old \in EvaluationValues
    BY DEF Whole, Historied, EvaluationFor, NewEvaluation, EvaluationValues
  <1>2. update \in [outcome : Outcomes \cup {Nil}, incident : BOOLEAN \cup {Nil}]
    BY SystemAssumption
  <1>3. o \in Outcomes \cup {Nil} /\ i \in BOOLEAN \cup {Nil}
    BY <1>1, <1>2 DEF EvaluationValues
  <1>4. event \in Events
    BY DEF Whole, Historied, Event, Events, Origins
  <1>5. /\ Append(rec.timeline, event) \in Seq(Events)
        /\ Append(rec.timeline, event) # <<>>
    BY <1>4, Appending DEF Whole, Historied
  <1>. out = [rec EXCEPT !.evaluation = evaluation,
                         !.timeline = Append(rec.timeline, event)]
    BY DEF EvaluatedDraft
  <1> HIDE DEF out, old, o, i, event
  <1>6. /\ evaluation \in EvaluationValues
        /\ evaluation.final = old.final
        /\ evaluation.created = old.created
        /\ evaluation.outcome = o
        /\ evaluation.incident = i
    BY <1>1, <1>3 DEF EvaluationValues
  <1>7. evaluation = [old EXCEPT !.outcome = evaluation.outcome,
                                 !.incident = evaluation.incident]
    BY <1>6
  <1> HIDE DEF evaluation
  <1>8. /\ IsRecord(out)
        /\ SameFields(out, rec, FieldNames \ {"evaluation", "timeline"})
        /\ out.evaluation = evaluation
        /\ out.timeline = Append(rec.timeline, event)
    BY DEF Whole, IsRecord, FieldNames, SameFields
  <1>9. /\ SameFields(out, rec, IdentityNames)
        /\ SameFields(out, rec, AssessmentNames)
        /\ SameFields(out, rec, {"status", "decisions"})
    BY <1>8 DEF SameFields, FieldNames, IdentityNames, AssessmentNames
  <1>10. Identified(out) /\ Assessed(out)
    BY <1>9, IdentityKept, AssessmentKept DEF Whole
  <1>11. Historied(out)
    BY <1>5, <1>6, <1>8, <1>9 DEF Whole, Historied, SameFields
  <1>12. Whole(out)
    BY <1>8, <1>10, <1>11 DEF Whole
  <1>13. EvaluatedFrom(out, rec, update, now)
    BY <1>6, <1>7, <1>8, <1>12 DEF EvaluatedFrom, event, old, o, i
  <1> QED
    BY <1>13 DEF out

\* The path of a pipeline, and the events it leaves.
LEMMA PathFacts ==
    ASSUME NEW human \in BOOLEAN
    PROVE  LET path == PipelinePath(human)
           IN  /\ path \in Seq(Statuses)
               /\ path # <<>>
               /\ LastOf(path) = IF human THEN "WAITING_HUMAN_REVIEW"
                                 ELSE "RECOMMENDED"
               /\ LastOf(path) \in Statuses
  <1>1. CASE human
    BY <1>1 DEF PipelinePath, Statuses, LastOf
  <1>2. CASE ~human
    BY <1>2 DEF PipelinePath, Statuses, LastOf
  <1> QED
    BY <1>1, <1>2

PipelineEvents(human, now) ==
    LET path == PipelinePath(human)
    IN  [i \in DOMAIN path |-> Event(path[i], "pipeline", now)]

LEMMA PipelineEventFacts ==
    ASSUME NEW human \in BOOLEAN, NEW now \in Int
    PROVE  LET events == PipelineEvents(human, now)
           IN  /\ events \in Seq(Events)
               /\ events # <<>>
               /\ Len(events) = Len(PipelinePath(human))
               /\ \A i \in 1 .. Len(events) :
                    events[i] = Event(PipelinePath(human)[i], "pipeline", now)
               /\ LastOf(events) =
                    Event(LastOf(PipelinePath(human)), "pipeline", now)
  <1> DEFINE path == PipelinePath(human)
             events == PipelineEvents(human, now)
  <1>1. /\ path \in Seq(Statuses)
        /\ path # <<>>
    BY PathFacts
  <1>2. events = [i \in DOMAIN path |-> Event(path[i], "pipeline", now)]
    BY DEF PipelineEvents
  <1> HIDE DEF path, events
  <1>3. /\ Len(path) \in Nat \ {0}
        /\ DOMAIN path = 1 .. Len(path)
        /\ \A i \in 1 .. Len(path) : path[i] \in Statuses
    BY <1>1, EmptySeq, LenProperties
  <1>4. \A i \in 1 .. Len(path) : Event(path[i], "pipeline", now) \in Events
    BY <1>3 DEF Event, Events, Origins
  <1>5. /\ events \in [1 .. Len(path) -> Events]
        /\ \A i \in 1 .. Len(path) :
             events[i] = Event(path[i], "pipeline", now)
    BY <1>2, <1>3, <1>4
  <1>6. /\ events \in Seq(Events)
        /\ Len(events) = Len(path)
    BY <1>3, <1>5
  <1>7. events # <<>>
    BY <1>3, <1>6, EmptySeq
  <1> QED
    BY <1>3, <1>5, <1>6, <1>7 DEF path, events, LastOf

\* The last of two joined sequences.
LEMMA Joining ==
    ASSUME NEW S, NEW s \in Seq(S), NEW t \in Seq(S), t # <<>>
    PROVE  /\ s \o t \in Seq(S)
           /\ s \o t # <<>>
           /\ Len(s \o t) = Len(s) + Len(t)
           /\ LastOf(s \o t) = LastOf(t)
  <1>1. /\ s \o t \in Seq(S)
        /\ Len(s) \in Nat
        /\ Len(t) \in Nat \ {0}
        /\ Len(s \o t) = Len(s) + Len(t)
        /\ \A i \in 1 .. Len(s) + Len(t) :
             (s \o t)[i] = IF i <= Len(s) THEN s[i] ELSE t[i - Len(s)]
    BY ConcatProperties, LenProperties, EmptySeq
  <1>2. (s \o t)[Len(s) + Len(t)] = t[Len(t)]
    BY <1>1
  <1> QED
    BY <1>1, <1>2, EmptySeq DEF LastOf

\* What the pipeline raises is finite, so it draws a number of identifiers.
LEMMA RulesFinite ==
    ASSUME NEW c
    PROVE  IsFiniteSet(RuleSignals(c))
  <1>1. \A condition, s : IsFiniteSet(When(condition, s))
    BY FS_EmptySet, FS_Singleton DEF When
  <1> DEFINE a == {SourceSignal(c.source)}
             b == When(c.environment # "other",
                       Signal("production_release", "HIGH", 20))
             d == When(c.critical, Signal("core_path_modified", "HIGH", 18))
             e == When(c.auth, Signal("auth_logic_changed", "HIGH", 18))
             f == When(c.sensitive,
                       Signal("sensitive_artifact_changed", "MEDIUM", 12))
  <1>2. IsFiniteSet(a)
    BY FS_Singleton
  <1>3. IsFiniteSet(b) /\ IsFiniteSet(d) /\ IsFiniteSet(e) /\ IsFiniteSet(f)
    BY <1>1
  <1>4. RuleSignals(c) = a \cup b \cup d \cup e \cup f
    BY DEF RuleSignals
  <1> HIDE DEF a, b, d, e, f
  <1>5. IsFiniteSet(a \cup b)
    BY <1>2, <1>3, FS_Union
  <1>6. IsFiniteSet(a \cup b \cup d)
    BY <1>3, <1>5, FS_Union
  <1>7. IsFiniteSet(a \cup b \cup d \cup e)
    BY <1>3, <1>6, FS_Union
  <1>8. IsFiniteSet(a \cup b \cup d \cup e \cup f)
    BY <1>3, <1>7, FS_Union
  <1> QED
    BY <1>4, <1>8

LEMMA MergeFinite ==
    ASSUME NEW signals, IsFiniteSet(signals),
           NEW S, NEW suggestions \in Seq(S)
    PROVE  IsFiniteSet(Merge(signals, suggestions))
  <1> DEFINE I == {k \in FirstOfName(suggestions) :
                     \A s \in signals : s.name # suggestions[k].name}
             f == [i \in I |->
                     Signal(suggestions[i].name, suggestions[i].severity,
                            DeltaOf(suggestions[i].severity))]
             added == {f[i] : i \in I}
  <1>1. /\ DOMAIN suggestions = 1 .. Len(suggestions)
        /\ Len(suggestions) \in Nat
    BY LenProperties
  <1>2. IsFiniteSet(I)
    <2>1. IsFiniteSet(1 .. Len(suggestions))
      BY <1>1, FS_Interval
    <2>2. I \in SUBSET (1 .. Len(suggestions))
      BY <1>1 DEF FirstOfName
    <2> HIDE DEF I
    <2> QED
      BY <2>1, <2>2, FS_Subset
  <1>3. f \in Surjection(I, added)
    BY DEF Surjection
  <1>4. IsFiniteSet(added)
    BY <1>2, <1>3, FS_Surjection
  <1>5. Merge(signals, suggestions) = signals \cup added
    BY DEF Merge
  <1> HIDE DEF added
  <1> QED
    BY <1>4, <1>5, FS_Union

LEMMA DrawnIsNumber ==
    ASSUME NEW req \in ReviewRequests
    PROVE  /\ EvidenceDrawn(req) \in Nat \ {0}
           /\ Drawn(req) \in Nat
           /\ EvidenceDrawn(req) <= Drawn(req)
  <1> DEFINE c == ChangeOf(req)
             suggestions == Heuristic(c).suggestions
             raised == Assess(c).raised
  <1>1. EvidenceDrawn(req) \in Nat \ {0}
    BY DEF EvidenceDrawn, ReviewRequests
  <1>2. suggestions \in Seq([name : {"llm_auth_path_concern",
                                    "llm_sensitive_artifact_concern"},
                            severity : {"HIGH", "MEDIUM"}])
    <2> DEFINE S == [name : {"llm_auth_path_concern",
                             "llm_sensitive_artifact_concern"},
                     severity : {"HIGH", "MEDIUM"}]
               a == [name |-> "llm_auth_path_concern", severity |-> "HIGH"]
               b == [name |-> "llm_sensitive_artifact_concern",
                     severity |-> "MEDIUM"]
    <2>1. a \in S /\ b \in S
      OBVIOUS
    <2>2. suggestions = (IF c.auth THEN <<a>> ELSE <<>>)
                          \o (IF c.sensitive THEN <<b>> ELSE <<>>)
      BY DEF Heuristic
    <2> HIDE DEF S, a, b, c, suggestions
    <2>3. \A p, q \in Seq(S) : p \o q \in Seq(S)
      BY ConcatProperties
    <2>4. <<a>> \in Seq(S) /\ <<b>> \in Seq(S) /\ <<>> \in Seq(S)
      BY <2>1
    <2>5. suggestions \in Seq(S)
      BY <2>2, <2>3, <2>4
    <2> QED
      BY <2>5 DEF S
  <1>3. raised = Merge(RuleSignals(c), suggestions)
    BY DEF Assess
  <1> HIDE DEF suggestions, raised, c
  <1>4. IsFiniteSet(raised)
    BY <1>2, <1>3, RulesFinite, MergeFinite
  <1>5. Cardinality(raised) \in Nat
    BY <1>4, FS_CardinalityType
  <1>6. Drawn(req) = EvidenceDrawn(req) + Cardinality(raised)
    BY DEF Drawn, raised, c
  <1> QED
    BY <1>1, <1>5, <1>6

\* The tags and the assessment of a request.
LEMMA TagsType ==
    ASSUME NEW req \in ReviewRequests
    PROVE  [tags |-> Tags(req)] \in Understandings
  <1> DEFINE c == ChangeOf(req)
             derived ==
               When(c.source = "sql_migration", "schema_change")
                 \cup When(c.source = "k8s_diff", "runtime_config_changed")
                 \cup When(c.source = "gateway_config", "traffic_routing_changed")
                 \cup When(c.source \in {"pull_request", "terraform_plan"},
                           "application_code_change")
                 \cup When(c.critical, "core_path_modified")
                 \cup When(c.auth, "auth_logic_changed")
                 \cup When(c.sensitive, "sensitive_artifact_changed")
  <1>1. derived \subseteq TagNames
    <2> HIDE DEF c
    <2> QED
      BY DEF TagNames, When
  <1>2. ChangeType(req) \in Text
    <2>1. <<"pull_request">> \in Text
      BY LiteralsAssumption DEF Text
    <2>2. req.source \in Text
      BY DEF ReviewRequests
    <2> QED
      BY <2>1, <2>2 DEF ChangeType
  <1>3. Tags(req) = {ChangeType(req)} \cup {<<tag>> : tag \in derived}
    BY DEF Tags
  <1> HIDE DEF derived
  <1>4. Tags(req) \in SUBSET (Text \cup {<<tag>> : tag \in TagNames})
    BY <1>1, <1>2, <1>3
  <1> QED
    BY <1>4 DEF Understandings

LEMMA AssessType ==
    ASSUME NEW c
    PROVE  LET result == Assess(c).result
           IN  /\ result = [score      |-> result.score,
                            level      |-> result.level,
                            confidence |-> result.confidence,
                            human      |-> result.human]
               /\ result.human \in BOOLEAN
  <1> DEFINE scored == ScoreReview(Assess(c).raised)
             result == Assess(c).result
  <1>1. result = ApplyAnalysis(scored, Heuristic(c))
    BY DEF Assess
  <1>2. scored = [f \in {"score", "level", "confidence", "human"} |->
                    scored[f]]
    BY DEF ScoreReview
  <1>3. scored.human \in BOOLEAN
    BY DEF ScoreReview
  <1> HIDE DEF scored
  <1>4. /\ result = [f \in {"score", "level", "confidence", "human"} |->
                       result[f]]
        /\ result.human = (scored.human \/ Heuristic(c).human)
    BY <1>1, <1>2 DEF ApplyAnalysis
  <1>5. result.human \in BOOLEAN
    BY <1>4
  <1> HIDE DEF result
  <1>6. result = [score |-> result.score, level |-> result.level,
                  confidence |-> result.confidence, human |-> result.human]
    BY <1>4
  <1> QED
    BY <1>5, <1>6 DEF result

\* A pipeline writes the assessment, the status and the timeline.
Processed(out, rec, req, counter, now) ==
    LET human == out.result.human
    IN  /\ Whole(out)
        /\ SameFields(out, rec,
             FieldNames \ ({"status", "timeline"} \cup AssessmentNames))
        /\ out.status = IF human THEN "WAITING_HUMAN_REVIEW"
                        ELSE "RECOMMENDED"
        /\ out.timeline = rec.timeline \o PipelineEvents(human, now)
        /\ out.result = Assess(ChangeOf(req)).result
        /\ out.understanding = [tags |-> Tags(req)]
        /\ out.evidence.numbers =
             counter + 1 .. counter + EvidenceDrawn(req)
        /\ out.signals.numbers =
             counter + EvidenceDrawn(req) + 1 .. counter + Drawn(req)
        /\ out.evidence = [numbers |-> out.evidence.numbers]
        /\ out.signals = [numbers |-> out.signals.numbers,
                          raised  |-> Assess(ChangeOf(req)).raised]
        /\ out.recommendation =
             [reviewers |-> Assess(ChangeOf(req)).reviewers,
              version   |-> req.base]

LEMMA ProcessedFields ==
    ASSUME NEW rec, IsRecord(rec), Identified(rec), Historied(rec),
           NEW req \in ReviewRequests, NEW counter \in Nat, NEW now \in Int
    PROVE  Processed(ProcessedFrom(rec, req, counter, now), rec, req, counter,
                     now)
  <1> DEFINE c == ChangeOf(req)
             a == Assess(c)
             tags == [tags |-> Tags(req)]
             numbers == counter + 1 .. counter + EvidenceDrawn(req)
             others == counter + EvidenceDrawn(req) + 1 .. counter + Drawn(req)
             events == PipelineEvents(a.result.human, now)
             status == LastOf(PipelinePath(a.result.human))
             out == ProcessedFrom(rec, req, counter, now)
  <1>1. /\ a.result = [score      |-> a.result.score,
                       level      |-> a.result.level,
                       confidence |-> a.result.confidence,
                       human      |-> a.result.human]
        /\ a.result.human \in BOOLEAN
    BY AssessType
  <1>2. tags \in Understandings
    BY TagsType
  <1>3. numbers \in SUBSET Int /\ others \in SUBSET Int
    BY DrawnIsNumber
  <1>4. /\ status = IF a.result.human THEN "WAITING_HUMAN_REVIEW"
                    ELSE "RECOMMENDED"
        /\ status \in Statuses
    BY <1>1, PathFacts
  <1>5. /\ events \in Seq(Events)
        /\ events # <<>>
    BY <1>1, PipelineEventFacts
  <1>. out = [rec EXCEPT
                !.understanding = tags,
                !.evidence = [numbers |-> numbers],
                !.signals = [numbers |-> others, raised |-> a.raised],
                !.result = a.result,
                !.recommendation = [reviewers |-> a.reviewers,
                                    version |-> req.base],
                !.status = status,
                !.timeline = rec.timeline \o events]
    BY DEF ProcessedFrom, PipelineEvents
  <1>6. req.base \in Text
    BY DEF ReviewRequests
  <1> HIDE DEF out, events, status, numbers, others, tags, a, c
  <1>7. /\ IsRecord(out)
        /\ SameFields(out, rec,
             FieldNames \ ({"status", "timeline"} \cup AssessmentNames))
        /\ out.status = status
        /\ out.timeline = rec.timeline \o events
        /\ out.result = a.result
        /\ out.understanding = tags
        /\ out.evidence = [numbers |-> numbers]
        /\ out.signals = [numbers |-> others, raised |-> a.raised]
        /\ out.recommendation = [reviewers |-> a.reviewers,
                                 version |-> req.base]
    BY DEF IsRecord, FieldNames, SameFields, AssessmentNames
  <1>8. /\ SameFields(out, rec, IdentityNames)
        /\ SameFields(out, rec, {"decisions", "evaluation"})
    BY <1>7 DEF SameFields, FieldNames, IdentityNames, AssessmentNames
  <1>9. Identified(out)
    BY <1>8, IdentityKept
  <1>10. Assessed(out)
    BY <1>1, <1>2, <1>3, <1>6, <1>7 DEF Assessed
  <1>11. Historied(out)
    <2>1. /\ rec.timeline \o events \in Seq(Events)
          /\ rec.timeline \o events # <<>>
      BY <1>5, Joining DEF Historied
    <2> QED
      BY <1>4, <1>7, <1>8, <2>1 DEF Historied, SameFields
  <1>12. Whole(out)
    BY <1>7, <1>9, <1>10, <1>11 DEF Whole
  <1>13. /\ out.evidence.numbers = numbers
         /\ out.signals.numbers = others
         /\ out.evidence = [numbers |-> out.evidence.numbers]
         /\ out.signals = [numbers |-> out.signals.numbers,
                           raised  |-> a.raised]
         /\ out.status = IF out.result.human THEN "WAITING_HUMAN_REVIEW"
                         ELSE "RECOMMENDED"
         /\ out.result.human = a.result.human
    BY <1>4, <1>7
  <1>14. out.timeline = rec.timeline \o PipelineEvents(out.result.human, now)
    BY <1>7, <1>13 DEF events
  <1>15. /\ out.result = Assess(ChangeOf(req)).result
         /\ out.understanding = [tags |-> Tags(req)]
         /\ out.recommendation =
              [reviewers |-> Assess(ChangeOf(req)).reviewers,
               version   |-> req.base]
         /\ out.signals = [numbers |-> out.signals.numbers,
                           raised  |-> Assess(ChangeOf(req)).raised]
    BY <1>7, <1>13 DEF tags, a, c
  <1>16. /\ out.evidence.numbers =
              counter + 1 .. counter + EvidenceDrawn(req)
         /\ out.signals.numbers =
              counter + EvidenceDrawn(req) + 1 .. counter + Drawn(req)
    BY <1>13 DEF numbers, others

  <1> QED
    BY <1>7, <1>12, <1>13, <1>14, <1>15, <1>16 DEF out, Processed

LEMMA EmptyText == Empty \in Text
  BY DEF Empty, Text

\* The request a retry runs the pipeline on.
LEMMA RequestFromRecordType ==
    ASSUME NEW rec, Whole(rec)
    PROVE  /\ RequestFromRecord(rec) \in ReviewRequests
           /\ RequestFromRecord(rec).base =
                IF rec.request # Nil THEN rec.request.base
                ELSE rec.recommendation.version
  BY EmptyText DEF Whole, Identified, Assessed, RequestFromRecord,
                   ReviewRequests

\* A retry keeps the identity, the decisions and the evaluation.
RetriedFrom(out, rec, counter, now) ==
    LET req == RequestFromRecord(rec)
        human == out.result.human
    IN  /\ Whole(out)
        /\ SameFields(out, rec, IdentityNames)
        /\ SameFields(out, rec, {"decisions", "evaluation"})
        /\ out.error = ""
        /\ out.status = IF human THEN "WAITING_HUMAN_REVIEW"
                        ELSE "RECOMMENDED"
        /\ out.timeline = Append(rec.timeline, Event("CREATED", "retry", now))
                            \o PipelineEvents(human, now)
        /\ out.result = Assess(ChangeOf(req)).result
        /\ out.understanding = [tags |-> Tags(req)]
        /\ out.evidence.numbers =
             counter + 1 .. counter + EvidenceDrawn(req)
        /\ out.signals.numbers =
             counter + EvidenceDrawn(req) + 1 .. counter + Drawn(req)
        /\ out.evidence = [numbers |-> out.evidence.numbers]
        /\ out.signals = [numbers |-> out.signals.numbers,
                          raised  |-> Assess(ChangeOf(req)).raised]
        /\ out.recommendation =
             [reviewers |-> Assess(ChangeOf(req)).reviewers,
              version   |-> req.base]

LEMMA RetriedFields ==
    ASSUME NEW rec, Whole(rec), NEW counter \in Nat, NEW now \in Int
    PROVE  RetriedFrom(RetriedDraft(rec, counter, now), rec, counter, now)
  <1> DEFINE reset == Reset(rec, now)
             event == Event("CREATED", "retry", now)
             out == RetriedDraft(rec, counter, now)
             req == RequestFromRecord(rec)
  <1>1. event \in Events
    BY DEF Event, Events, Origins, Statuses
  <1>2. /\ Append(rec.timeline, event) \in Seq(Events)
        /\ Append(rec.timeline, event) # <<>>
    BY <1>1, Appending DEF Whole, Historied
  <1> HIDE DEF event
  <1>3. /\ IsRecord(reset)
        /\ SameFields(reset, rec, IdentityNames)
        /\ SameFields(reset, rec, {"decisions", "evaluation"})
        /\ reset.status = "CREATED"
        /\ reset.error = ""
        /\ reset.timeline = Append(rec.timeline, event)
    BY DEF Whole, IsRecord, SameFields, IdentityNames, FieldNames, Reset,
           event
  <1> HIDE DEF reset
  <1>4. Identified(reset)
    BY <1>3, IdentityKept DEF Whole
  <1>5. Historied(reset)
    BY <1>2, <1>3 DEF Whole, Historied, SameFields, Statuses
  <1>6. req \in ReviewRequests
    BY RequestFromRecordType
  <1>7. out = ProcessedFrom(reset, req, counter, now)
    BY DEF RetriedDraft, reset
  <1> HIDE DEF req, out
  <1>8. Processed(out, reset, req, counter, now)
    <2>1. Processed(ProcessedFrom(reset, req, counter, now), reset, req,
                    counter, now)
      BY <1>3, <1>4, <1>5, <1>6, ProcessedFields
    <2> QED
      BY <1>7, <2>1
  <1>9. /\ SameFields(out, rec, IdentityNames)
        /\ SameFields(out, rec, {"decisions", "evaluation"})
        /\ out.error = ""
        /\ out.timeline = Append(rec.timeline, event)
                            \o PipelineEvents(out.result.human, now)
    BY <1>3, <1>8 DEF SameFields, FieldNames, IdentityNames, AssessmentNames,
                      Processed
  <1>10. RetriedFrom(out, rec, counter, now)
    BY <1>8, <1>9 DEF RetriedFrom, Processed, req, event
  <1> QED
    BY <1>10 DEF out

\* The key of a request, and of a review made for it.
LEMMA KeyType ==
    ASSUME NEW req \in ReviewRequests
    PROVE  dedupeKeyFor(req) \in Text
  <1>1. /\ req.key \in Text /\ req.source \in Text /\ req.change \in Text
        /\ req.head \in Text /\ req.environment \in Text
    BY DEF ReviewRequests
  <1>2. Lower(Join4(req.source, req.change, req.head, req.environment)) \in Text
    BY <1>1, LowerFour, LowerType
  <1> QED
    BY <1>1, <1>2, EmptyText DEF dedupeKeyFor

\* A create makes a record of the request.
CreatedFrom(out, req, counter, now) ==
    LET human == out.result.human
    IN  /\ Whole(out)
        /\ out.id = counter + 1
        /\ out.task = counter + 2
        /\ out.change = req.change
        /\ out.key = dedupeKeyFor(req)
        /\ out.created = now
        /\ out.request = req
        /\ out.decisions = <<>>
        /\ out.evaluation = NewEvaluation(now)
        /\ out.evaluation \in EvaluationValues
        /\ out.error = ""
        /\ out.status = IF human THEN "WAITING_HUMAN_REVIEW"
                        ELSE "RECOMMENDED"
        /\ out.timeline = <<Event("CREATED", "service", now)>>
                            \o PipelineEvents(human, now)
        /\ out.result = Assess(ChangeOf(req)).result
        /\ out.understanding = [tags |-> Tags(req)]
        /\ out.evidence.numbers =
             counter + 3 .. counter + 2 + EvidenceDrawn(req)
        /\ out.signals.numbers =
             counter + 3 + EvidenceDrawn(req) .. counter + 2 + Drawn(req)
        /\ out.recommendation =
             [reviewers |-> Assess(ChangeOf(req)).reviewers,
              version   |-> req.base]

LEMMA CreatedFields ==
    ASSUME NEW req \in ReviewRequests, NEW counter \in Nat, NEW now \in Int
    PROVE  CreatedFrom(CreatedDraft(req, counter, now), req, counter, now)
  <1> DEFINE new == NewReview(req, dedupeKeyFor(req), counter, now)
             event == Event("CREATED", "service", now)
             out == CreatedDraft(req, counter, now)
  <1>1. event \in Events
    BY DEF Event, Events, Origins, Statuses
  <1>2. /\ <<event>> \in Seq(Events)
        /\ <<event>> # <<>>
    <2> HIDE DEF event
    <2> QED
      BY <1>1
  <1>3. NewEvaluation(now) \in EvaluationValues
    BY DEF NewEvaluation, EvaluationValues
  <1>4. dedupeKeyFor(req) \in Text
    BY KeyType
  <1> HIDE DEF event
  <1>5. /\ IsRecord(new)
        /\ new.id = counter + 1 /\ new.task = counter + 2
        /\ new.change = req.change /\ new.key = dedupeKeyFor(req)
        /\ new.source = req.source /\ new.names = req.names
        /\ new.environment = req.environment
        /\ new.status = "CREATED"
        /\ new.created = now
        /\ new.request = req
        /\ new.timeline = <<event>>
        /\ new.decisions = <<>>
        /\ new.evaluation = NewEvaluation(now)
        /\ new.error = ""
    <2> DEFINE key == dedupeKeyFor(req)
               evaluation == NewEvaluation(now)
               timeline == <<event>>
               nothing == [numbers |-> {}]
               silent == [numbers |-> {}, raised |-> {}]
               unplanned == [reviewers |-> {}, version |-> Empty]
    <2>1. new = [id |-> counter + 1, task |-> counter + 2,
                 change |-> req.change, key |-> key, source |-> req.source,
                 names |-> req.names, environment |-> req.environment,
                 status |-> "CREATED", result |-> NoResult, created |-> now,
                 request |-> req, understanding |-> Nil,
                 evidence |-> nothing, signals |-> silent,
                 recommendation |-> unplanned,
                 timeline |-> timeline, decisions |-> <<>>,
                 evaluation |-> evaluation, error |-> ""]
      BY DEF NewReview, event
    <2> HIDE DEF new, key, evaluation, timeline, nothing, silent, unplanned
    <2>2. /\ new.id = counter + 1 /\ new.task = counter + 2
          /\ new.change = req.change /\ new.key = key
          /\ new.source = req.source /\ new.names = req.names
          /\ new.environment = req.environment
          /\ new.status = "CREATED"
          /\ new.created = now
          /\ new.request = req
          /\ new.timeline = timeline
          /\ new.decisions = <<>>
          /\ new.evaluation = evaluation
          /\ new.error = ""
      BY <2>1
    <2>3. IsRecord(new)
      <3>1. DOMAIN new = FieldNames
        BY <2>1 DEF FieldNames
      <3>2. new = [f \in DOMAIN new |-> new[f]]
        BY <2>1
      <3> QED
        BY <3>1, <3>2 DEF IsRecord
    <2> QED
      BY <2>2, <2>3 DEF key, evaluation, timeline
  <1> HIDE DEF new
  <1>6. Identified(new)
    <2>1. /\ req.change \in Text /\ req.source \in Text
          /\ req.environment \in Text /\ req.names \in SUBSET STRING
      BY DEF ReviewRequests
    <2>2. counter + 1 \in Int /\ counter + 2 \in Int
      OBVIOUS
    <2> QED
      BY <1>4, <1>5, <2>1, <2>2 DEF Identified
  <1>7. Historied(new)
    <2>1. <<>> \in Seq(DecisionRows)
      OBVIOUS
    <2> QED
      BY <1>2, <1>3, <1>5, <2>1 DEF Historied, Statuses
  <1>8. out = ProcessedFrom(new, req, counter + 2, now)
    BY DEF CreatedDraft, new
  <1>9. counter + 2 \in Nat
    OBVIOUS
  <1> HIDE DEF out
  <1>10. Processed(out, new, req, counter + 2, now)
    <2>1. Processed(ProcessedFrom(new, req, counter + 2, now), new, req,
                    counter + 2, now)
      BY <1>5, <1>6, <1>7, <1>9, ProcessedFields
    <2> QED
      BY <1>8, <2>1
  <1>11. /\ SameFields(out, new,
             {"id", "task", "change", "key", "created", "request", "decisions",
              "evaluation", "error"})
         /\ out.timeline = <<event>> \o PipelineEvents(out.result.human, now)
    BY <1>5, <1>10 DEF SameFields, FieldNames, AssessmentNames, Processed
  <1>12. /\ counter + 2 + 1 = counter + 3
         /\ counter + 2 + EvidenceDrawn(req) + 1
              = counter + 3 + EvidenceDrawn(req)
    BY DrawnIsNumber
  <1>13. CreatedFrom(out, req, counter, now)
    <2>1. /\ out.evidence.numbers =
               counter + 3 .. counter + 2 + EvidenceDrawn(req)
          /\ out.signals.numbers =
               counter + 3 + EvidenceDrawn(req) .. counter + 2 + Drawn(req)
      BY <1>10, <1>12 DEF Processed
    <2> QED
      BY <1>3, <1>5, <1>10, <1>11, <2>1 DEF SameFields, Processed, CreatedFrom,
                                            event
  <1> QED
    BY <1>13 DEF out
-----------------------------------------------------------------------------
(***************************************************************************)
(* The order in which PostgresStore reads rows back.                       *)
(***************************************************************************)

\* What a table of rows with times holds.
Timed(rows) == \A i \in DOMAIN rows : rows[i].at \in Int

Ascending(rows) ==
    \A i, j \in DOMAIN rows : i <= j => rows[i].at <= rows[j].at

Preceding(rows, i) == {j \in DOMAIN rows : Before(rows, j, i)}

LEMMA BeforeIsTotal ==
    ASSUME NEW S, NEW rows \in Seq(S), Timed(rows),
           NEW i \in DOMAIN rows, NEW k \in DOMAIN rows
    PROVE  /\ Before(rows, i, i)
           /\ Before(rows, i, k) \/ Before(rows, k, i)
           /\ Before(rows, i, k) /\ Before(rows, k, i) => i = k
           /\ \A j \in DOMAIN rows :
                Before(rows, j, i) /\ Before(rows, i, k) => Before(rows, j, k)
  <1>1. DOMAIN rows = 1 .. Len(rows) /\ Len(rows) \in Nat
    BY LenProperties
  <1>2. \A j \in DOMAIN rows : j \in Int /\ rows[j].at \in Int
    BY <1>1 DEF Timed
  <1> QED
    BY <1>2 DEF Before

\* Every row of a sequence has a rank of its own, and every rank its row.
LEMMA Ranks ==
    ASSUME NEW S, NEW rows \in Seq(S), Timed(rows)
    PROVE  LET D == DOMAIN rows
               rank == [i \in D |-> Cardinality(Preceding(rows, i))]
           IN  /\ rank \in [D -> D]
               /\ \A i, k \in D : rank[i] = rank[k] => i = k
               /\ \A n \in D : \E i \in D : rank[i] = n
  <1> DEFINE D == DOMAIN rows
             rank == [i \in D |-> Cardinality(Preceding(rows, i))]
  <1>1. D = 1 .. Len(rows) /\ Len(rows) \in Nat
    BY LenProperties
  <1>2. IsFiniteSet(D) /\ Cardinality(D) = Len(rows)
    BY <1>1, FS_Interval
  <1>3. \A i \in D : /\ IsFiniteSet(Preceding(rows, i))
                     /\ Cardinality(Preceding(rows, i)) \in D
    <2> TAKE i \in D
    <2>1. Preceding(rows, i) \in SUBSET D
      BY DEF Preceding
    <2>2. i \in Preceding(rows, i)
      BY BeforeIsTotal DEF Preceding
    <2> HIDE DEF D
    <2>3. /\ IsFiniteSet(Preceding(rows, i))
          /\ Cardinality(Preceding(rows, i)) <= Len(rows)
      BY <1>2, <2>1, FS_Subset
    <2>4. Cardinality(Preceding(rows, i)) \in Nat
      BY <2>3, FS_CardinalityType
    <2>5. Cardinality(Preceding(rows, i)) # 0
      BY <2>2, <2>3, FS_EmptySet
    <2> QED
      BY <1>1, <2>3, <2>4, <2>5
  <1>4. \A i, k \in D : Before(rows, i, k) /\ i # k => rank[i] # rank[k]
    <2> SUFFICES ASSUME NEW i \in D, NEW k \in D, Before(rows, i, k), i # k,
                        Cardinality(Preceding(rows, i))
                          = Cardinality(Preceding(rows, k))
                 PROVE  FALSE
      OBVIOUS
    <2>1. Preceding(rows, i) \in SUBSET Preceding(rows, k)
      BY BeforeIsTotal DEF Preceding
    <2>2. Preceding(rows, k) = Preceding(rows, i)
      BY <1>3, <2>1, FS_Subset
    <2>3. k \in Preceding(rows, k) /\ k \notin Preceding(rows, i)
      BY BeforeIsTotal DEF Preceding
    <2> QED
      BY <2>2, <2>3
  <1>5. /\ rank \in [D -> D]
        /\ \A i, k \in D : rank[i] = rank[k] => i = k
    BY <1>3, <1>4, BeforeIsTotal
  <1> HIDE DEF rank, D
  <1>6. rank \in Injection(D, D)
    BY <1>5 DEF Injection, IsInjective
  <1>7. rank \in Surjection(D, D)
    BY <1>2, <1>6, FS_Injection
  <1>8. \A n \in D : \E i \in D : rank[i] = n
    BY <1>7 DEF Surjection
  <1> QED
    BY <1>5, <1>8 DEF rank, D

\* Reading rows back in order permutes them.
LEMMA InOrderPermutes ==
    ASSUME NEW S, NEW rows \in Seq(S), Timed(rows)
    PROVE  /\ InOrder(rows) \in Seq(S)
           /\ Len(InOrder(rows)) = Len(rows)
           /\ Timed(InOrder(rows))
           /\ {InOrder(rows)[n] : n \in DOMAIN InOrder(rows)}
                = {rows[i] : i \in DOMAIN rows}
  <1> DEFINE D == DOMAIN rows
             place == [n \in D |-> CHOOSE i \in D :
                                     Cardinality(Preceding(rows, i)) = n]
             rank == [i \in D |-> Cardinality(Preceding(rows, i))]
             out == InOrder(rows)
  <1>1. D = 1 .. Len(rows) /\ Len(rows) \in Nat /\ rows \in [D -> S]
    BY LenProperties
  <1>2. /\ rank \in [D -> D]
        /\ \A i, k \in D : rank[i] = rank[k] => i = k
        /\ \A n \in D : \E i \in D : rank[i] = n
    BY Ranks
  <1>3. out = [n \in D |-> rows[place[n]]]
    BY DEF InOrder, Preceding
  <1>4. place = [n \in D |-> CHOOSE i \in D : rank[i] = n]
    OBVIOUS
  <1> HIDE DEF D, place, out, rank
  <1>5. /\ \A n \in D : place[n] \in D
        /\ \A i \in D : rank[i] \in D /\ place[rank[i]] = i
    BY <1>2, <1>4
  <1>6. out \in [1 .. Len(rows) -> S]
    BY <1>1, <1>5, <1>3
  <1>7. out \in Seq(S) /\ Len(out) = Len(rows) /\ DOMAIN out = D
    BY <1>1, <1>6
  <1>8. Timed(out)
    BY <1>5, <1>3, <1>7 DEF Timed, D
  <1>9. {out[n] : n \in DOMAIN out} = {rows[i] : i \in D}
    BY <1>5, <1>3, <1>7
  <1> QED
    BY <1>7, <1>8, <1>9 DEF out, D

\* Rows in the order of their times are read back as they are.
LEMMA InOrderKeeps ==
    ASSUME NEW S, NEW rows \in Seq(S), Timed(rows), Ascending(rows)
    PROVE  InOrder(rows) = rows
  <1> DEFINE D == DOMAIN rows
             rank == [i \in D |-> Cardinality(Preceding(rows, i))]
             place == [n \in D |-> CHOOSE i \in D :
                                     Cardinality(Preceding(rows, i)) = n]
  <1>1. D = 1 .. Len(rows) /\ Len(rows) \in Nat /\ rows = [i \in D |-> rows[i]]
    BY LenProperties
  <1>2. \A i \in D : rank[i] = i
    <2> TAKE i \in D
    <2>1. i \in 1 .. Len(rows) /\ i \in Int
      BY <1>1
    <2>2. \A j \in D : Before(rows, j, i) <=> j <= i
      <3> TAKE j \in D
      <3>1. rows[i].at \in Int /\ rows[j].at \in Int
        BY DEF Timed
      <3>2. i <= j => rows[i].at <= rows[j].at
        BY DEF Ascending
      <3>3. j <= i => rows[j].at <= rows[i].at
        BY DEF Ascending
      <3>4. j \in Int
        BY <1>1
      <3> QED
        BY <2>1, <3>1, <3>2, <3>3, <3>4 DEF Before
    <2>3. Preceding(rows, i) = 1 .. i
      BY <1>1, <2>1, <2>2 DEF Preceding
    <2>4. Cardinality(1 .. i) = i
      BY <2>1, FS_Interval
    <2> QED
      BY <2>3, <2>4
  <1>3. InOrder(rows) = [n \in D |-> rows[place[n]]]
    BY DEF InOrder, Preceding
  <1>4. place = [n \in D |-> CHOOSE i \in D : rank[i] = n]
    OBVIOUS
  <1> HIDE DEF D, rank, place
  <1>5. \A n \in D : place[n] = n
    BY <1>2, <1>4
  <1> QED
    BY <1>1, <1>3, <1>5
-----------------------------------------------------------------------------
(***************************************************************************)
(* The tables.                                                             *)
(***************************************************************************)

\* Every review has one task; the review's number tells the task's.
TasksOK(db) ==
    /\ \A id \in DOMAIN db.reviews :
         \E t \in DOMAIN db.tasks : db.tasks[t].review = id
    /\ \A t, u \in DOMAIN db.tasks :
         db.tasks[t].review = db.tasks[u].review => t = u
    /\ \A t \in DOMAIN db.tasks :
         LET id == db.tasks[t].review
         IN  /\ t \in Int
             /\ id \in Int
             /\ id \in DOMAIN db.reviews
             /\ IF id > 0 THEN t = id + 1 ELSE t < 0
             /\ db.tasks[t].state = db.reviews[id].status
             /\ db.tasks[t].created \in Int

\* The record the rows of a review hold, in the order they were written.
Written(db, id) ==
    [Get(db, id) EXCEPT !.timeline = db.events[id],
                        !.decisions = db.decisions[id]]

TablesOK(db) ==
    /\ DOMAIN db.evidence = DOMAIN db.reviews
    /\ DOMAIN db.signals = DOMAIN db.reviews
    /\ DOMAIN db.recommendations = DOMAIN db.reviews
    /\ DOMAIN db.events = DOMAIN db.reviews
    /\ DOMAIN db.decisions = DOMAIN db.reviews
    /\ DOMAIN db.snapshots \subseteq DOMAIN db.reviews
    /\ DOMAIN db.evaluations \subseteq DOMAIN db.reviews
    /\ \A id \in DOMAIN db.reviews : Whole(Written(db, id))
    /\ \A id \in DOMAIN db.evaluations :
         /\ db.evaluations[id] \in Seq(EvaluationValues)
         /\ db.evaluations[id] # <<>>
    /\ \A id \in DOMAIN db.snapshots :
         db.snapshots[id].request \in ReviewRequests
    /\ TasksOK(db)

\* What Get has.
LEMMA GetFields ==
    ASSUME NEW db, NEW id
    PROVE  LET out == Get(db, id)
           IN  /\ IsRecord(out)
               /\ out.timeline = InOrder(db.events[id])
               /\ out.decisions = InOrder(db.decisions[id])
  <1> DEFINE row == db.reviews[id]
             request == IF id \in DOMAIN db.snapshots
                          THEN db.snapshots[id].request ELSE Nil
             task == TaskOf(db, id)
             evidence == db.evidence[id]
             signals == db.signals[id]
             plan == db.recommendations[id]
             ordered == InOrder(db.events[id])
             sorted == InOrder(db.decisions[id])
             evaluation == EvaluationOf(db, id)
             out == Get(db, id)
  <1>1. out = [id |-> id, change |-> row.change, key |-> row.key,
               source |-> row.source, names |-> row.names,
               environment |-> row.environment, status |-> row.status,
               result |-> row.result, created |-> row.created,
               request |-> request, understanding |-> Nil, task |-> task,
               evidence |-> evidence, signals |-> signals,
               recommendation |-> plan, timeline |-> ordered,
               decisions |-> sorted, evaluation |-> evaluation, error |-> ""]
    BY DEF Get
  <1> HIDE DEF row, request, task, evidence, signals, plan, ordered, sorted,
               evaluation, out
  <1>2. /\ DOMAIN out = FieldNames
        /\ out = [f \in DOMAIN out |-> out[f]]
        /\ out.timeline = ordered
        /\ out.decisions = sorted
    BY <1>1 DEF FieldNames
  <1> QED
    BY <1>2 DEF IsRecord, out, ordered, sorted

\* What Written has.
IsWritten(out, db, id) ==
    /\ IsRecord(out)
    /\ SameFields(out, Get(db, id), FieldNames \ {"timeline", "decisions"})
    /\ out.id = id
    /\ out.timeline = db.events[id]
    /\ out.decisions = db.decisions[id]
    /\ out.change = db.reviews[id].change
    /\ out.key = db.reviews[id].key
    /\ out.source = db.reviews[id].source
    /\ out.names = db.reviews[id].names
    /\ out.environment = db.reviews[id].environment
    /\ out.status = db.reviews[id].status
    /\ out.result = db.reviews[id].result
    /\ out.created = db.reviews[id].created
    /\ out.request = IF id \in DOMAIN db.snapshots
                       THEN db.snapshots[id].request ELSE Nil
    /\ out.understanding = Nil
    /\ out.task = TaskOf(db, id)
    /\ out.evidence = db.evidence[id]
    /\ out.signals = db.signals[id]
    /\ out.recommendation = db.recommendations[id]
    /\ out.evaluation = EvaluationOf(db, id)
    /\ out.error = ""

LEMMA WrittenFields ==
    ASSUME NEW db, NEW id
    PROVE  IsWritten(Written(db, id), db, id)
  <1> DEFINE row == db.reviews[id]
             request == IF id \in DOMAIN db.snapshots
                          THEN db.snapshots[id].request ELSE Nil
             task == TaskOf(db, id)
             evidence == db.evidence[id]
             signals == db.signals[id]
             plan == db.recommendations[id]
             events == db.events[id]
             decisions == db.decisions[id]
             ordered == InOrder(db.events[id])
             sorted == InOrder(db.decisions[id])
             evaluation == EvaluationOf(db, id)
             got == Get(db, id)
             out == Written(db, id)
  <1>1. got = [id |-> id, change |-> row.change, key |-> row.key,
               source |-> row.source, names |-> row.names,
               environment |-> row.environment, status |-> row.status,
               result |-> row.result, created |-> row.created,
               request |-> request, understanding |-> Nil, task |-> task,
               evidence |-> evidence, signals |-> signals,
               recommendation |-> plan, timeline |-> ordered,
               decisions |-> sorted, evaluation |-> evaluation, error |-> ""]
    BY DEF Get
  <1>2. out = [got EXCEPT !.timeline = events, !.decisions = decisions]
    BY DEF Written
  <1> HIDE DEF row, request, task, evidence, signals, plan, events, decisions,
               ordered, sorted, evaluation, got, out
  <1>3. DOMAIN got = FieldNames
    BY <1>1 DEF FieldNames
  <1>4. /\ DOMAIN out = FieldNames
        /\ out = [f \in DOMAIN out |-> out[f]]
        /\ SameFields(out, got, FieldNames \ {"timeline", "decisions"})
        /\ out.timeline = events
        /\ out.decisions = decisions
    BY <1>2, <1>3 DEF SameFields, FieldNames
  <1>5. /\ got.id = id /\ got.change = row.change /\ got.key = row.key
        /\ got.source = row.source /\ got.names = row.names
        /\ got.environment = row.environment /\ got.status = row.status
        /\ got.result = row.result /\ got.created = row.created
        /\ got.request = request /\ got.understanding = Nil
        /\ got.task = task /\ got.evidence = evidence
        /\ got.signals = signals /\ got.recommendation = plan
        /\ got.evaluation = evaluation /\ got.error = ""
    BY <1>1
  <1>6. /\ out.id = id /\ out.change = row.change /\ out.key = row.key
        /\ out.source = row.source /\ out.names = row.names
        /\ out.environment = row.environment /\ out.status = row.status
        /\ out.result = row.result /\ out.created = row.created
        /\ out.request = request /\ out.understanding = Nil
        /\ out.task = task /\ out.evidence = evidence
        /\ out.signals = signals /\ out.recommendation = plan
        /\ out.evaluation = evaluation /\ out.error = ""
    BY <1>4, <1>5 DEF SameFields, FieldNames
  <1>7. IsRecord(out)
    BY <1>4 DEF IsRecord
  <1>8. IsWritten(out, db, id)
    BY <1>4, <1>6, <1>7 DEF row, request, task, evidence, signals, plan, events,
                            decisions, evaluation, got, IsWritten
  <1> QED
    BY <1>8 DEF out

LEMMA PutFacts ==
    ASSUME NEW f, NEW x, NEW v
    PROVE  /\ DOMAIN Put(f, x, v) = DOMAIN f \cup {x}
           /\ Put(f, x, v)[x] = v
           /\ \A y \in DOMAIN f \ {x} : Put(f, x, v)[y] = f[y]
  BY DEF Put

\* A Get is a whole record, with the rows in the order of their times.
LEMMA GotIsWhole ==
    ASSUME NEW db, TablesOK(db), NEW id \in DOMAIN db.reviews
    PROVE  LET out == Get(db, id)
           IN  /\ Whole(out)
               /\ out.id = id
               /\ SameFields(out, Written(db, id),
                             FieldNames \ {"timeline", "decisions"})
               /\ out.timeline = InOrder(db.events[id])
               /\ out.decisions = InOrder(db.decisions[id])
  <1> DEFINE out == Get(db, id)
             row == Written(db, id)
  <1>1. Whole(row)
    BY DEF TablesOK
  <1>2. /\ SameFields(row, out, FieldNames \ {"timeline", "decisions"})
        /\ row.id = id
        /\ row.timeline = db.events[id]
        /\ row.decisions = db.decisions[id]
    <2>1. IsWritten(Written(db, id), db, id)
      BY WrittenFields
    <2> QED
      BY <2>1 DEF IsWritten
  <1>3. /\ SameFields(out, row, FieldNames \ {"timeline", "decisions"})
        /\ SameFields(out, row, IdentityNames)
        /\ SameFields(out, row, AssessmentNames)
        /\ SameFields(out, row, {"status", "evaluation"})
    BY <1>2 DEF SameFields, FieldNames, IdentityNames, AssessmentNames
  <1>4. /\ IsRecord(out)
        /\ out.timeline = InOrder(db.events[id])
        /\ out.decisions = InOrder(db.decisions[id])
    BY GetFields
  <1>5. Identified(out) /\ Assessed(out)
    BY <1>1, <1>3, IdentityKept, AssessmentKept DEF Whole
  <1> HIDE DEF out, row
  <1>6. /\ db.events[id] \in Seq(Events)
        /\ db.events[id] # <<>>
        /\ db.decisions[id] \in Seq(DecisionRows)
    BY <1>1, <1>2 DEF Whole, Historied
  <1>7. Timed(db.events[id]) /\ Timed(db.decisions[id])
    <2>1. \A i \in DOMAIN db.events[id] : db.events[id][i] \in Events
      BY <1>6, LenProperties
    <2>2. \A i \in DOMAIN db.decisions[id] :
            db.decisions[id][i] \in DecisionRows
      BY <1>6, LenProperties
    <2> QED
      BY <2>1, <2>2 DEF Timed, Events, DecisionRows
  <1>8. /\ InOrder(db.events[id]) \in Seq(Events)
        /\ InOrder(db.events[id]) # <<>>
        /\ InOrder(db.decisions[id]) \in Seq(DecisionRows)
    <2>1. /\ InOrder(db.events[id]) \in Seq(Events)
          /\ Len(InOrder(db.events[id])) = Len(db.events[id])
      BY <1>6, <1>7, InOrderPermutes
    <2>2. InOrder(db.decisions[id]) \in Seq(DecisionRows)
      BY <1>6, <1>7, InOrderPermutes
    <2>3. Len(db.events[id]) \in Nat \ {0}
      BY <1>6, EmptySeq
    <2> QED
      BY <2>1, <2>2, <2>3, EmptySeq
  <1>9. Historied(out)
    BY <1>1, <1>3, <1>4, <1>8 DEF Whole, Historied, SameFields
  <1>10. out.id = id
    BY <1>2, <1>3 DEF SameFields, IdentityNames
  <1> QED
    BY <1>3, <1>4, <1>5, <1>9, <1>10 DEF Whole, out, row

\* A function on the first numbers is a sequence.
LEMMA FunctionSequence ==
    ASSUME NEW n \in Nat, NEW S, NEW f \in [1 .. n -> S]
    PROVE  f \in Seq(S) /\ Len(f) = n /\ DOMAIN f = 1 .. n
  <1>1. f \in Seq(S)
    OBVIOUS
  <1>2. DOMAIN f = 1 .. n
    OBVIOUS
  <1>3. Len(f) \in Nat /\ DOMAIN f = 1 .. Len(f)
    BY <1>1, LenProperties
  <1> QED
    BY <1>1, <1>2, <1>3

\* The rows of the evaluations of a review after a save.
LEMMA SavedEvaluations ==
    ASSUME NEW db, NEW rec, rec.evaluation \in EvaluationValues,
           At(db.evaluations, rec.id, <<>>) \in Seq(EvaluationValues)
    PROVE  LET rows == EvaluationRows(db, rec)
           IN  /\ rows \in Seq(EvaluationValues)
               /\ rows # <<>>
               /\ LastOf(rows) = rec.evaluation
               /\ \A i \in DOMAIN rows :
                    rows[i] = [rec.evaluation EXCEPT !.created = rows[i].created]
  <1> DEFINE old == At(db.evaluations, rec.id, <<>>)
             all == Append(old, rec.evaluation)
             value == rec.evaluation
             rows == EvaluationRows(db, rec)
  <1>1. /\ all \in Seq(EvaluationValues)
        /\ all # <<>>
        /\ LastOf(all) = value
    BY Appending
  <1>2. rows = [i \in DOMAIN all |-> [value EXCEPT !.created = all[i].created]]
    BY DEF EvaluationRows
  <1> HIDE DEF all, rows, value
  <1>3. /\ Len(all) \in Nat \ {0}
        /\ DOMAIN all = 1 .. Len(all)
        /\ \A i \in 1 .. Len(all) : all[i] \in EvaluationValues
    BY <1>1, EmptySeq, LenProperties
  <1>4. value \in EvaluationValues
    BY DEF value
  <1>5. \A i \in 1 .. Len(all) :
          /\ rows[i] = [value EXCEPT !.created = all[i].created]
          /\ rows[i] \in EvaluationValues
          /\ rows[i].created = all[i].created
    BY <1>2, <1>3, <1>4 DEF EvaluationValues
  <1>6. /\ rows \in Seq(EvaluationValues)
        /\ Len(rows) = Len(all)
        /\ DOMAIN rows = 1 .. Len(all)
    <2>1. rows \in [1 .. Len(all) -> EvaluationValues]
      BY <1>2, <1>3, <1>5
    <2>2. Len(all) \in Nat
      BY <1>3
    <2> QED
      BY <2>1, <2>2, FunctionSequence
  <1>7. LastOf(rows) = value
    <2>0. Len(all) \in 1 .. Len(all)
      BY <1>3
    <2>1. rows[Len(all)] = [value EXCEPT !.created = all[Len(all)].created]
      BY <1>5, <2>0
    <2>2. all[Len(all)] = value
      BY <1>1 DEF LastOf
    <2>3. [value EXCEPT !.created = value.created] = value
      BY <1>4 DEF EvaluationValues
    <2> QED
      BY <1>6, <2>1, <2>2, <2>3 DEF LastOf
  <1>8. rows # <<>>
    BY <1>3, <1>6, EmptySeq
  <1> QED
    BY <1>5, <1>6, <1>7, <1>8 DEF rows, value

\* A record that a save can take over from the one that was read.
OwnTask(db, rec) ==
    /\ \A t \in DOMAIN db.tasks : t = rec.task <=> db.tasks[t].review = rec.id
    /\ IF rec.id > 0 THEN rec.task = rec.id + 1 ELSE rec.task < 0

Savable(db, rec) ==
    /\ Whole(rec)
    /\ OwnTask(db, rec)
    /\ rec.request = Nil => rec.id \notin DOMAIN db.snapshots
    /\ rec.evaluation = Nil => rec.id \notin DOMAIN db.evaluations

\* The task of a review, before and after a save.
LEMMA OnlyTask ==
    ASSUME NEW db, TasksOK(db), NEW id \in DOMAIN db.reviews
    PROVE  /\ TaskOf(db, id) \in DOMAIN db.tasks
           /\ db.tasks[TaskOf(db, id)].review = id
           /\ TaskOf(db, id) # NoTask
           /\ \A t \in DOMAIN db.tasks :
                db.tasks[t].review = id => t = TaskOf(db, id)
  <1>1. PICK t \in DOMAIN db.tasks : db.tasks[t].review = id
    BY DEF TasksOK
  <1> DEFINE mine == {u \in DOMAIN db.tasks : db.tasks[u].review = id}
             newest == CHOOSE x \in mine : \A u \in mine :
                         db.tasks[u].created <= db.tasks[x].created
  <1>2. mine = {t}
    BY <1>1 DEF TasksOK
  <1>3. db.tasks[t].created \in Int
    BY <1>1 DEF TasksOK
  <1>4. TaskOf(db, id) = t
    <2>1. TaskOf(db, id) = IF mine = {} THEN NoTask ELSE newest
      BY DEF TaskOf
    <2> HIDE DEF mine
    <2>2. \A u \in mine : db.tasks[u].created <= db.tasks[t].created
      BY <1>2, <1>3
    <2>3. newest \in mine
      BY <1>2, <2>2
    <2> HIDE DEF newest
    <2> QED
      BY <1>2, <2>1, <2>3
  <1>5. t # 0
    BY <1>1 DEF TasksOK
  <1> QED
    BY <1>1, <1>2, <1>4, <1>5 DEF NoTask

LEMMA SavedTasks ==
    ASSUME NEW db, TasksOK(db), NEW rec, Savable(db, rec)
    PROVE  LET new == SaveRows(db, rec)
           IN  /\ TasksOK(new)
               /\ TaskOf(new, rec.id) = rec.task
               /\ \A id \in DOMAIN db.reviews \ {rec.id} :
                    TaskOf(new, id) = TaskOf(db, id)
  <1> DEFINE new == SaveRows(db, rec)
             row == ReviewRow(db, rec)
             task == TaskRow(db, rec)
  <1>1. /\ new.reviews = Put(db.reviews, rec.id, row)
        /\ new.tasks = Put(db.tasks, rec.task, task)
    BY DEF SaveRows
  <1>2. row.status = rec.status
    BY DEF ReviewRow
  <1>3. /\ task.review = rec.id
        /\ task.state = rec.status
        /\ task.created \in Int
    BY DEF TaskRow, Savable, OwnTask, TasksOK, Whole, Identified
  <1> HIDE DEF new, row, task
  <1>4. /\ DOMAIN new.reviews = DOMAIN db.reviews \cup {rec.id}
        /\ new.reviews[rec.id].status = rec.status
        /\ \A id \in DOMAIN db.reviews \ {rec.id} :
             new.reviews[id] = db.reviews[id]
    BY <1>1, <1>2 DEF Put
  <1>5. /\ DOMAIN new.tasks = DOMAIN db.tasks \cup {rec.task}
        /\ new.tasks[rec.task] = task
        /\ \A t \in DOMAIN db.tasks \ {rec.task} : new.tasks[t] = db.tasks[t]
    BY <1>1 DEF Put
  <1>6. \A t \in DOMAIN new.tasks :
          IF t = rec.task
            THEN new.tasks[t].review = rec.id
            ELSE /\ t \in DOMAIN db.tasks
                 /\ new.tasks[t] = db.tasks[t]
                 /\ new.tasks[t].review # rec.id
    BY <1>3, <1>5 DEF Savable, OwnTask
  <1>7. rec.id \in Int /\ rec.task \in Int
    BY DEF Savable, Whole, Identified
  <1>8. TasksOK(new)
    <2>1. \A id \in DOMAIN new.reviews :
            \E t \in DOMAIN new.tasks : new.tasks[t].review = id
      <3> TAKE id \in DOMAIN new.reviews
      <3>1. CASE id = rec.id
        BY <1>3, <1>5, <3>1
      <3>2. CASE id # rec.id
        <4>1. id \in DOMAIN db.reviews
          BY <1>4, <3>2
        <4>2. PICK t \in DOMAIN db.tasks : db.tasks[t].review = id
          BY <4>1 DEF TasksOK
        <4>3. t # rec.task
          BY <3>2, <4>2 DEF Savable, OwnTask
        <4> QED
          BY <1>5, <4>2, <4>3
      <3> QED
        BY <3>1, <3>2
    <2>2. \A t, u \in DOMAIN new.tasks :
            new.tasks[t].review = new.tasks[u].review => t = u
      BY <1>6 DEF TasksOK
    <2>3. \A t \in DOMAIN new.tasks :
            LET id == new.tasks[t].review
            IN  /\ t \in Int
                /\ id \in Int
                /\ id \in DOMAIN new.reviews
                /\ IF id > 0 THEN t = id + 1 ELSE t < 0
                /\ new.tasks[t].state = new.reviews[id].status
                /\ new.tasks[t].created \in Int
      <3> TAKE t \in DOMAIN new.tasks
      <3>1. CASE t = rec.task
        BY <1>3, <1>4, <1>5, <1>7, <3>1 DEF Savable, OwnTask
      <3>2. CASE t # rec.task
        <4>1. /\ t \in DOMAIN db.tasks
              /\ new.tasks[t] = db.tasks[t]
              /\ db.tasks[t].review # rec.id
          BY <1>6, <3>2
        <4>2. LET id == db.tasks[t].review
              IN  /\ t \in Int
                  /\ id \in Int
                  /\ id \in DOMAIN db.reviews
                  /\ IF id > 0 THEN t = id + 1 ELSE t < 0
                  /\ db.tasks[t].state = db.reviews[id].status
                  /\ db.tasks[t].created \in Int
          BY <4>1 DEF TasksOK
        <4> QED
          BY <1>4, <4>1, <4>2
      <3> QED
        BY <3>1, <3>2
    <2> QED
      BY <2>1, <2>2, <2>3 DEF TasksOK
  <1>9. TaskOf(new, rec.id) = rec.task
    BY <1>3, <1>4, <1>5, <1>8, OnlyTask
  <1>10. \A id \in DOMAIN db.reviews \ {rec.id} :
           TaskOf(new, id) = TaskOf(db, id)
    <2> TAKE id \in DOMAIN db.reviews \ {rec.id}
    <2> DEFINE t == TaskOf(db, id)
    <2>1. t \in DOMAIN db.tasks /\ db.tasks[t].review = id
      BY OnlyTask
    <2>2. t # rec.task
      BY <2>1 DEF Savable, OwnTask
    <2>3. t \in DOMAIN new.tasks /\ new.tasks[t].review = id
      BY <1>5, <2>1, <2>2
    <2>4. id \in DOMAIN new.reviews
      BY <1>4
    <2> HIDE DEF t
    <2>5. t = TaskOf(new, id)
      BY <1>8, <2>3, <2>4, OnlyTask
    <2> QED
      BY <2>5 DEF t
  <1> QED
    BY <1>8, <1>9, <1>10 DEF new

\* The tables after a save, one by one.
LEMMA SavedRows ==
    ASSUME NEW db, NEW rec
    PROVE  LET new == SaveRows(db, rec)
           IN  /\ DOMAIN new.reviews = DOMAIN db.reviews \cup {rec.id}
               /\ new.reviews[rec.id] = ReviewRow(db, rec)
               /\ DOMAIN new.evidence = DOMAIN db.evidence \cup {rec.id}
               /\ new.evidence[rec.id] = rec.evidence
               /\ DOMAIN new.signals = DOMAIN db.signals \cup {rec.id}
               /\ new.signals[rec.id] = rec.signals
               /\ DOMAIN new.recommendations
                    = DOMAIN db.recommendations \cup {rec.id}
               /\ new.recommendations[rec.id] = rec.recommendation
               /\ DOMAIN new.events = DOMAIN db.events \cup {rec.id}
               /\ new.events[rec.id] = rec.timeline
               /\ DOMAIN new.decisions = DOMAIN db.decisions \cup {rec.id}
               /\ new.decisions[rec.id] = rec.decisions
               /\ IF rec.request = Nil
                    THEN new.snapshots = db.snapshots
                    ELSE /\ DOMAIN new.snapshots
                              = DOMAIN db.snapshots \cup {rec.id}
                         /\ new.snapshots[rec.id] = Snapshot(rec)
               /\ IF rec.evaluation = Nil
                    THEN new.evaluations = db.evaluations
                    ELSE /\ DOMAIN new.evaluations
                              = DOMAIN db.evaluations \cup {rec.id}
                         /\ new.evaluations[rec.id] = EvaluationRows(db, rec)
  BY DEF SaveRows, Put

LEMMA OtherRows ==
    ASSUME NEW db, NEW rec, NEW id, id # rec.id
    PROVE  LET new == SaveRows(db, rec)
           IN  /\ id \in DOMAIN db.reviews =>
                    new.reviews[id] = db.reviews[id]
               /\ id \in DOMAIN db.evidence =>
                    new.evidence[id] = db.evidence[id]
               /\ id \in DOMAIN db.signals => new.signals[id] = db.signals[id]
               /\ id \in DOMAIN db.recommendations =>
                    new.recommendations[id] = db.recommendations[id]
               /\ id \in DOMAIN db.events => new.events[id] = db.events[id]
               /\ id \in DOMAIN db.decisions =>
                    new.decisions[id] = db.decisions[id]
               /\ id \in DOMAIN new.snapshots <=> id \in DOMAIN db.snapshots
               /\ id \in DOMAIN db.snapshots =>
                    new.snapshots[id] = db.snapshots[id]
               /\ id \in DOMAIN new.evaluations <=>
                    id \in DOMAIN db.evaluations
               /\ id \in DOMAIN db.evaluations =>
                    new.evaluations[id] = db.evaluations[id]
  BY DEF SaveRows, Put

\* What a save leaves of the other reviews.
LEMMA OthersKept ==
    ASSUME NEW db, TablesOK(db), NEW rec, Savable(db, rec),
           NEW id \in DOMAIN db.reviews \ {rec.id}
    PROVE  /\ Get(SaveRows(db, rec), id) = Get(db, id)
           /\ Written(SaveRows(db, rec), id) = Written(db, id)
  <1> DEFINE new == SaveRows(db, rec)
  <1>1. /\ id \in DOMAIN db.reviews /\ id # rec.id
        /\ id \in DOMAIN db.evidence /\ id \in DOMAIN db.signals
        /\ id \in DOMAIN db.recommendations /\ id \in DOMAIN db.events
        /\ id \in DOMAIN db.decisions
    BY DEF TablesOK
  <1>2. /\ new.reviews[id] = db.reviews[id]
        /\ new.evidence[id] = db.evidence[id]
        /\ new.signals[id] = db.signals[id]
        /\ new.recommendations[id] = db.recommendations[id]
        /\ new.events[id] = db.events[id]
        /\ new.decisions[id] = db.decisions[id]
        /\ id \in DOMAIN new.snapshots <=> id \in DOMAIN db.snapshots
        /\ id \in DOMAIN db.snapshots => new.snapshots[id] = db.snapshots[id]
        /\ id \in DOMAIN new.evaluations <=> id \in DOMAIN db.evaluations
        /\ id \in DOMAIN db.evaluations =>
             new.evaluations[id] = db.evaluations[id]
    BY <1>1, OtherRows
  <1>3. TaskOf(new, id) = TaskOf(db, id)
    BY <1>1, SavedTasks DEF TablesOK
  <1> HIDE DEF new
  <1>4. EvaluationOf(new, id) = EvaluationOf(db, id)
    BY <1>2 DEF EvaluationOf
  <1>5. (IF id \in DOMAIN new.snapshots THEN new.snapshots[id].request ELSE Nil)
          = IF id \in DOMAIN db.snapshots THEN db.snapshots[id].request ELSE Nil
    BY <1>2
  <1>6. Get(new, id) = Get(db, id)
    BY <1>2, <1>3, <1>4, <1>5 DEF Get
  <1>7. Written(new, id) = Written(db, id)
    BY <1>2, <1>6 DEF Written
  <1> QED
    BY <1>6, <1>7 DEF new

\* What the rows of the saved review hold.
LEMMA SavedIsWritten ==
    ASSUME NEW db, TablesOK(db), NEW rec, Savable(db, rec)
    PROVE  LET out == Written(SaveRows(db, rec), rec.id)
           IN  /\ SameFields(out, rec,
                    FieldNames \ {"understanding", "error", "created"})
               /\ IsRecord(out)
               /\ out.understanding = Nil
               /\ out.error = ""
               /\ out.created = IF rec.id \in DOMAIN db.reviews
                                  THEN db.reviews[rec.id].created
                                  ELSE rec.created
  <1> DEFINE new == SaveRows(db, rec)
             id == rec.id
             out == Written(new, id)
  <1>1. IsWritten(out, new, id)
    BY WrittenFields
  <1>2. /\ new.reviews[id] = ReviewRow(db, rec)
        /\ new.evidence[id] = rec.evidence
        /\ new.signals[id] = rec.signals
        /\ new.recommendations[id] = rec.recommendation
        /\ new.events[id] = rec.timeline
        /\ new.decisions[id] = rec.decisions
        /\ IF rec.request = Nil
             THEN new.snapshots = db.snapshots
             ELSE /\ id \in DOMAIN new.snapshots
                  /\ new.snapshots[id] = Snapshot(rec)
        /\ IF rec.evaluation = Nil
             THEN new.evaluations = db.evaluations
             ELSE /\ id \in DOMAIN new.evaluations
                  /\ new.evaluations[id] = EvaluationRows(db, rec)
    BY SavedRows
  <1>3. TaskOf(new, id) = rec.task
    BY SavedTasks DEF TablesOK
  <1>4. EvaluationOf(new, id) = rec.evaluation
    <2>1. CASE rec.evaluation = Nil
      BY <1>2, <2>1 DEF EvaluationOf, Savable
    <2>2. CASE rec.evaluation # Nil
      <3>1. rec.evaluation \in EvaluationValues
        BY <2>2 DEF Savable, Whole, Historied
      <3>2. At(db.evaluations, id, <<>>) \in Seq(EvaluationValues)
        BY EmptySeq DEF At, TablesOK
      <3>3. LastOf(EvaluationRows(db, rec)) = rec.evaluation
        BY <3>1, <3>2, SavedEvaluations
      <3> QED
        BY <1>2, <2>2, <3>3 DEF EvaluationOf, LastOf
    <2> QED
      BY <2>1, <2>2
  <1>5. (IF id \in DOMAIN new.snapshots THEN new.snapshots[id].request ELSE Nil)
          = rec.request
    BY <1>2 DEF Snapshot, Savable
  <1>6. LET row == ReviewRow(db, rec)
        IN  /\ row.change = rec.change /\ row.key = rec.key
            /\ row.source = rec.source /\ row.names = rec.names
            /\ row.environment = rec.environment /\ row.status = rec.status
            /\ row.result = rec.result
            /\ row.created = IF id \in DOMAIN db.reviews
                               THEN db.reviews[id].created ELSE rec.created
    BY DEF ReviewRow
  <1> HIDE DEF new, out
  <1>7. /\ out.id = rec.id /\ out.change = rec.change /\ out.key = rec.key
        /\ out.source = rec.source /\ out.names = rec.names
        /\ out.environment = rec.environment /\ out.status = rec.status
        /\ out.result = rec.result
        /\ out.created = IF id \in DOMAIN db.reviews
                           THEN db.reviews[id].created ELSE rec.created
    BY <1>1, <1>2, <1>6 DEF IsWritten
  <1>8. /\ out.request = rec.request /\ out.task = rec.task
        /\ out.evidence = rec.evidence /\ out.signals = rec.signals
        /\ out.recommendation = rec.recommendation
        /\ out.timeline = rec.timeline /\ out.decisions = rec.decisions
        /\ out.evaluation = rec.evaluation
        /\ out.understanding = Nil /\ out.error = ""
        /\ IsRecord(out)
    BY <1>1, <1>2, <1>3, <1>4, <1>5 DEF IsWritten
  <1>9. SameFields(out, rec, FieldNames \ {"understanding", "error", "created"})
    BY <1>7, <1>8 DEF SameFields, FieldNames
  <1> QED
    BY <1>7, <1>8, <1>9 DEF out, new

\* A save keeps the tables well formed.
LEMMA SavedTables ==
    ASSUME NEW db, TablesOK(db), NEW rec, Savable(db, rec)
    PROVE  TablesOK(SaveRows(db, rec))
  <1> DEFINE new == SaveRows(db, rec)
  <1>1. /\ DOMAIN new.reviews = DOMAIN db.reviews \cup {rec.id}
        /\ DOMAIN new.evidence = DOMAIN db.evidence \cup {rec.id}
        /\ DOMAIN new.signals = DOMAIN db.signals \cup {rec.id}
        /\ DOMAIN new.recommendations = DOMAIN db.recommendations \cup {rec.id}
        /\ DOMAIN new.events = DOMAIN db.events \cup {rec.id}
        /\ DOMAIN new.decisions = DOMAIN db.decisions \cup {rec.id}
        /\ IF rec.request = Nil
             THEN new.snapshots = db.snapshots
             ELSE /\ DOMAIN new.snapshots = DOMAIN db.snapshots \cup {rec.id}
                  /\ new.snapshots[rec.id] = Snapshot(rec)
        /\ IF rec.evaluation = Nil
             THEN new.evaluations = db.evaluations
             ELSE /\ DOMAIN new.evaluations
                       = DOMAIN db.evaluations \cup {rec.id}
                  /\ new.evaluations[rec.id] = EvaluationRows(db, rec)
    BY SavedRows
  <1>2. TasksOK(new)
    BY SavedTasks DEF TablesOK
  <1>3. \A id \in DOMAIN new.reviews : Whole(Written(new, id))
    <2> TAKE id \in DOMAIN new.reviews
    <2>1. CASE id # rec.id
      <3>1. id \in DOMAIN db.reviews \ {rec.id}
        BY <1>1, <2>1
      <3>2. Written(new, id) = Written(db, id)
        BY <3>1, OthersKept
      <3> QED
        BY <3>1, <3>2 DEF TablesOK
    <2>2. CASE id = rec.id
      <3> DEFINE out == Written(new, rec.id)
      <3>1. /\ SameFields(out, rec,
                 FieldNames \ {"understanding", "error", "created"})
            /\ IsRecord(out)
            /\ out.understanding = Nil
            /\ out.created = IF rec.id \in DOMAIN db.reviews
                               THEN db.reviews[rec.id].created
                               ELSE rec.created
        BY SavedIsWritten
      <3>2. rec.id \in DOMAIN db.reviews =>
              db.reviews[rec.id].created \in Int
        <4>1. ASSUME rec.id \in DOMAIN db.reviews
              PROVE  db.reviews[rec.id].created \in Int
          <5>1. Whole(Written(db, rec.id))
            BY <4>1 DEF TablesOK
          <5>2. IsWritten(Written(db, rec.id), db, rec.id)
            BY WrittenFields
          <5> QED
            BY <5>1, <5>2 DEF IsWritten, Whole, Identified
        <4> QED
          BY <4>1
      <3>3. Identified(rec) /\ Assessed(rec) /\ Historied(rec)
        BY DEF Savable, Whole
      <3> HIDE DEF out
      <3>4. out.created \in Int
        BY <3>1, <3>2, <3>3 DEF Identified
      <3>5. SameFields(out, rec,
                (IdentityNames \cup AssessmentNames
                   \cup {"status", "timeline", "decisions", "evaluation"})
                  \ {"understanding", "created"})
        BY <3>1 DEF SameFields, FieldNames, IdentityNames, AssessmentNames
      <3>6. Identified(out)
        BY <3>3, <3>4, <3>5 DEF SameFields, IdentityNames, Identified
      <3>7. Assessed(out)
        BY <3>1, <3>3, <3>5 DEF SameFields, AssessmentNames, Assessed
      <3>8. Historied(out)
        BY <3>3, <3>5 DEF SameFields, Historied
      <3> QED
        BY <2>2, <3>1, <3>6, <3>7, <3>8 DEF Whole, out
    <2> QED
      BY <2>1, <2>2
  <1>4. \A id \in DOMAIN new.evaluations :
          /\ new.evaluations[id] \in Seq(EvaluationValues)
          /\ new.evaluations[id] # <<>>
    <2>1. CASE rec.evaluation = Nil
      BY <1>1, <2>1 DEF TablesOK
    <2>2. CASE rec.evaluation # Nil
      <3>1. rec.evaluation \in EvaluationValues
        BY <2>2 DEF Savable, Whole, Historied
      <3>2. At(db.evaluations, rec.id, <<>>) \in Seq(EvaluationValues)
        BY EmptySeq DEF At, TablesOK
      <3>3. /\ EvaluationRows(db, rec) \in Seq(EvaluationValues)
            /\ EvaluationRows(db, rec) # <<>>
        BY <3>1, <3>2, SavedEvaluations
      <3>4. \A id \in DOMAIN db.evaluations \ {rec.id} :
              new.evaluations[id] = db.evaluations[id]
        BY OtherRows
      <3> HIDE DEF new
      <3> QED
        BY <1>1, <2>2, <3>3, <3>4 DEF TablesOK
    <2> QED
      BY <2>1, <2>2
  <1>5. \A id \in DOMAIN new.snapshots :
          new.snapshots[id].request \in ReviewRequests
    <2>1. rec.request # Nil => Snapshot(rec).request \in ReviewRequests
      BY DEF Snapshot, Savable, Whole, Identified
    <2>2. \A id \in DOMAIN db.snapshots \ {rec.id} :
            new.snapshots[id] = db.snapshots[id]
      BY OtherRows
    <2> HIDE DEF new
    <2> QED
      BY <1>1, <2>1, <2>2 DEF TablesOK
  <1> HIDE DEF new
  <1>6. /\ DOMAIN new.snapshots \subseteq DOMAIN new.reviews
        /\ DOMAIN new.evaluations \subseteq DOMAIN new.reviews
    BY <1>1 DEF TablesOK
  <1>7. /\ DOMAIN new.evidence = DOMAIN new.reviews
        /\ DOMAIN new.signals = DOMAIN new.reviews
        /\ DOMAIN new.recommendations = DOMAIN new.reviews
        /\ DOMAIN new.events = DOMAIN new.reviews
        /\ DOMAIN new.decisions = DOMAIN new.reviews
    BY <1>1 DEF TablesOK
  <1>8. TablesOK(new)
    BY <1>2, <1>3, <1>4, <1>5, <1>6, <1>7 DEF TablesOK
  <1> QED
    BY <1>8 DEF new

\* A record that was read and written to can be saved, unless it lost its
\* evaluation.
LEMMA ReadIsSavable ==
    ASSUME NEW db, TablesOK(db), NEW id \in DOMAIN db.reviews,
           NEW rec, Whole(rec),
           SameFields(rec, Get(db, id), {"id", "task", "request"}),
           rec.evaluation = Nil => Get(db, id).evaluation = Nil
    PROVE  Savable(db, rec)
  <1> DEFINE got == Get(db, id)
             row == Written(db, id)
  <1>1. IsWritten(row, db, id)
    BY WrittenFields
  <1>2. SameFields(row, got, FieldNames \ {"timeline", "decisions"})
    BY <1>1 DEF IsWritten
  <1> HIDE DEF got, row
  <1>3. /\ got.id = id
        /\ got.task = TaskOf(db, id)
        /\ got.request = IF id \in DOMAIN db.snapshots
                           THEN db.snapshots[id].request ELSE Nil
        /\ got.evaluation = EvaluationOf(db, id)
    BY <1>1, <1>2 DEF IsWritten, SameFields, FieldNames
  <1>4. rec.id = id /\ rec.task = TaskOf(db, id) /\ rec.request = got.request
    BY <1>3 DEF SameFields, got
  <1>5. OwnTask(db, rec)
    <2>1. /\ TaskOf(db, id) \in DOMAIN db.tasks
          /\ db.tasks[TaskOf(db, id)].review = id
          /\ \A t \in DOMAIN db.tasks :
               db.tasks[t].review = id => t = TaskOf(db, id)
      BY OnlyTask DEF TablesOK
    <2> QED
      BY <1>4, <2>1 DEF OwnTask, TablesOK, TasksOK
  <1>6. rec.request = Nil => rec.id \notin DOMAIN db.snapshots
    BY <1>3, <1>4, NilApart DEF TablesOK
  <1>7. rec.evaluation = Nil => rec.id \notin DOMAIN db.evaluations
    <2> SUFFICES ASSUME rec.evaluation = Nil, id \in DOMAIN db.evaluations
                 PROVE  FALSE
      BY <1>4
    <2>1. EvaluationOf(db, id) = Nil
      BY <1>3 DEF got
    <2>2. /\ db.evaluations[id] \in Seq(EvaluationValues)
          /\ db.evaluations[id] # <<>>
      BY DEF TablesOK
    <2>3. Len(db.evaluations[id]) \in 1 .. Len(db.evaluations[id])
      BY <2>2, EmptySeq
    <2>4. db.evaluations[id][Len(db.evaluations[id])] \in EvaluationValues
      BY <2>2, <2>3, ElementOfSeq
    <2> QED
      BY <2>1, <2>4, NilApart DEF EvaluationOf
  <1> QED
    BY <1>5, <1>6, <1>7 DEF Savable

\* The record of a create can be saved, whatever number it is given.
LEMMA CreatedIsSavable ==
    ASSUME NEW db, TablesOK(db), NEW rec, NEW req \in ReviewRequests,
           NEW counter \in Nat, NEW now, CreatedFrom(rec, req, counter, now)
    PROVE  Savable(db, rec)
  <1>1. /\ Whole(rec) /\ rec.id = counter + 1 /\ rec.task = counter + 2
        /\ rec.request = req /\ rec.evaluation \in EvaluationValues
    BY DEF CreatedFrom
  <1>2. OwnTask(db, rec)
    BY <1>1 DEF OwnTask, TablesOK, TasksOK
  <1> QED
    BY <1>1, <1>2, NilApart DEF Savable

(***************************************************************************)
(* Two records that are to be the same, but for what a store does not keep *)
(* and, once the clock has stepped back, for the order of the history.     *)
(***************************************************************************)
PlainNames ==
    FieldNames \ {"understanding", "error", "timeline", "decisions"}

Entered(rows) == {rows[i] : i \in DOMAIN rows}

SameRows(a, b) == Len(a) = Len(b) /\ Entered(a) = Entered(b)

\* Rows in the order of their times, none of which is still to come.
Timely(rows, now) ==
    Ascending(rows) /\ \A i \in DOMAIN rows : rows[i].at <= now

Same(a, b, sure, now) ==
    /\ SameFields(a, b, PlainNames)
    /\ SameRows(a.timeline, b.timeline)
    /\ SameRows(a.decisions, b.decisions)
    /\ sure => /\ a.timeline = b.timeline /\ Timely(a.timeline, now)
               /\ a.decisions = b.decisions /\ Timely(a.decisions, now)

\* Rows are joined on both sides alike.
LEMMA EnteredJoined ==
    ASSUME NEW S, NEW s \in Seq(S), NEW t \in Seq(S)
    PROVE  Entered(s \o t) = Entered(s) \cup Entered(t)
  <1>1. /\ s \o t \in Seq(S)
        /\ Len(s) \in Nat /\ Len(t) \in Nat
        /\ Len(s \o t) = Len(s) + Len(t)
        /\ DOMAIN s = 1 .. Len(s) /\ DOMAIN t = 1 .. Len(t)
        /\ DOMAIN (s \o t) = 1 .. Len(s) + Len(t)
        /\ \A i \in 1 .. Len(s) + Len(t) :
             (s \o t)[i] = IF i <= Len(s) THEN s[i] ELSE t[i - Len(s)]
    BY ConcatProperties, LenProperties
  <1> DEFINE st == s \o t
  <1> HIDE DEF st
  <1>2. ASSUME NEW x \in Entered(st)
        PROVE  x \in Entered(s) \cup Entered(t)
    <2>1. PICK i \in 1 .. Len(s) + Len(t) : x = st[i]
      BY <1>1 DEF Entered, st
    <2>2. CASE i <= Len(s)
      BY <1>1, <2>1, <2>2 DEF Entered, st
    <2>3. CASE ~(i <= Len(s))
      <3>1. i - Len(s) \in DOMAIN t /\ x = t[i - Len(s)]
        BY <1>1, <2>1, <2>3 DEF st
      <3> QED
        BY <3>1 DEF Entered
    <2> QED
      BY <2>2, <2>3
  <1>3. ASSUME NEW x \in Entered(s)
        PROVE  x \in Entered(st)
    <2>1. PICK i \in DOMAIN s : x = s[i]
      BY DEF Entered
    <2>2. i \in DOMAIN st /\ st[i] = x
      BY <1>1, <2>1 DEF st
    <2> QED
      BY <2>2 DEF Entered
  <1>4. ASSUME NEW x \in Entered(t)
        PROVE  x \in Entered(st)
    <2>1. PICK i \in DOMAIN t : x = t[i]
      BY DEF Entered
    <2>2. i + Len(s) \in DOMAIN st /\ st[i + Len(s)] = x
      BY <1>1, <2>1 DEF st
    <2> QED
      BY <2>2 DEF Entered
  <1> QED
    BY <1>2, <1>3, <1>4 DEF st

\* What is appended to two histories is new and has one time.
LEMMA JoinedAlike ==
    ASSUME NEW S, NEW a \in Seq(S), NEW b \in Seq(S), NEW t \in Seq(S),
           NEW sure \in BOOLEAN, NEW now \in Int, SameRows(a, b),
           sure => a = b /\ Timely(a, now),
           Timed(a), \A i \in DOMAIN t : t[i].at = now
    PROVE  /\ SameRows(a \o t, b \o t)
           /\ sure => a \o t = b \o t /\ Timely(a \o t, now)
  <1>1. SameRows(a \o t, b \o t)
    <2>0. Len(a) = Len(b) /\ Entered(a) = Entered(b)
      BY DEF SameRows
    <2>1. /\ Entered(a \o t) = Entered(a) \cup Entered(t)
          /\ Entered(b \o t) = Entered(b) \cup Entered(t)
      BY EnteredJoined
    <2>2. /\ Len(a \o t) = Len(a) + Len(t)
          /\ Len(b \o t) = Len(b) + Len(t)
      BY ConcatProperties
    <2> QED
      BY <2>0, <2>1, <2>2 DEF SameRows
  <1>2. ASSUME sure
        PROVE  Timely(a \o t, now)
    <2>1. /\ Len(a) \in Nat /\ Len(t) \in Nat
          /\ DOMAIN a = 1 .. Len(a) /\ DOMAIN t = 1 .. Len(t)
          /\ DOMAIN (a \o t) = 1 .. Len(a) + Len(t)
          /\ \A i \in 1 .. Len(a) + Len(t) :
               (a \o t)[i] = IF i <= Len(a) THEN a[i] ELSE t[i - Len(a)]
      BY ConcatProperties, LenProperties
    <2> DEFINE at == a \o t
    <2> HIDE DEF at
    <2>2. \A i \in 1 .. Len(a) : at[i] = a[i] /\ a[i].at \in Int /\ a[i].at <= now
      BY <1>2, <2>1 DEF Timely, Timed, at
    <2>3. \A i \in 1 .. Len(a) + Len(t) : i > Len(a) => at[i].at = now
      <3> SUFFICES ASSUME NEW i \in 1 .. Len(a) + Len(t), i > Len(a)
                   PROVE  at[i].at = now
        OBVIOUS
      <3>1. i - Len(a) \in DOMAIN t /\ at[i] = t[i - Len(a)]
        BY <2>1 DEF at
      <3> QED
        BY <3>1
    <2>4. \A i, j \in 1 .. Len(a) : i <= j => a[i].at <= a[j].at
      BY <1>2, <2>1 DEF Timely, Ascending
    <2>5. \A i \in DOMAIN at : at[i].at <= now
      BY <2>1, <2>2, <2>3 DEF at
    <2>6. ASSUME NEW i \in DOMAIN at, NEW j \in DOMAIN at, i <= j
          PROVE  at[i].at <= at[j].at
      <3>0. i \in 1 .. Len(a) + Len(t) /\ j \in 1 .. Len(a) + Len(t)
        BY <2>1 DEF at
      <3>1. CASE j <= Len(a)
        <4>1. i \in 1 .. Len(a) /\ j \in 1 .. Len(a)
          BY <2>1, <2>6, <3>0, <3>1
        <4> QED
          BY <2>2, <2>4, <2>6, <4>1
      <3>2. CASE j > Len(a)
        BY <2>3, <2>5, <3>0, <3>2
      <3> QED
        BY <2>1, <3>0, <3>1, <3>2
    <2> QED
      BY <2>5, <2>6 DEF Timely, Ascending, at
  <1> QED
    BY <1>1, <1>2

LEMMA AppendedAlike ==
    ASSUME NEW S, NEW a \in Seq(S), NEW b \in Seq(S), NEW x \in S,
           NEW sure \in BOOLEAN, NEW now \in Int, SameRows(a, b),
           sure => a = b /\ Timely(a, now), Timed(a), x.at = now
    PROVE  /\ SameRows(Append(a, x), Append(b, x))
           /\ sure => Append(a, x) = Append(b, x) /\ Timely(Append(a, x), now)
  <1> DEFINE t == <<x>>
  <1>1. t \in Seq(S) /\ \A i \in DOMAIN t : t[i].at = now
    OBVIOUS
  <1>2. Append(a, x) = a \o t /\ Append(b, x) = b \o t
    OBVIOUS
  <1> HIDE DEF t
  <1>3. /\ SameRows(a \o t, b \o t)
        /\ sure => a \o t = b \o t /\ Timely(a \o t, now)
    BY <1>1, JoinedAlike
  <1> QED
    BY <1>2, <1>3

\* The rows of a record have times.
LEMMA WholeIsTimed ==
    ASSUME NEW rec, Whole(rec)
    PROVE  /\ rec.timeline \in Seq(Events) /\ Timed(rec.timeline)
           /\ rec.decisions \in Seq(DecisionRows) /\ Timed(rec.decisions)
  <1>1. rec.timeline \in Seq(Events) /\ rec.decisions \in Seq(DecisionRows)
    BY DEF Whole, Historied
  <1>2. \A i \in DOMAIN rec.timeline : rec.timeline[i] \in Events
    BY <1>1, LenProperties
  <1>3. \A i \in DOMAIN rec.decisions : rec.decisions[i] \in DecisionRows
    BY <1>1, LenProperties
  <1> QED
    BY <1>1, <1>2, <1>3 DEF Timed, Events, DecisionRows

\* What the operations look at, the two have in common.
LEMMA SameParts ==
    ASSUME NEW a, NEW b, SameFields(a, b, PlainNames)
    PROVE  /\ a.id = b.id /\ a.task = b.task /\ a.change = b.change
           /\ a.key = b.key /\ a.source = b.source /\ a.names = b.names
           /\ a.environment = b.environment /\ a.status = b.status
           /\ a.result = b.result /\ a.created = b.created
           /\ a.request = b.request /\ a.evidence = b.evidence
           /\ a.signals = b.signals /\ a.recommendation = b.recommendation
           /\ a.evaluation = b.evaluation
           /\ RequestFromRecord(a) = RequestFromRecord(b)
           /\ \A now : EvaluationFor(a, now) = EvaluationFor(b, now)
  <1>1. /\ a.id = b.id /\ a.task = b.task /\ a.change = b.change
        /\ a.key = b.key /\ a.source = b.source /\ a.names = b.names
        /\ a.environment = b.environment /\ a.status = b.status
        /\ a.result = b.result /\ a.created = b.created
        /\ a.request = b.request /\ a.evidence = b.evidence
        /\ a.signals = b.signals /\ a.recommendation = b.recommendation
        /\ a.evaluation = b.evaluation
    BY DEF SameFields, PlainNames, FieldNames
  <1>2. RequestFromRecord(a) = RequestFromRecord(b)
    BY <1>1 DEF RequestFromRecord
  <1>3. \A now : EvaluationFor(a, now) = EvaluationFor(b, now)
    BY <1>1 DEF EvaluationFor
  <1> QED
    BY <1>1, <1>2, <1>3

LEMMA DecidedAlike ==
    ASSUME NEW a, Whole(a), NEW b, Whole(b), NEW sure \in BOOLEAN,
           NEW now \in Int, Same(a, b, sure, now),
           NEW verdict \in Verdicts, NEW number \in Nat
    PROVE  Same(DecidedDraft(a, verdict, number, now),
                DecidedDraft(b, verdict, number, now), sure, now)
  <1> DEFINE x == DecidedDraft(a, verdict, number, now)
             y == DecidedDraft(b, verdict, number, now)
             event == Event(StatusOf(verdict), "decision", now)
             row == [verdict |-> verdict, request |-> number, at |-> now]
  <1>1. /\ DecidedFrom(x, a, verdict, number, now)
        /\ DecidedFrom(y, b, verdict, number, now)
    BY DecidedFields
  <1>2. /\ event \in Events /\ event.at = now
        /\ row \in DecisionRows /\ row.at = now
    <2>1. StatusOf(verdict) \in Statuses
      BY DEF StatusOf, Verdicts, Statuses
    <2> QED
      BY <2>1 DEF Event, Events, Origins, DecisionRows
  <1>3. SameFields(a, b, PlainNames)
    BY DEF Same
  <1>4. EvaluationFor(a, now) = EvaluationFor(b, now)
    BY <1>3, SameParts
  <1> HIDE DEF x, y
  <1>5. /\ x.timeline = Append(a.timeline, event)
        /\ y.timeline = Append(b.timeline, event)
        /\ x.decisions = Append(a.decisions, row)
        /\ y.decisions = Append(b.decisions, row)
        /\ x.status = y.status
        /\ x.evaluation = y.evaluation
        /\ SameFields(x, a, FieldNames \ {"status", "decisions", "evaluation",
                                          "timeline"})
        /\ SameFields(y, b, FieldNames \ {"status", "decisions", "evaluation",
                                          "timeline"})
    BY <1>1, <1>4 DEF DecidedFrom
  <1> HIDE DEF event, row
  <1>6. SameFields(x, y, PlainNames)
    BY <1>3, <1>5 DEF SameFields, PlainNames, FieldNames
  <1>7. /\ SameRows(x.timeline, y.timeline)
        /\ sure => x.timeline = y.timeline /\ Timely(x.timeline, now)
    BY <1>2, <1>5, WholeIsTimed, AppendedAlike DEF Same
  <1>8. /\ SameRows(x.decisions, y.decisions)
        /\ sure => x.decisions = y.decisions /\ Timely(x.decisions, now)
    BY <1>2, <1>5, WholeIsTimed, AppendedAlike DEF Same
  <1>9. Same(x, y, sure, now)
    BY <1>6, <1>7, <1>8 DEF Same
  <1> QED
    BY <1>9 DEF x, y

LEMMA EvaluatedAlike ==
    ASSUME NEW a, Whole(a), NEW b, Whole(b), NEW sure \in BOOLEAN,
           NEW now \in Int, Same(a, b, sure, now), NEW update \in Updates
    PROVE  Same(EvaluatedDraft(a, update, now), EvaluatedDraft(b, update, now),
                sure, now)
  <1> DEFINE x == EvaluatedDraft(a, update, now)
             y == EvaluatedDraft(b, update, now)
             event == Event(a.status, "evaluation", now)
  <1>1. EvaluatedFrom(x, a, update, now) /\ EvaluatedFrom(y, b, update, now)
    BY EvaluatedFields
  <1>2. event \in Events /\ event.at = now
    BY DEF Event, Events, Origins, Whole, Historied
  <1>3. SameFields(a, b, PlainNames)
    BY DEF Same
  <1>4. /\ EvaluationFor(a, now) = EvaluationFor(b, now)
        /\ a.status = b.status
    BY <1>3, SameParts
  <1> HIDE DEF x, y
  <1>5. /\ x.timeline = Append(a.timeline, event)
        /\ y.timeline = Append(b.timeline, event)
        /\ SameFields(x, a, FieldNames \ {"evaluation", "timeline"})
        /\ SameFields(y, b, FieldNames \ {"evaluation", "timeline"})
    BY <1>1, <1>4 DEF EvaluatedFrom
  <1>6. x.evaluation = y.evaluation
    <2>1. /\ x.evaluation.outcome = y.evaluation.outcome
          /\ x.evaluation.incident = y.evaluation.incident
      BY <1>1, <1>4 DEF EvaluatedFrom
    <2>2. /\ x.evaluation = [EvaluationFor(a, now) EXCEPT
                               !.outcome = x.evaluation.outcome,
                               !.incident = x.evaluation.incident]
          /\ y.evaluation = [EvaluationFor(b, now) EXCEPT
                               !.outcome = y.evaluation.outcome,
                               !.incident = y.evaluation.incident]
      BY <1>1 DEF EvaluatedFrom
    <2> QED
      BY <1>4, <2>1, <2>2
  <1> HIDE DEF event
  <1>7. SameFields(x, y, PlainNames)
    BY <1>3, <1>5, <1>6 DEF SameFields, PlainNames, FieldNames
  <1>8. /\ SameRows(x.timeline, y.timeline)
        /\ sure => x.timeline = y.timeline /\ Timely(x.timeline, now)
    BY <1>2, <1>5, WholeIsTimed, AppendedAlike DEF Same
  <1>9. x.decisions = a.decisions /\ y.decisions = b.decisions
    BY <1>5 DEF SameFields, FieldNames
  <1>10. Same(x, y, sure, now)
    BY <1>7, <1>8, <1>9 DEF Same
  <1> QED
    BY <1>10 DEF x, y

LEMMA PipelineTimes ==
    ASSUME NEW human \in BOOLEAN, NEW now \in Int
    PROVE  /\ PipelineEvents(human, now) \in Seq(Events)
           /\ \A i \in DOMAIN PipelineEvents(human, now) :
                PipelineEvents(human, now)[i].at = now
  <1> DEFINE events == PipelineEvents(human, now)
             path == PipelinePath(human)
  <1>1. /\ events \in Seq(Events)
        /\ \A i \in 1 .. Len(events) :
             events[i] = Event(path[i], "pipeline", now)
    BY PipelineEventFacts
  <1>2. \A state, by : Event(state, by, now).at = now
    BY DEF Event
  <1> HIDE DEF events, path
  <1>3. DOMAIN events = 1 .. Len(events)
    BY <1>1, LenProperties
  <1>4. \A i \in DOMAIN events : events[i].at = now
    BY <1>1, <1>2, <1>3
  <1> QED
    BY <1>1, <1>4 DEF events

LEMMA RetriedAlike ==
    ASSUME NEW a, Whole(a), NEW b, Whole(b), NEW sure \in BOOLEAN,
           NEW now \in Int, Same(a, b, sure, now), NEW counter \in Nat
    PROVE  Same(RetriedDraft(a, counter, now), RetriedDraft(b, counter, now),
                sure, now)
  <1> DEFINE x == RetriedDraft(a, counter, now)
             y == RetriedDraft(b, counter, now)
             event == Event("CREATED", "retry", now)
             req == RequestFromRecord(a)
             human == Assess(ChangeOf(req)).result.human
             tail == <<event>> \o PipelineEvents(human, now)
  <1>1. RetriedFrom(x, a, counter, now) /\ RetriedFrom(y, b, counter, now)
    BY RetriedFields
  <1>2. event \in Events /\ event.at = now
    BY DEF Event, Events, Origins, Statuses
  <1>3. SameFields(a, b, PlainNames)
    BY DEF Same
  <1>4. RequestFromRecord(a) = RequestFromRecord(b)
    BY <1>3, SameParts
  <1> HIDE DEF x, y
  <1>5. /\ x.timeline = Append(a.timeline, event) \o PipelineEvents(human, now)
        /\ y.timeline = Append(b.timeline, event) \o PipelineEvents(human, now)
        /\ x.result = y.result
        /\ x.error = y.error
        /\ x.evidence = y.evidence
        /\ x.signals = y.signals
        /\ x.recommendation = y.recommendation
        /\ x.status = y.status
        /\ SameFields(x, a, IdentityNames)
        /\ SameFields(y, b, IdentityNames)
        /\ SameFields(x, a, {"decisions", "evaluation"})
        /\ SameFields(y, b, {"decisions", "evaluation"})
        /\ human \in BOOLEAN
    <2>1. x.result = Assess(ChangeOf(req)).result /\ y.result = x.result
      BY <1>1, <1>4 DEF RetriedFrom
    <2>2. x.result.human \in BOOLEAN
      BY <1>1 DEF RetriedFrom, Whole, Assessed
    <2> QED
      BY <1>1, <1>4, <2>1, <2>2 DEF RetriedFrom
  <1> HIDE DEF event, human, req
  <1>6. SameFields(x, y, PlainNames)
    BY <1>3, <1>5 DEF SameFields, PlainNames, FieldNames, IdentityNames
  <1>7. /\ PipelineEvents(human, now) \in Seq(Events)
        /\ \A i \in DOMAIN PipelineEvents(human, now) :
             PipelineEvents(human, now)[i].at = now
    BY <1>5, PipelineTimes
  <1> DEFINE s == Append(a.timeline, event)
             t == Append(b.timeline, event)
  <1>8. /\ SameRows(s, t)
        /\ sure => s = t /\ Timely(s, now)
    BY <1>2, WholeIsTimed, AppendedAlike DEF Same
  <1>9. s \in Seq(Events) /\ t \in Seq(Events)
    BY <1>2, WholeIsTimed, Appending
  <1> HIDE DEF s, t
  <1>10. /\ SameRows(x.timeline, y.timeline)
         /\ sure => x.timeline = y.timeline /\ Timely(x.timeline, now)
    <2>1. \A i \in DOMAIN s : s[i] \in Events
      BY <1>9, LenProperties
    <2>2. Timed(s)
      BY <2>1 DEF Timed, Events
    <2>3. /\ x.timeline = s \o PipelineEvents(human, now)
          /\ y.timeline = t \o PipelineEvents(human, now)
      BY <1>5 DEF s, t
    <2> QED
      BY <1>7, <1>8, <1>9, <2>2, <2>3, JoinedAlike
  <1>11. x.decisions = a.decisions /\ y.decisions = b.decisions
    BY <1>5 DEF SameFields
  <1>12. Same(x, y, sure, now)
    BY <1>6, <1>10, <1>11 DEF Same
  <1> QED
    BY <1>12 DEF x, y

\* Both make the same of a create.
LEMMA CreatedAlike ==
    ASSUME NEW req \in ReviewRequests, NEW counter \in Nat, NEW sure \in BOOLEAN,
           NEW now \in Int
    PROVE  Same(CreatedDraft(req, counter, now), CreatedDraft(req, counter, now),
                sure, now)
  <1> DEFINE x == CreatedDraft(req, counter, now)
             event == Event("CREATED", "service", now)
             human == x.result.human
             first == <<event>>
  <1>1. CreatedFrom(x, req, counter, now)
    BY CreatedFields
  <1> HIDE DEF x
  <1>2. /\ x.timeline = first \o PipelineEvents(human, now)
        /\ x.decisions = <<>>
        /\ human \in BOOLEAN
    BY <1>1 DEF CreatedFrom, Whole, Assessed
  <1>3. event \in Events /\ event.at = now
    BY DEF Event, Events, Origins, Statuses
  <1>4. /\ first \in Seq(Events) /\ Len(first) = 1 /\ first[1] = event
        /\ DOMAIN first = {1}
    BY <1>3
  <1> HIDE DEF event, first, human
  <1>5. Timed(first) /\ Timely(first, now) /\ SameRows(first, first)
    BY <1>3, <1>4 DEF Timed, Timely, Ascending, SameRows
  <1>6. /\ PipelineEvents(human, now) \in Seq(Events)
        /\ \A i \in DOMAIN PipelineEvents(human, now) :
             PipelineEvents(human, now)[i].at = now
    BY <1>2, PipelineTimes
  <1>7. Timely(x.timeline, now)
    <2>1. TRUE => first \o PipelineEvents(human, now)
                    = first \o PipelineEvents(human, now)
                  /\ Timely(first \o PipelineEvents(human, now), now)
      BY <1>4, <1>5, <1>6, JoinedAlike
    <2> QED
      BY <1>2, <2>1
  <1>8. Timely(x.decisions, now)
    BY <1>2 DEF Timely, Ascending
  <1>9. Same(x, x, sure, now)
    BY <1>7, <1>8 DEF Same, SameFields, SameRows
  <1> QED
    BY <1>9 DEF x

\* What is read back of a record that was saved.
ReadFrom(back, rec) ==
    /\ SameFields(back, rec, PlainNames)
    /\ SameRows(back.timeline, rec.timeline)
    /\ SameRows(back.decisions, rec.decisions)
    /\ Ascending(rec.timeline) => back.timeline = rec.timeline
    /\ Ascending(rec.decisions) => back.decisions = rec.decisions

\* Whatever the tables hold, a Get after the Save of a record returns all of it
\* but its understanding and its last error, which no table has, and the order
\* of entries that were not in the order of their times (PostgresStore.Save and
\* PostgresStore.Get).  It holds of every record an operation saves.
THEOREM SaveIsReadBack ==
    ASSUME NEW db, TablesOK(db), NEW rec, Savable(db, rec),
           rec.id \in DOMAIN db.reviews =>
             rec.created = db.reviews[rec.id].created
    PROVE  ReadFrom(Get(SaveRows(db, rec), rec.id), rec)
  <1> DEFINE new == SaveRows(db, rec)
             back == Get(new, rec.id)
             row == Written(new, rec.id)
  <1>1. TablesOK(new) /\ rec.id \in DOMAIN new.reviews
    BY SavedTables, SavedRows
  <1>2. /\ SameFields(back, row, FieldNames \ {"timeline", "decisions"})
        /\ back.timeline = InOrder(new.events[rec.id])
        /\ back.decisions = InOrder(new.decisions[rec.id])
    BY <1>1, GotIsWhole
  <1>3. /\ SameFields(row, rec,
             FieldNames \ {"understanding", "error", "created"})
        /\ row.created = IF rec.id \in DOMAIN db.reviews
                           THEN db.reviews[rec.id].created ELSE rec.created
    BY SavedIsWritten
  <1>4. row.timeline = new.events[rec.id] /\ row.decisions = new.decisions[rec.id]
    <2>1. IsWritten(row, new, rec.id)
      BY WrittenFields
    <2> QED
      BY <2>1 DEF IsWritten
  <1>5. row.created = rec.created
    BY <1>3
  <1> HIDE DEF new, back, row
  <1>6. /\ new.events[rec.id] = rec.timeline
        /\ new.decisions[rec.id] = rec.decisions
    BY <1>3, <1>4 DEF SameFields, FieldNames
  <1>7. SameFields(back, rec, PlainNames)
    BY <1>2, <1>3, <1>5 DEF SameFields, PlainNames, FieldNames
  <1>8. /\ rec.timeline \in Seq(Events) /\ Timed(rec.timeline)
        /\ rec.decisions \in Seq(DecisionRows) /\ Timed(rec.decisions)
    BY WholeIsTimed DEF Savable
  <1>9. /\ SameRows(back.timeline, rec.timeline)
        /\ Ascending(rec.timeline) => back.timeline = rec.timeline
    <2>1. Ascending(rec.timeline) => InOrder(rec.timeline) = rec.timeline
      BY <1>8, InOrderKeeps
    <2>2. /\ Len(InOrder(rec.timeline)) = Len(rec.timeline)
          /\ {InOrder(rec.timeline)[n] : n \in DOMAIN InOrder(rec.timeline)}
               = {rec.timeline[i] : i \in DOMAIN rec.timeline}
      BY <1>8, InOrderPermutes
    <2> QED
      BY <1>2, <1>6, <2>1, <2>2 DEF SameRows, Entered
  <1>10. /\ SameRows(back.decisions, rec.decisions)
         /\ Ascending(rec.decisions) => back.decisions = rec.decisions
    <2>1. Ascending(rec.decisions) => InOrder(rec.decisions) = rec.decisions
      BY <1>8, InOrderKeeps
    <2>2. /\ Len(InOrder(rec.decisions)) = Len(rec.decisions)
          /\ {InOrder(rec.decisions)[n] : n \in DOMAIN InOrder(rec.decisions)}
               = {rec.decisions[i] : i \in DOMAIN rec.decisions}
      BY <1>8, InOrderPermutes
    <2> QED
      BY <1>2, <1>6, <2>1, <2>2 DEF SameRows, Entered
  <1> QED
    BY <1>7, <1>9, <1>10 DEF ReadFrom, back, new

\* A record and another that was read back are the same if they were when the
\* other was saved.
LEMMA ReadAlike ==
    ASSUME NEW a, NEW rec, NEW back, NEW sure \in BOOLEAN, NEW now,
           Same(a, rec, sure, now), ReadFrom(back, rec)
    PROVE  Same(a, back, sure, now)
  <1>1. SameFields(a, back, PlainNames)
    BY DEF Same, ReadFrom, SameFields
  <1>2. SameRows(a.timeline, back.timeline) /\ SameRows(a.decisions, back.decisions)
    BY DEF Same, ReadFrom, SameRows
  <1>3. sure => /\ a.timeline = back.timeline /\ Timely(a.timeline, now)
                /\ a.decisions = back.decisions /\ Timely(a.decisions, now)
    BY DEF Same, ReadFrom, Timely
  <1> QED
    BY <1>1, <1>2, <1>3 DEF Same

\* Time passes.
LEMMA SameLater ==
    ASSUME NEW a, Whole(a), NEW b, NEW sure \in BOOLEAN, NEW now \in Int,
           NEW later \in Int, now <= later, Same(a, b, sure, now)
    PROVE  Same(a, b, sure, later) /\ Same(a, b, FALSE, later)
  <1>1. Timed(a.timeline) /\ Timed(a.decisions)
    BY WholeIsTimed
  <1>2. ASSUME NEW rows, Timed(rows), Timely(rows, now)
        PROVE  Timely(rows, later)
    <2>1. \A i \in DOMAIN rows : rows[i].at \in Int /\ rows[i].at <= now
      BY <1>2 DEF Timed, Timely
    <2>2. \A i \in DOMAIN rows : rows[i].at <= later
      BY <2>1
    <2> QED
      BY <1>2, <2>2 DEF Timely
  <1> QED
    BY <1>1, <1>2 DEF Same

\* The stores keep the same of records that are.
LEMMA SameIsKept ==
    ASSUME NEW a, IsRecord(a), NEW b, IsRecord(b), NEW sure \in BOOLEAN, NEW now,
           Same(a, b, sure, now)
    PROVE  IF sure THEN Kept(a) = Kept(b) ELSE Unordered(a) = Unordered(b)
  <1> DEFINE x == Kept(a)
             y == Kept(b)
  <1>1. /\ IsRecord(x) /\ IsRecord(y)
        /\ SameFields(x, a, FieldNames \ {"understanding", "error"})
        /\ SameFields(y, b, FieldNames \ {"understanding", "error"})
        /\ x.understanding = Nil /\ y.understanding = Nil
        /\ x.error = "" /\ y.error = ""
    BY DEF Kept, IsRecord, SameFields, FieldNames
  <1>2. SameFields(a, b, PlainNames)
    BY DEF Same
  <1>3. /\ SameRows(a.timeline, b.timeline) /\ SameRows(a.decisions, b.decisions)
        /\ sure => a.timeline = b.timeline /\ a.decisions = b.decisions
    BY DEF Same
  <1> HIDE DEF x, y
  <1>4. /\ SameFields(x, y, FieldNames \ {"timeline", "decisions"})
        /\ x.timeline = a.timeline /\ y.timeline = b.timeline
        /\ x.decisions = a.decisions /\ y.decisions = b.decisions
    BY <1>1, <1>2 DEF SameFields, PlainNames, FieldNames
  <1>5. CASE sure
    <2>1. \A f \in FieldNames : x[f] = y[f]
      BY <1>3, <1>4, <1>5 DEF SameFields, FieldNames
    <2>2. x = y
      BY <1>1, <2>1 DEF IsRecord
    <2> QED
      BY <1>5, <2>2 DEF x, y
  <1>6. CASE ~sure
    <2> DEFINE Entries(rows) == <<Len(rows), {rows[i] : i \in DOMAIN rows}>>
               u == [x EXCEPT !.timeline = Entries(x.timeline),
                              !.decisions = Entries(x.decisions)]
               v == [y EXCEPT !.timeline = Entries(y.timeline),
                              !.decisions = Entries(y.decisions)]
    <2>1. Unordered(a) = u /\ Unordered(b) = v
      BY DEF Unordered, x, y
    <2>2. /\ Entries(x.timeline) = Entries(y.timeline)
          /\ Entries(x.decisions) = Entries(y.decisions)
      BY <1>3, <1>4 DEF SameRows, Entered
    <2> HIDE DEF Entries
    <2>3. /\ IsRecord(u) /\ IsRecord(v)
          /\ SameFields(u, x, FieldNames \ {"timeline", "decisions"})
          /\ SameFields(v, y, FieldNames \ {"timeline", "decisions"})
          /\ u.timeline = Entries(x.timeline) /\ v.timeline = Entries(y.timeline)
          /\ u.decisions = Entries(x.decisions)
          /\ v.decisions = Entries(y.decisions)
      BY <1>1 DEF IsRecord, SameFields, FieldNames
    <2> HIDE DEF u, v
    <2>4. \A f \in FieldNames : u[f] = v[f]
      BY <1>4, <2>2, <2>3 DEF SameFields, FieldNames
    <2>5. u = v
      BY <2>3, <2>4 DEF IsRecord
    <2> QED
      BY <1>6, <2>1, <2>5
  <1> QED
    BY <1>5, <1>6
=============================================================================
