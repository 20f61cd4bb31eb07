---------------------- MODULE ConcurrentServiceProofs ----------------------
(***************************************************************************)
(* Theorem of ReviewService on Postgres while the process does not         *)
(* restart, for any number of requests served concurrently: every save     *)
(* stores what one whole operation makes of a mixture of records its       *)
(* review has had.                                                         *)
(***************************************************************************)
EXTENDS SerialServiceProofs

(***************************************************************************)
(* The invariant: every part a handler has loaded is that of some record   *)
(* its review has had, and nothing the review has had is forgotten.        *)
(***************************************************************************)
PastOK ==
    /\ DOMAIN past = DOMAIN records
    /\ \A id \in DOMAIN records :
         records[id] \in past[id] /\ past[id] \subseteq Records

\* The parts loaded so far come from records the review has had.
Mixed(h) ==
    /\ phase[h] \in LoadedPhases =>
         \E v \in past[reviewID[h]] :
            /\ draft[h].key = v.key
            /\ draft[h].status = v.status
            /\ draft[h].gated = v.gated
    /\ phase[h] \in {"getDecisions", "getEvaluation", "loaded"} =>
         \E v \in past[reviewID[h]] : draft[h].timeline = v.timeline
    /\ phase[h] \in {"getEvaluation", "loaded"} =>
         \E v \in past[reviewID[h]] : draft[h].decisions = v.decisions
    /\ phase[h] = "loaded" =>
         \E v \in past[reviewID[h]] : draft[h].evaluation = v.evaluation

Created(h) ==
    /\ call[h].op = "create"
    /\ \E g \in BOOLEAN : draft[h] = NewRecord(call[h].key, g)

Derived(h) ==
    /\ reviewID[h] \in DOMAIN records
    /\ \E base \in Skewed!Mixtures(past[reviewID[h]]) :
         draft[h] \in Skewed!Successors(base)

Held(h) ==
    /\ Submitting(h)
    /\ Mixed(h)
    /\ phase[h] = "save" => Created(h) \/ Derived(h)

CInv == PastOK /\ \A h \in Handlers : Held(h)

\* The lifecycle computes records as the service does.
LEMMA SameSkewed ==
    /\ \A f, x, v : Skewed!Put(f, x, v) = Put(f, x, v)
    /\ \A k : Skewed!FailedRecord(k) = FailedRecord(k)
    /\ \A k, g : Skewed!NewRecord(k, g) = NewRecord(k, g)
    /\ \A rec, v, r : Skewed!Decided(rec, v, r) = Decided(rec, v, r)
    /\ \A rec, o : Skewed!Evaluated(rec, o) = Evaluated(rec, o)
    /\ \A rec, g : Skewed!Retried(rec, g) = Retried(rec, g)
    /\ Skewed!Verdicts = Verdicts
  <1>1. \A f, x, v : Skewed!Put(f, x, v) = Put(f, x, v)
    BY Zenon DEF Skewed!Put, Put
  <1>2. \A k : Skewed!FailedRecord(k) = FailedRecord(k)
    BY Zenon DEF Skewed!FailedRecord, FailedRecord, Skewed!Blank, Blank,
                 Skewed!NoEvaluation, NoEvaluation
  <1>3. \A k, g : Skewed!NewRecord(k, g) = NewRecord(k, g)
    BY Zenon DEF Skewed!NewRecord, NewRecord, Skewed!RunPipeline, RunPipeline,
                 Skewed!PipelinePath, PipelinePath, Skewed!LastOf, LastOf,
                 Skewed!Blank, Blank, Skewed!NoEvaluation, NoEvaluation
  <1>4. \A rec, v, r : Skewed!Decided(rec, v, r) = Decided(rec, v, r)
    BY Zenon DEF Skewed!Decided, Decided, Skewed!StatusOf, StatusOf
  <1>5. \A rec, o : Skewed!Evaluated(rec, o) = Evaluated(rec, o)
    BY Zenon DEF Skewed!Evaluated, Evaluated
  <1>6. \A rec, g : Skewed!Retried(rec, g) = Retried(rec, g)
    BY Zenon DEF Skewed!Retried, Retried, Skewed!RunPipeline, RunPipeline,
                 Skewed!PipelinePath, PipelinePath, Skewed!LastOf, LastOf
  <1>7. Skewed!Verdicts = Verdicts
    BY DEF Skewed!Verdicts, Verdicts
  <1> QED
    BY <1>1, <1>2, <1>3, <1>4, <1>5, <1>6, <1>7

LEMMA InitHeld == Init => CInv
  <1> SUFFICES ASSUME Init PROVE CInv
    OBVIOUS
  <1>1. PICK keyOf \in [Legacy -> Keys \cup {Nil}] :
          records = [l \in Legacy |-> FailedRecord(keyOf[l])]
    BY DEF Init
  <1>2. \A l \in Legacy : FailedRecord(keyOf[l]) \in Records
    BY FailedRecordSavable DEF Savable
  <1>3. PastOK
    BY <1>1, <1>2 DEF Init, PastOK
  <1>4. ASSUME NEW h \in Handlers PROVE Held(h)
    BY <1>4 DEF Init, Held, Submitting, Mixed, LoadedPhases, NoCall
  <1> QED
    BY <1>3, <1>4 DEF CInv

\* Nothing the reviews have had is forgotten.
PastKept ==
    /\ DOMAIN records \subseteq DOMAIN records'
    /\ \A id \in DOMAIN records : past[id] \subseteq past'[id]

\* The row of one record with the timeline, the decisions and the evaluation
\* of others.
Mixture(row, t, d, e) ==
    [row EXCEPT !.timeline   = t.timeline,
                !.decisions  = d.decisions,
                !.evaluation = e.evaluation]

LEMMA MixturesOf ==
    ASSUME NEW V
    PROVE  /\ \A row, t, d, e \in V :
                 Mixture(row, t, d, e) \in Skewed!Mixtures(V)
           /\ \A m \in Skewed!Mixtures(V) :
                \E row, t, d, e \in V : m = Mixture(row, t, d, e)
  <1>1. Skewed!Mixtures(V) =
          {Mixture(row, t, d, e) : row \in V, t \in V, d \in V, e \in V}
    BY DEF Skewed!Mixtures, Mixture
  <1> QED
    BY <1>1

\* A mixture of some versions is one of more versions.
LEMMA MoreMixtures ==
    ASSUME NEW V, NEW W, V \subseteq W
    PROVE  Skewed!Mixtures(V) \subseteq Skewed!Mixtures(W)
  BY MixturesOf

\* What a handler holds stays so whatever the others do.
LEMMA OthersHeld ==
    ASSUME NEW h \in Handlers, NEW g \in Handlers, g # h,
           IInv, CInv, Others(h), PastKept,
           requests' \in {requests, requests + 1}
    PROVE  Held(g)'
  <1>1. /\ phase'[g] = phase[g]
        /\ call'[g] = call[g]
        /\ reviewID'[g] = reviewID[g]
        /\ draft'[g] = draft[g]
    BY DEF Others
  <1>2. Held(g)
    BY DEF CInv
  <1>3. requests \in Nat
    BY ConstantsAssumption DEF IInv, CountsOK
  <1>4. Submitting(g)'
    <2>1. CASE call[g].op = "decide"
      <3>1. call[g].request \in 1 .. requests
        BY <1>2, <2>1 DEF Held, Submitting
      <3>2. call[g].request \in 1 .. requests'
        BY <1>3, <3>1
      <3> QED
        BY <1>1, <3>2 DEF Submitting
    <2>2. CASE call[g].op # "decide"
      BY <1>1, <2>2 DEF Submitting
    <2> QED
      BY <2>1, <2>2
  <1>5. phase[g] \in LoadedPhases =>
          past[reviewID[g]] \subseteq past'[reviewID[g]]
    BY DEF IInv, HandlersOK, Fit, PastKept
  <1>6. Mixed(g)'
    BY <1>1, <1>2, <1>5 DEF Held, Mixed, LoadedPhases
  <1>7. ASSUME phase[g] = "save" PROVE (Created(g) \/ Derived(g))'
    <2>1. CASE Created(g)
      BY <1>1, <2>1 DEF Created
    <2>2. CASE Derived(g)
      <3>1. /\ reviewID[g] \in DOMAIN records'
            /\ past[reviewID[g]] \subseteq past'[reviewID[g]]
        BY <2>2 DEF Derived, PastKept
      <3>2. Skewed!Mixtures(past[reviewID[g]])
              \subseteq Skewed!Mixtures(past'[reviewID[g]])
        BY <3>1, MoreMixtures
      <3>3. PICK base \in Skewed!Mixtures(past[reviewID[g]]) :
              draft[g] \in Skewed!Successors(base)
        BY <2>2 DEF Derived
      <3>4. \E b \in Skewed!Mixtures(past'[reviewID'[g]]) :
              draft'[g] \in Skewed!Successors(b)
        BY <1>1, <3>2, <3>3
      <3> QED
        BY <1>1, <3>1, <3>4 DEF Derived
    <2> QED
      BY <1>2, <1>7, <2>1, <2>2 DEF Held
  <1> QED
    BY <1>1, <1>4, <1>6, <1>7 DEF Held

\* A step of h that stores nothing.
LEMMA QuietHeld ==
    ASSUME NEW h \in Handlers, IInv, CInv, UNCHANGED <<records, past>>,
           Others(h), requests' \in {requests, requests + 1}, Held(h)'
    PROVE  CInv'
  <1>1. PastOK'
    BY DEF CInv, PastOK
  <1>2. PastKept
    BY DEF PastKept
  <1>3. ASSUME NEW g \in Handlers, g # h PROVE Held(g)'
    BY <1>2, <1>3, OthersHeld
  <1> QED
    BY <1>1, <1>3 DEF CInv

LEMMA FinishHeld ==
    ASSUME NEW h \in Handlers, IInv, Finish(h)
    PROVE  Held(h)'
  <1>1. phase'[h] = "idle" /\ call'[h] = NoCall
    BY DEF Finish, GoTo, IInv, HandlersOK, HandlerTypes
  <1> QED
    BY <1>1 DEF Held, Submitting, Mixed, LoadedPhases, NoCall

LEMMA QuietFinishHeld ==
    ASSUME NEW h \in Handlers, IInv, CInv,
           UNCHANGED <<records, past, requests>>,
           Finish(h)
    PROVE  CInv'
  <1>1. Others(h)
    BY FinishOthers DEF IInv
  <1> QED
    BY <1>1, FinishHeld, QuietHeld

LEMMA ArriveHeld ==
    ASSUME NEW h \in Handlers, IInv, CInv, Arrive(h)
    PROVE  CInv'
  <1>1. requests \in Nat
    BY ConstantsAssumption DEF IInv, CountsOK
  <1>2. ASSUME NEW c, NEW id, NEW next \in {"run", "lookup", "getReview"},
               Accept(h, c, id, next),
               c.op = "decide" => c.request = requests + 1
        PROVE  CInv'
    <2>1. /\ phase'[h] = next
          /\ call'[h] = c
          /\ Others(h)
          /\ requests' = requests + 1
          /\ UNCHANGED <<records, past>>
      BY <1>2 DEF Accept, GoTo, Others, IInv, HandlersOK, HandlerTypes, store
    <2>2. Submitting(h)'
      BY <1>1, <1>2, <2>1 DEF Submitting
    <2>3. Held(h)'
      BY <2>1, <2>2 DEF Held, Mixed, LoadedPhases
    <2> QED
      BY <2>1, <2>3, QuietHeld
  <1>3. CASE ArriveCreate(h)
    <2>1. PICK k \in Keys \cup {Nil} :
            Accept(h, [op |-> "create", key |-> k], Nil,
                   IF k = Nil THEN "run" ELSE "lookup")
      BY <1>3 DEF ArriveCreate
    <2> QED
      BY <1>2, <2>1
  <1>4. CASE ArriveDecide(h)
    <2>1. PICK id \in DOMAIN records \cup {Unknown}, v \in Submitted :
            Accept(h, [op |-> "decide", verdict |-> v,
                       request |-> requests + 1], id, "getReview")
      BY <1>4 DEF ArriveDecide
    <2> QED
      BY <1>2, <2>1
  <1>5. CASE ArriveEvaluate(h)
    <2>1. PICK id \in DOMAIN records \cup {Unknown},
               o \in Outcomes \cup {Nil} :
            Accept(h, [op |-> "evaluate", outcome |-> o], id, "getReview")
      BY <1>5 DEF ArriveEvaluate
    <2> QED
      BY <1>2, <2>1
  <1>6. CASE ArriveRetry(h)
    <2>1. PICK id \in DOMAIN records \cup {Unknown} :
            Accept(h, [op |-> "retry"], id, "getReview")
      BY <1>6 DEF ArriveRetry
    <2> QED
      BY <1>2, <2>1
  <1> QED
    BY <1>3, <1>4, <1>5, <1>6 DEF Arrive

LEMMA CreateHeld ==
    ASSUME NEW h \in Handlers, IInv, CInv,
           LookUpExisting(h) \/ LookUpNotFound(h) \/ RunCreate(h) \/ Recheck(h)
    PROVE  CInv'
  <1>1. UNCHANGED <<records, past, requests>>
    BY DEF LookUpExisting, LookUpNotFound, RunCreate, Recheck, store
  <1>2. CASE LookUpExisting(h) \/ Recheck(h)
    BY <1>1, <1>2, QuietFinishHeld DEF LookUpExisting, Recheck
  <1>3. CASE LookUpNotFound(h)
    <2>1. /\ Others(h)
          /\ phase'[h] = "run"
          /\ UNCHANGED call
      BY <1>3 DEF LookUpNotFound, GoTo, Others, IInv, HandlersOK, HandlerTypes
    <2>2. Held(h)'
      BY <1>1, <2>1 DEF CInv, Held, Submitting, Mixed, LoadedPhases
    <2> QED
      BY <1>1, <2>1, <2>2, QuietHeld
  <1>4. CASE RunCreate(h)
    <2>1. PICK id \in NextIDs, g \in BOOLEAN :
            /\ reviewID' = [reviewID EXCEPT ![h] = id]
            /\ Loads(h, "save", NewRecord(call[h].key, g))
      BY <1>4 DEF RunCreate
    <2>2. /\ Others(h)
          /\ phase'[h] = "save"
          /\ draft'[h] = NewRecord(call[h].key, g)
          /\ UNCHANGED call
      BY <1>4, <2>1 DEF RunCreate, Loads, GoTo, Others, IInv, HandlersOK,
                        HandlerTypes
    <2>3. call[h].op = "create"
      BY <1>4 DEF RunCreate, IInv, HandlersOK, Fit
    <2>4. Created(h)'
      BY <2>2, <2>3 DEF Created
    <2>5. Held(h)'
      BY <2>2, <2>3, <2>4 DEF Held, Submitting, Mixed, LoadedPhases
    <2> QED
      BY <1>1, <2>2, <2>5, QuietHeld
  <1> QED
    BY <1>2, <1>3, <1>4

LEMMA LoadHeld ==
    ASSUME NEW h \in Handlers, IInv, CInv,
           GetReviewRow(h) \/ GetTimeline(h) \/ GetDecisions(h)
             \/ GetEvaluation(h)
    PROVE  CInv'
  <1>1. UNCHANGED <<records, past, requests>>
    BY DEF GetReviewRow, GetTimeline, GetDecisions, GetEvaluation, Loading,
           store
  <1>2. draft[h] \in Records /\ Held(h)
    BY DEF IInv, HandlersOK, HandlerTypes, CInv
  <1>3. phase[h] \in LoadedPhases => reviewID[h] \in DOMAIN records
    BY DEF IInv, HandlersOK, Fit
  <1>4. reviewID[h] \in DOMAIN records =>
          records[reviewID[h]] \in past[reviewID[h]]
    BY DEF CInv, PastOK
  <1>5. ASSUME NEW next \in LoadedPhases, NEW rec, Loads(h, next, rec),
               UNCHANGED <<call, reviewID>>
        PROVE  /\ phase'[h] = next /\ draft'[h] = rec
               /\ Mixed(h)' => CInv'
    <2>1. Others(h) /\ phase'[h] = next /\ draft'[h] = rec
      BY <1>5, LoadsOthers DEF IInv
    <2>2. Submitting(h)' /\ phase'[h] # "save"
      BY <1>1, <1>2, <1>5, <2>1 DEF Held, Submitting, LoadedPhases
    <2>3. Mixed(h)' => Held(h)'
      BY <2>2 DEF Held
    <2> QED
      BY <1>1, <2>1, <2>3, QuietHeld
  <1>6. CASE GetReviewRow(h)
    <2>1. CASE reviewID[h] \in DOMAIN records
      <3> DEFINE row == records[reviewID[h]]
                 rec == [Blank EXCEPT !.key = row.key, !.status = row.status,
                                      !.gated = row.gated]
      <3>1. /\ rec.key = row.key
            /\ rec.status = row.status
            /\ rec.gated = row.gated
        BY DEF Blank
      <3>2. Loads(h, "getTimeline", rec) /\ UNCHANGED <<call, reviewID>>
        BY <1>6, <2>1 DEF GetReviewRow
      <3> HIDE DEF rec
      <3>3. phase'[h] = "getTimeline" /\ draft'[h] = rec
        BY <1>5, <3>2 DEF LoadedPhases
      <3>4. Mixed(h)'
        BY <1>1, <1>4, <2>1, <3>1, <3>2, <3>3 DEF Mixed
      <3> QED
        BY <1>5, <3>2, <3>4 DEF LoadedPhases
    <2>2. CASE reviewID[h] \notin DOMAIN records
      BY <1>1, <1>6, <2>2, QuietFinishHeld DEF GetReviewRow
    <2> QED
      BY <2>1, <2>2
  <1>7. CASE GetTimeline(h)
    <2> DEFINE rec == [draft[h] EXCEPT !.timeline =
                           records[reviewID[h]].timeline]
    <2>1. /\ rec.key = draft[h].key
          /\ rec.status = draft[h].status
          /\ rec.gated = draft[h].gated
          /\ rec.timeline = records[reviewID[h]].timeline
      BY <1>2 DEF Records
    <2>2. /\ phase[h] = "getTimeline"
          /\ Loads(h, "getDecisions", rec)
          /\ UNCHANGED <<call, reviewID>>
      BY <1>7 DEF GetTimeline, Loading
    <2> HIDE DEF rec
    <2>3. phase'[h] = "getDecisions" /\ draft'[h] = rec
      BY <1>5, <2>2 DEF LoadedPhases
    <2>4. Mixed(h)'
      BY <1>1, <1>2, <1>3, <1>4, <2>1, <2>2, <2>3
         DEF Held, Mixed, LoadedPhases
    <2> QED
      BY <1>5, <2>2, <2>4 DEF LoadedPhases
  <1>8. CASE GetDecisions(h)
    <2> DEFINE rec == [draft[h] EXCEPT
                         !.decisions = records[reviewID[h]].decisions]
    <2>1. /\ rec.key = draft[h].key
          /\ rec.status = draft[h].status
          /\ rec.gated = draft[h].gated
          /\ rec.timeline = draft[h].timeline
          /\ rec.decisions = records[reviewID[h]].decisions
      BY <1>2 DEF Records
    <2>2. /\ phase[h] = "getDecisions"
          /\ Loads(h, "getEvaluation", rec)
          /\ UNCHANGED <<call, reviewID>>
      BY <1>8 DEF GetDecisions, Loading
    <2> HIDE DEF rec
    <2>3. phase'[h] = "getEvaluation" /\ draft'[h] = rec
      BY <1>5, <2>2 DEF LoadedPhases
    <2>4. Mixed(h)'
      BY <1>1, <1>2, <1>3, <1>4, <2>1, <2>2, <2>3
         DEF Held, Mixed, LoadedPhases
    <2> QED
      BY <1>5, <2>2, <2>4 DEF LoadedPhases
  <1>9. CASE GetEvaluation(h)
    <2> DEFINE rec == [draft[h] EXCEPT
                         !.evaluation = records[reviewID[h]].evaluation]
    <2>1. /\ rec.key = draft[h].key
          /\ rec.status = draft[h].status
          /\ rec.gated = draft[h].gated
          /\ rec.timeline = draft[h].timeline
          /\ rec.decisions = draft[h].decisions
          /\ rec.evaluation = records[reviewID[h]].evaluation
      BY <1>2 DEF Records
    <2>2. /\ phase[h] = "getEvaluation"
          /\ Loads(h, "loaded", rec)
          /\ UNCHANGED <<call, reviewID>>
      BY <1>9 DEF GetEvaluation, Loading
    <2> HIDE DEF rec
    <2>3. phase'[h] = "loaded" /\ draft'[h] = rec
      BY <1>5, <2>2 DEF LoadedPhases
    <2>4. Mixed(h)'
      BY <1>1, <1>2, <1>3, <1>4, <2>1, <2>2, <2>3
         DEF Held, Mixed, LoadedPhases
    <2> QED
      BY <1>5, <2>2, <2>4 DEF LoadedPhases
  <1> QED
    BY <1>6, <1>7, <1>8, <1>9

\* A complete load is a mixture of records the review has had.
LEMMA LoadedMixture ==
    ASSUME NEW h \in Handlers, IInv, CInv, phase[h] = "loaded"
    PROVE  /\ reviewID[h] \in DOMAIN records
           /\ draft[h] \in Skewed!Mixtures(past[reviewID[h]])
  <1>1. reviewID[h] \in DOMAIN records /\ draft[h] \in Records
    BY DEF IInv, HandlersOK, HandlerTypes, Fit, LoadedPhases
  <1>2. past[reviewID[h]] \subseteq Records
    BY <1>1 DEF CInv, PastOK
  <1>3. Mixed(h)
    BY DEF CInv, Held
  <1>4. PICK row \in past[reviewID[h]] :
          /\ draft[h].key = row.key
          /\ draft[h].status = row.status
          /\ draft[h].gated = row.gated
    BY <1>3 DEF Mixed, LoadedPhases
  <1>5. PICK t \in past[reviewID[h]] : draft[h].timeline = t.timeline
    BY <1>3 DEF Mixed
  <1>6. PICK d \in past[reviewID[h]] : draft[h].decisions = d.decisions
    BY <1>3 DEF Mixed
  <1>7. PICK e \in past[reviewID[h]] : draft[h].evaluation = e.evaluation
    BY <1>3 DEF Mixed
  <1> DEFINE mix == Mixture(row, t, d, e)
  <1>8. mix \in Skewed!Mixtures(past[reviewID[h]])
    BY MixturesOf
  <1>9. /\ row \in Records
        /\ t.timeline \in Seq(Statuses)
        /\ d.decisions \in Seq(HumanDecisions)
        /\ e.evaluation \in Evaluations
    BY <1>2 DEF Records
  <1>10. /\ mix \in Records
         /\ mix.key = row.key
         /\ mix.status = row.status
         /\ mix.gated = row.gated
         /\ mix.timeline = t.timeline
         /\ mix.decisions = d.decisions
         /\ mix.evaluation = e.evaluation
    BY <1>9 DEF Records, Mixture
  <1> HIDE DEF mix
  <1>11. \A a, b \in Records :
           /\ a.key = b.key /\ a.status = b.status /\ a.gated = b.gated
           /\ a.timeline = b.timeline /\ a.decisions = b.decisions
           /\ a.evaluation = b.evaluation
           => a = b
    BY DEF Records
  <1>12. draft[h] = mix
    BY <1>1, <1>4, <1>5, <1>6, <1>7, <1>10, <1>11
  <1> QED
    BY <1>1, <1>8, <1>12

LEMMA OperateHeld ==
    ASSUME NEW h \in Handlers, IInv, CInv,
           SubmitHumanDecision(h) \/ UpdateEvaluation(h) \/ RetryReview(h)
    PROVE  CInv'
  <1>1. phase[h] = "loaded" /\ UNCHANGED <<records, past, requests>>
    BY DEF SubmitHumanDecision, UpdateEvaluation, RetryReview, Operating, store
  <1>2. /\ reviewID[h] \in DOMAIN records
        /\ draft[h] \in Skewed!Mixtures(past[reviewID[h]])
    BY <1>1, LoadedMixture
  <1>3. ASSUME NEW rec, Loads(h, "save", rec), UNCHANGED <<call, reviewID>>,
               rec \in Skewed!Successors(draft[h])
        PROVE  CInv'
    <2>1. Others(h) /\ phase'[h] = "save" /\ draft'[h] = rec
      BY <1>3, LoadsOthers DEF IInv
    <2>2. Derived(h)'
      BY <1>1, <1>2, <1>3, <2>1 DEF Derived
    <2>3. Held(h)'
      BY <1>1, <1>3, <2>1, <2>2
         DEF CInv, Held, Submitting, Mixed, LoadedPhases
    <2> QED
      BY <1>1, <2>1, <2>3, QuietHeld
  <1>4. call[h] \in Calls /\ Submitting(h)
    BY DEF IInv, HandlersOK, HandlerTypes, CInv, Held
  <1>5. CASE SubmitHumanDecision(h)
    <2>1. CASE call[h].verdict \in Verdicts
      <3> DEFINE rec == Decided(draft[h], call[h].verdict, call[h].request)
      <3>1. /\ call[h].op = "decide"
            /\ Loads(h, "save", rec)
            /\ UNCHANGED <<call, reviewID>>
        BY <1>5, <2>1 DEF SubmitHumanDecision, Operating
      <3>2. call[h].request \in 1 .. requests /\ requests \in 0 .. MaxRequests
        BY <1>4, <3>1 DEF Submitting, IInv, CountsOK
      <3>3. call[h].request \in 1 .. MaxRequests
        BY <3>2, ConstantsAssumption
      <3>4. rec \in Skewed!Successors(draft[h])
        BY <2>1, <3>3, SameSkewed DEF Skewed!Successors
      <3> HIDE DEF rec
      <3> QED
        BY <1>3, <3>1, <3>4
    <2>2. CASE call[h].verdict \notin Verdicts
      BY <1>1, <1>5, <2>2, QuietFinishHeld DEF SubmitHumanDecision
    <2> QED
      BY <2>1, <2>2
  <1>6. CASE UpdateEvaluation(h)
    <2> DEFINE rec == Evaluated(draft[h], call[h].outcome)
    <2>1. /\ call[h].op = "evaluate"
          /\ Loads(h, "save", rec)
          /\ UNCHANGED <<call, reviewID>>
      BY <1>6 DEF UpdateEvaluation, Operating
    <2>2. call[h].outcome \in Outcomes \cup {Nil}
      BY <1>4, <2>1 DEF Calls
    <2>3. rec \in Skewed!Successors(draft[h])
      BY <2>2, SameSkewed DEF Skewed!Successors
    <2> HIDE DEF rec
    <2> QED
      BY <1>3, <2>1, <2>3
  <1>7. CASE RetryReview(h)
    <2>1. CASE draft[h].status = "FAILED"
      <3>1. PICK g \in BOOLEAN : Loads(h, "save", Retried(draft[h], g))
        BY <1>7, <2>1 DEF RetryReview
      <3>2. UNCHANGED <<call, reviewID>>
        BY <1>7, <2>1 DEF RetryReview
      <3>3. Retried(draft[h], g) \in Skewed!Successors(draft[h])
        BY <2>1, SameSkewed DEF Skewed!Successors
      <3> QED
        BY <1>3, <3>1, <3>2, <3>3
    <2>2. CASE draft[h].status # "FAILED"
      BY <1>1, <1>7, <2>2, QuietFinishHeld DEF RetryReview
    <2> QED
      BY <2>1, <2>2
  <1> QED
    BY <1>5, <1>6, <1>7

\* A save adds the draft to what its review has had.
LEMMA WriteHeld ==
    ASSUME NEW h \in Handlers, IInv, CInv, phase[h] = "save", Write(h)
    PROVE  PastOK' /\ PastKept
  <1>1. draft[h] \in Records
    BY DEF IInv, HandlersOK, HandlerTypes
  <1>2. /\ DOMAIN records' = DOMAIN records \cup {reviewID[h]}
        /\ \A id \in DOMAIN records' :
             records'[id] = IF id = reviewID[h] THEN draft[h] ELSE records[id]
    BY DEF Write, Put
  <1>3. /\ DOMAIN past' = DOMAIN past \cup {reviewID[h]}
        /\ \A id \in DOMAIN past' :
             past'[id] = IF id = reviewID[h]
                           THEN {draft[h]} \cup IF id \in DOMAIN past
                                                  THEN past[id] ELSE {}
                           ELSE past[id]
    BY DEF Write, Put
  <1> QED
    BY <1>1, <1>2, <1>3 DEF CInv, PastOK, PastKept

LEMMA SaveHeld ==
    ASSUME NEW h \in Handlers, IInv, CInv,
           SaveOk(h) \/ SaveConflict(h) \/ CommitAnswerLost(h) \/ QueryFails(h)
    PROVE  CInv'
  <1>1. CASE SaveOk(h) \/ CommitAnswerLost(h)
    <2>1. phase[h] = "save" /\ Write(h) /\ Finish(h) /\ requests' = requests
      BY <1>1 DEF SaveOk, CommitAnswerLost
    <2>2. PastOK' /\ PastKept
      BY <2>1, WriteHeld
    <2>3. Others(h)
      BY <2>1, FinishOthers DEF IInv
    <2>4. Held(h)'
      BY <2>1, FinishHeld
    <2>5. ASSUME NEW g \in Handlers, g # h PROVE Held(g)'
      BY <2>1, <2>2, <2>3, <2>5, OthersHeld
    <2> QED
      BY <2>2, <2>4, <2>5 DEF CInv
  <1>2. CASE SaveConflict(h) \/ QueryFails(h)
    <2>1. UNCHANGED <<records, past, requests>>
      BY <1>2 DEF SaveConflict, QueryFails, store
    <2>2. CASE Finish(h)
      BY <2>1, <2>2, QuietFinishHeld
    <2>3. CASE GoTo(h, "recheck") /\ UNCHANGED <<call, reviewID, draft>>
      <3>1. Others(h) /\ phase'[h] = "recheck"
        BY <2>3 DEF GoTo, Others, IInv, HandlersOK, HandlerTypes
      <3>2. Held(h)'
        BY <2>1, <2>3, <3>1 DEF CInv, Held, Submitting, Mixed, LoadedPhases
      <3> QED
        BY <2>1, <3>1, <3>2, QuietHeld
    <2> QED
      BY <1>2, <2>2, <2>3 DEF SaveConflict, QueryFails
  <1> QED
    BY <1>1, <1>2

LEMMA StepHeld ==
    ASSUME MaxRestarts = 0
    PROVE  IInv /\ CInv /\ [Next]_vars => CInv'
  <1> SUFFICES ASSUME IInv, CInv, [Next]_vars PROVE CInv'
    OBVIOUS
  <1>1. ~Restart
    BY DEF Restart, IInv, CountsOK
  <1>2. ASSUME NEW h \in Handlers, Arrive(h) PROVE CInv'
    BY <1>2, ArriveHeld
  <1>3. ASSUME NEW h \in Handlers, Serve(h) PROVE CInv'
    BY <1>3, CreateHeld, LoadHeld, OperateHeld, SaveHeld DEF Serve
  <1>4. CASE UNCHANGED vars
    BY <1>4 DEF vars, store, handler, CInv, PastOK, Held, Submitting, Mixed,
                Created, Derived
  <1> QED
    BY <1>1, <1>2, <1>3, <1>4 DEF Next
-----------------------------------------------------------------------------
(***************************************************************************)
(* The refinement.                                                         *)
(***************************************************************************)
\* A step stores one handler's draft or leaves store and past alone.
LEMMA StepWritesPast ==
    ASSUME MaxRestarts = 0, IInv, [Next]_vars
    PROVE  \/ UNCHANGED <<records, past>>
           \/ \E h \in Handlers : phase[h] = "save" /\ Write(h)
  <1>1. ~Restart
    BY DEF Restart, IInv, CountsOK
  <1>2. ASSUME NEW h \in Handlers, Arrive(h) PROVE UNCHANGED <<records, past>>
    BY <1>2 DEF Arrive, ArriveCreate, ArriveDecide, ArriveEvaluate, ArriveRetry,
                Accept, store
  <1>3. ASSUME NEW h \in Handlers, Serve(h)
        PROVE  UNCHANGED <<records, past>> \/ (phase[h] = "save" /\ Write(h))
    <2>1. CASE SaveOk(h) \/ CommitAnswerLost(h)
      BY <2>1 DEF SaveOk, CommitAnswerLost
    <2>2. CASE GetReviewRow(h) \/ GetTimeline(h) \/ GetDecisions(h)
                 \/ GetEvaluation(h)
      BY <2>2 DEF GetReviewRow, GetTimeline, GetDecisions, GetEvaluation,
                  Loading, store
    <2>3. CASE SubmitHumanDecision(h) \/ UpdateEvaluation(h) \/ RetryReview(h)
      BY <2>3 DEF SubmitHumanDecision, UpdateEvaluation, RetryReview, Operating,
                  store
    <2>4. CASE LookUpExisting(h) \/ LookUpNotFound(h) \/ RunCreate(h)
                 \/ Recheck(h) \/ SaveConflict(h) \/ QueryFails(h)
      BY <2>4 DEF LookUpExisting, LookUpNotFound, RunCreate, Recheck,
                  SaveConflict, QueryFails, store
    <2> QED
      BY <1>3, <2>1, <2>2, <2>3, <2>4 DEF Serve
  <1> QED
    BY <1>1, <1>2, <1>3 DEF Next, vars, store

LEMMA InitSkewed ==
    Init => /\ Skewed!AtomicInit
            /\ past = [id \in DOMAIN records |-> {records[id]}]
  <1> SUFFICES ASSUME Init
               PROVE  /\ Skewed!AtomicInit
                      /\ past = [id \in DOMAIN records |-> {records[id]}]
    OBVIOUS
  <1>1. PICK keyOf \in [Legacy -> Keys \cup {Nil}] :
          records = [l \in Legacy |-> FailedRecord(keyOf[l])]
    BY DEF Init
  <1>2. past = [l \in Legacy |-> {records[l]}] /\ DOMAIN records = Legacy
    BY <1>1 DEF Init
  <1> QED
    BY <1>1, <1>2, SameSkewed DEF Skewed!AtomicInit

LEMMA StepSkewed ==
    ASSUME Store = "postgres", MaxRestarts = 0, IInv, KInv, CInv, [Next]_vars
    PROVE  [Skewed!SkewedNext]_(Skewed!lifecycle)
  <1>1. ASSUME NEW h \in Handlers, phase[h] = "save", Write(h)
        PROVE  Skewed!SkewedNext
    <2>1. records' = Skewed!Put(records, reviewID[h], draft[h])
      BY <1>1, SameSkewed DEF Write
    <2>2. call[h] \in Calls
      BY DEF IInv, HandlersOK, HandlerTypes
    <2>3. Skewed!Opened \/ Skewed!OperatedOnMixture
      <3>1. CASE Created(h)
        <4>1. PICK g \in BOOLEAN : draft[h] = NewRecord(call[h].key, g)
          BY <3>1 DEF Created
        <4>2. call[h].key \in Keys \cup {Nil} /\ Creating(h)
          BY <1>1, <2>2, <3>1 DEF Created, Calls, Creating
        <4>3. reviewID[h] \in Nat \ DOMAIN records
          BY <4>2 DEF KInv, IDsFresh
        <4>4. reviewID[h] \in DOMAIN records'
          BY <1>1 DEF Write, Put
        <4>5. draft[h] = Skewed!NewRecord(call[h].key, g)
          BY <4>1, SameSkewed
        <4> QED
          BY <2>1, <4>2, <4>3, <4>4, <4>5 DEF Skewed!Opened
      <3>2. CASE Derived(h)
        BY <2>1, <3>2 DEF Derived, Skewed!OperatedOnMixture
      <3> QED
        BY <1>1, <3>1, <3>2 DEF CInv, Held
    <2>4. Skewed!Remembered
      <3>1. DOMAIN past = DOMAIN records
        BY DEF CInv, PastOK
      <3>2. /\ DOMAIN records' = DOMAIN records \cup {reviewID[h]}
            /\ \A id \in DOMAIN records' :
                 records'[id] =
                   IF id = reviewID[h] THEN draft[h] ELSE records[id]
        BY <1>1 DEF Write, Put
      <3>3. past' = [id \in DOMAIN records' |->
                       IF id = reviewID[h]
                         THEN {draft[h]} \cup
                                IF reviewID[h] \in DOMAIN past
                                  THEN past[reviewID[h]] ELSE {}
                         ELSE past[id]]
        BY <1>1, <3>1, <3>2 DEF Write, Put
      <3>4. \A id \in DOMAIN records' :
              {records'[id]} \cup
                (IF id \in DOMAIN past THEN past[id] ELSE {}) =
                IF id = reviewID[h]
                  THEN {draft[h]} \cup
                         IF reviewID[h] \in DOMAIN past
                           THEN past[reviewID[h]] ELSE {}
                  ELSE past[id]
        BY <3>1, <3>2 DEF CInv, PastOK
      <3> QED
        BY <3>3, <3>4 DEF Skewed!Remembered
    <2> QED
      BY <2>3, <2>4 DEF Skewed!SkewedNext
  <1> QED
    BY <1>1, StepWritesPast DEF Skewed!lifecycle

\* On Postgres, while the process does not restart, every save stores what one
\* whole operation makes of a mixture of records its review has had, for any
\* number of concurrent requests, whichever queries fail and whichever answers
\* are lost: that is all that loads outside a transaction can do (Get and Save
\* of postgres.go).
THEOREM ServiceIsSkewed ==
    ASSUME Store = "postgres", MaxRestarts = 0
    PROVE  Spec => ImplementsSkewed
  <1>1. IInv /\ KInv /\ CInv /\ [Next]_vars =>
          [Skewed!SkewedNext]_(Skewed!lifecycle)
    BY StepSkewed
  <1>2. IInv /\ CInv /\ [Next]_vars => CInv'
    BY StepHeld
  <1>3. Init => Skewed!AtomicInit
    BY InitSkewed
  <1>4. Init => past = [id \in DOMAIN records |-> {records[id]}]
    BY InitSkewed
  <1> QED
    BY <1>1, <1>2, <1>3, <1>4, InitHeld, Invariance, KeyInvariance, PTL
       DEF Spec, ImplementsSkewed, Skewed!SkewedSpec
=============================================================================
