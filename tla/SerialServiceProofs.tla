------------------------ MODULE SerialServiceProofs ------------------------
(***************************************************************************)
(* Theorems of ReviewService when requests are served one at a time and    *)
(* the process does not restart: the service then implements the atomic    *)
(* lifecycle of a review, and keeps what it promises of decisions and of   *)
(* the timeline, in either store, whichever queries fail and whichever     *)
(* answers of a commit are lost.                                           *)
(***************************************************************************)
EXTENDS ReviewServiceProofs

\* There is at most one handler.
Serial == \A g, h \in Handlers : g = h

(***************************************************************************)
(* What the operations keep of a record.                                   *)
(***************************************************************************)
Continues(old, new) ==
    /\ Len(old.timeline) <= Len(new.timeline)
    /\ \A i \in DOMAIN old.timeline : new.timeline[i] = old.timeline[i]
    /\ \A i \in DOMAIN old.decisions :
         i \in DOMAIN new.decisions /\ new.decisions[i] = old.decisions[i]
    /\ old.status = "REJECTED" /\ CanRelease(new.status) =>
         Len(new.decisions) > Len(old.decisions)

LEMMA AppendKeeps ==
    ASSUME NEW S, NEW s \in Seq(S), NEW e \in S
    PROVE  /\ Append(s, e) \in Seq(S)
           /\ Len(s) \in Nat
           /\ Len(Append(s, e)) = Len(s) + 1
           /\ DOMAIN s = 1 .. Len(s)
           /\ DOMAIN Append(s, e) = 1 .. Len(s) + 1
           /\ \A i \in DOMAIN s :
                i \in DOMAIN Append(s, e) /\ Append(s, e)[i] = s[i]
           /\ Append(s, e)[Len(s) + 1] = e
  BY AppendProperties, LenProperties

LEMMA ConcatKeeps ==
    ASSUME NEW S, NEW s \in Seq(S), NEW t \in Seq(S)
    PROVE  /\ s \o t \in Seq(S)
           /\ Len(s) \in Nat
           /\ Len(s) <= Len(s \o t)
           /\ \A i \in DOMAIN s : (s \o t)[i] = s[i]
  <1>1. Len(s) \in Nat /\ Len(t) \in Nat /\ DOMAIN s = 1 .. Len(s)
    BY LenProperties
  <1> QED
    BY <1>1, ConcatProperties

LEMMA ContinuesItself ==
    ASSUME NEW rec \in Records
    PROVE  Continues(rec, rec)
  <1>1. Len(rec.timeline) \in Nat
    BY LenProperties DEF Records
  <1> QED
    BY <1>1 DEF Continues, CanRelease

LEMMA DecidedContinues ==
    ASSUME NEW rec \in Records, NEW v \in Verdicts, NEW r \in Nat
    PROVE  /\ Continues(rec, Decided(rec, v, r))
           /\ DecisionGoverns(Decided(rec, v, r))
           /\ \E i \in DOMAIN Decided(rec, v, r).decisions :
                Decided(rec, v, r).decisions[i] =
                  [verdict |-> v, request |-> r]
  <1> DEFINE out == Decided(rec, v, r)
             one == [verdict |-> v, request |-> r]
  <1>1. /\ rec.timeline \in Seq(Statuses)
        /\ rec.decisions \in Seq(HumanDecisions)
        /\ one \in HumanDecisions
        /\ StatusOf(v) \in {"APPROVED", "REJECTED", "OVERRIDDEN"}
        /\ StatusOf(v) \in Statuses
    BY DEF Records, HumanDecisions, StatusOf, Verdicts, Statuses
  <1>2. /\ out.status = StatusOf(v)
        /\ out.timeline = Append(rec.timeline, StatusOf(v))
        /\ out.decisions = Append(rec.decisions, one)
        /\ out.evaluation.final = v
    BY DEF Decided, Records, Evaluations
  <1>3. one.verdict = v
    OBVIOUS
  <1> HIDE DEF out, one
  <1>4. /\ Len(rec.timeline) <= Len(out.timeline)
        /\ \A i \in DOMAIN rec.timeline : out.timeline[i] = rec.timeline[i]
    BY <1>1, <1>2, AppendKeeps
  <1>5. /\ \A i \in DOMAIN rec.decisions :
             i \in DOMAIN out.decisions /\ out.decisions[i] = rec.decisions[i]
        /\ Len(out.decisions) > Len(rec.decisions)
    BY <1>1, <1>2, AppendKeeps
  <1>6. /\ Len(rec.decisions) + 1 \in DOMAIN out.decisions
        /\ out.decisions[Len(rec.decisions) + 1] = one
    BY <1>1, <1>2, AppendKeeps
  <1>7. out.decisions # <<>> /\ LastOf(out.decisions) = one
    BY <1>1, <1>2, LastOfAppend
  <1>8. DecisionGoverns(out)
    BY <1>2, <1>3, <1>7 DEF DecisionGoverns
  <1>9. Continues(rec, out)
    BY <1>4, <1>5 DEF Continues
  <1> QED
    BY <1>6, <1>8, <1>9 DEF out, one

LEMMA EvaluatedContinues ==
    ASSUME NEW rec \in Records, NEW o \in Outcomes \cup {Nil},
           DecisionGoverns(rec)
    PROVE  /\ Continues(rec, Evaluated(rec, o))
           /\ DecisionGoverns(Evaluated(rec, o))
  <1> DEFINE out == Evaluated(rec, o)
  <1>1. rec.timeline \in Seq(Statuses) /\ rec.status \in Statuses
    BY DEF Records
  <1>2. /\ out.status = rec.status
        /\ out.timeline = Append(rec.timeline, rec.status)
        /\ out.decisions = rec.decisions
        /\ out.evaluation.final = rec.evaluation.final
    BY DEF Evaluated, Records, Evaluations
  <1> HIDE DEF out
  <1>3. /\ Len(rec.timeline) <= Len(out.timeline)
        /\ \A i \in DOMAIN rec.timeline : out.timeline[i] = rec.timeline[i]
    BY <1>1, <1>2, AppendKeeps
  <1>4. DecisionGoverns(out)
    BY <1>2 DEF DecisionGoverns
  <1>5. Continues(rec, out)
    BY <1>2, <1>3 DEF Continues, CanRelease
  <1> QED
    BY <1>4, <1>5 DEF out

LEMMA RetriedContinues ==
    ASSUME NEW rec \in Records, NEW g \in BOOLEAN,
           rec.status = "FAILED", DecisionGoverns(rec)
    PROVE  /\ Continues(rec, Retried(rec, g))
           /\ DecisionGoverns(Retried(rec, g))
  <1> DEFINE start == [rec EXCEPT !.status = "CREATED",
                                  !.timeline = Append(@, "CREATED")]
             path == PipelinePath(g)
             out == Retried(rec, g)
  <1>1. rec.timeline \in Seq(Statuses) /\ "CREATED" \in Statuses
    BY DEF Records, Statuses
  <1>2. /\ start \in Records
        /\ start.timeline = Append(rec.timeline, "CREATED")
        /\ start.decisions = rec.decisions
        /\ start.evaluation = rec.evaluation
    BY <1>1, AppendProperties DEF Records
  <1>3. out = RunPipeline(start, g)
    BY DEF Retried
  <1> HIDE DEF start
  <1>4. /\ out.status = LastOf(path)
        /\ out.timeline = start.timeline \o path
        /\ out.decisions = start.decisions
        /\ out.evaluation = start.evaluation
    BY <1>2, <1>3 DEF RunPipeline, Records
  <1> HIDE DEF out
  <1>5. /\ path \in Seq(Statuses)
        /\ LastOf(path) \in {"WAITING_HUMAN_REVIEW", "RECOMMENDED"}
    BY PathEnds
  <1> HIDE DEF path
  <1>6. /\ start.timeline \in Seq(Statuses)
        /\ Len(rec.timeline) \in Nat
        /\ Len(start.timeline) = Len(rec.timeline) + 1
        /\ \A i \in DOMAIN rec.timeline :
             /\ i \in DOMAIN start.timeline
             /\ start.timeline[i] = rec.timeline[i]
    BY <1>1, <1>2, AppendKeeps
  <1>7. /\ Len(start.timeline) <= Len(out.timeline)
        /\ Len(out.timeline) \in Nat
        /\ \A i \in DOMAIN start.timeline : out.timeline[i] = start.timeline[i]
    BY <1>4, <1>5, <1>6, ConcatKeeps, LenProperties
  <1>8. Continues(rec, out)
    BY <1>2, <1>4, <1>6, <1>7 DEF Continues
  <1>9. rec.decisions = <<>> /\ rec.evaluation.final = Nil
    <2>1. rec.decisions = <<>>
      <3>1. ASSUME rec.decisions # <<>>
            PROVE  LastOf(rec.decisions).verdict \in Verdicts
        <4>1. rec.decisions \in Seq(HumanDecisions)
          BY DEF Records
        <4>2. Len(rec.decisions) \in 1 .. Len(rec.decisions)
          BY <3>1, <4>1, EmptySeq, LenProperties
        <4>3. LastOf(rec.decisions) \in HumanDecisions
          BY <4>1, <4>2, ElementOfSeq DEF LastOf
        <4> QED
          BY <4>3 DEF HumanDecisions
      <3>2. \A v \in Verdicts : StatusOf(v) # "FAILED"
        BY DEF Verdicts, StatusOf
      <3> QED
        BY <3>1, <3>2 DEF DecisionGoverns
    <2> QED
      BY <2>1 DEF DecisionGoverns
  <1>10. DecisionGoverns(out)
    BY <1>2, <1>4, <1>5, <1>9 DEF DecisionGoverns
  <1> QED
    BY <1>8, <1>10 DEF out

LEMMA NewGoverns ==
    ASSUME NEW k \in Keys \cup {Nil}, NEW g \in BOOLEAN
    PROVE  DecisionGoverns(NewRecord(k, g))
  <1> DEFINE start == [Blank EXCEPT !.key = k, !.timeline = <<"CREATED">>]
             out == NewRecord(k, g)
  <1>1. <<"CREATED">> \in Seq(Statuses)
    BY DEF Statuses
  <1>2. /\ start \in Records
        /\ start.decisions = <<>>
        /\ start.evaluation.final = Nil
    BY <1>1, BlankRecord DEF Records, Blank, NoEvaluation
  <1>3. out = RunPipeline(start, g)
    BY DEF NewRecord
  <1> HIDE DEF start
  <1>4. /\ out.status = LastOf(PipelinePath(g))
        /\ out.decisions = start.decisions
        /\ out.evaluation = start.evaluation
    BY <1>2, <1>3 DEF RunPipeline, Records
  <1>5. LastOf(PipelinePath(g)) \in {"WAITING_HUMAN_REVIEW", "RECOMMENDED"}
    BY PathEnds
  <1> HIDE DEF out
  <1>6. DecisionGoverns(out)
    BY <1>2, <1>4, <1>5 DEF DecisionGoverns
  <1> QED
    BY <1>6 DEF out

LEMMA FailedGoverns ==
    ASSUME NEW k \in Keys \cup {Nil}
    PROVE  DecisionGoverns(FailedRecord(k))
  <1>1. /\ FailedRecord(k).status = "FAILED"
        /\ FailedRecord(k).decisions = <<>>
        /\ FailedRecord(k).evaluation.final = Nil
    BY DEF FailedRecord, Blank, NoEvaluation
  <1> QED
    BY <1>1 DEF DecisionGoverns
-----------------------------------------------------------------------------
(***************************************************************************)
(* What a handler holds of a review is what is stored of it: nobody else   *)
(* saves between its load and its save.                                    *)
(***************************************************************************)
\* The identifiers given out so far are not above the counter.
Numbered == \A id \in DOMAIN records : id \in Nat => id <= counter

\* A decision carries the number of a request that was accepted.
Submitting(h) == call[h].op = "decide" => call[h].request \in 1 .. requests

\* The parts loaded so far are the stored ones.
Current(h) ==
    /\ phase[h] \in LoadedPhases =>
         /\ draft[h].key = records[reviewID[h]].key
         /\ draft[h].status = records[reviewID[h]].status
         /\ draft[h].gated = records[reviewID[h]].gated
    /\ phase[h] \in {"getDecisions", "getEvaluation", "loaded"} =>
         draft[h].timeline = records[reviewID[h]].timeline
    /\ phase[h] \in {"getEvaluation", "loaded"} =>
         draft[h].decisions = records[reviewID[h]].decisions
    /\ phase[h] = "loaded" =>
         draft[h].evaluation = records[reviewID[h]].evaluation

\* A record on its way to the store is new, ...
Fresh(h) ==
    /\ call[h].op = "create"
    /\ reviewID[h] \in Nat \ DOMAIN records
    /\ reviewID[h] <= counter
    /\ \E g \in BOOLEAN : draft[h] = NewRecord(call[h].key, g)

\* ... or what the request makes of the stored one.
Operated(h) ==
    /\ reviewID[h] \in DOMAIN records
    /\ \/ /\ call[h].op = "decide"
          /\ draft[h] = Decided(records[reviewID[h]], call[h].verdict,
                                call[h].request)
       \/ /\ call[h].op = "evaluate"
          /\ draft[h] = Evaluated(records[reviewID[h]], call[h].outcome)
       \/ /\ call[h].op = "retry"
          /\ records[reviewID[h]].status = "FAILED"
          /\ \E g \in BOOLEAN : draft[h] = Retried(records[reviewID[h]], g)

SInv ==
    /\ Numbered
    /\ \A h \in Handlers :
         /\ Submitting(h)
         /\ Current(h)
         /\ phase[h] = "save" => Fresh(h) \/ Operated(h)

LEMMA InitSerial == Init => SInv
  <1> SUFFICES ASSUME Init PROVE SInv
    OBVIOUS
  <1>1. DOMAIN records = Legacy
    BY DEF Init
  <1>2. Numbered
    BY <1>1, ConstantsAssumption DEF Numbered
  <1> QED
    BY <1>2 DEF Init, SInv, Submitting, Current, LoadedPhases, NoCall

\* A request that is answered leaves nothing to keep.
LEMMA FinishSerial ==
    ASSUME NEW h \in Handlers, Serial, IInv, Finish(h), Numbered'
    PROVE  SInv'
  <1>1. \A g \in Handlers : g = h
    BY DEF Serial
  <1>2. phase'[h] = "idle" /\ call'[h] = NoCall
    BY DEF Finish, GoTo, IInv, HandlersOK, HandlerTypes
  <1> QED
    BY <1>1, <1>2 DEF SInv, Submitting, Current, LoadedPhases, NoCall

LEMMA ArriveSerial ==
    ASSUME NEW h \in Handlers, Serial, IInv, SInv, Arrive(h)
    PROVE  SInv'
  <1>1. \A g \in Handlers : g = h
    BY DEF Serial
  <1>2. requests \in Nat
    BY ConstantsAssumption DEF IInv, CountsOK
  <1>3. ASSUME NEW c, NEW id, NEW next \in {"run", "lookup", "getReview"},
               Accept(h, c, id, next),
               c.op = "decide" => c.request = requests + 1
        PROVE  SInv'
    <2>1. phase'[h] = next /\ call'[h] = c
      BY <1>3 DEF Accept, GoTo, IInv, HandlersOK, HandlerTypes
    <2>2. Numbered'
      BY <1>3 DEF Accept, SInv, Numbered, store
    <2>3. Submitting(h)'
      BY <1>2, <1>3, <2>1 DEF Accept, Submitting
    <2>4. Current(h)'
      BY <2>1 DEF Current, LoadedPhases
    <2> QED
      BY <1>1, <2>1, <2>2, <2>3, <2>4 DEF SInv
  <1>4. CASE ArriveCreate(h)
    <2>1. PICK k \in Keys \cup {Nil} :
            Accept(h, [op |-> "create", key |-> k], Nil,
                   IF k = Nil THEN "run" ELSE "lookup")
      BY <1>4 DEF ArriveCreate
    <2> QED
      BY <1>3, <2>1
  <1>5. CASE ArriveDecide(h)
    <2>1. PICK id \in DOMAIN records \cup {Unknown}, v \in Submitted :
            Accept(h, [op |-> "decide", verdict |-> v,
                       request |-> requests + 1], id, "getReview")
      BY <1>5 DEF ArriveDecide
    <2> QED
      BY <1>3, <2>1
  <1>6. CASE ArriveEvaluate(h)
    <2>1. PICK id \in DOMAIN records \cup {Unknown},
               o \in Outcomes \cup {Nil} :
            Accept(h, [op |-> "evaluate", outcome |-> o], id, "getReview")
      BY <1>6 DEF ArriveEvaluate
    <2> QED
      BY <1>3, <2>1
  <1>7. CASE ArriveRetry(h)
    <2>1. PICK id \in DOMAIN records \cup {Unknown} :
            Accept(h, [op |-> "retry"], id, "getReview")
      BY <1>7 DEF ArriveRetry
    <2> QED
      BY <1>3, <2>1
  <1> QED
    BY <1>4, <1>5, <1>6, <1>7 DEF Arrive

\* The steps of a create before its save, and the answers of its lookups.
LEMMA CreateSerial ==
    ASSUME NEW h \in Handlers, Serial, IInv, SInv,
           LookUpExisting(h) \/ LookUpNotFound(h) \/ RunCreate(h) \/ Recheck(h)
    PROVE  SInv'
  <1>1. \A g \in Handlers : g = h
    BY DEF Serial
  <1>2. CASE LookUpExisting(h) \/ Recheck(h)
    <2>1. Finish(h) /\ UNCHANGED <<records, counter>>
      BY <1>2 DEF LookUpExisting, Recheck, store
    <2>2. Numbered'
      BY <2>1 DEF SInv, Numbered
    <2> QED
      BY <2>1, <2>2, FinishSerial
  <1>3. CASE LookUpNotFound(h)
    <2>1. phase'[h] = "run" /\ UNCHANGED <<call, requests, records, counter>>
      BY <1>3 DEF LookUpNotFound, GoTo, IInv, HandlersOK, HandlerTypes, store
    <2> QED
      BY <1>1, <2>1 DEF SInv, Numbered, Submitting, Current, LoadedPhases
  <1>4. CASE RunCreate(h)
    <2>1. PICK id \in NextIDs, g \in BOOLEAN :
            /\ counter' = id
            /\ reviewID' = [reviewID EXCEPT ![h] = id]
            /\ Loads(h, "save", NewRecord(call[h].key, g))
      BY <1>4 DEF RunCreate
    <2>2. counter \in Nat /\ id \in Nat /\ id > counter
      BY <2>1, ConstantsAssumption DEF NextIDs, IInv, CountsOK
    <2>3. UNCHANGED <<call, requests, records>>
      BY <1>4 DEF RunCreate, store
    <2>4. Numbered'
      BY <2>1, <2>2, <2>3 DEF SInv, Numbered
    <2>5. /\ phase'[h] = "save"
          /\ reviewID'[h] = id
          /\ draft'[h] = NewRecord(call[h].key, g)
      BY <2>1 DEF Loads, GoTo, IInv, HandlersOK, HandlerTypes
    <2>6. call[h].op = "create"
      BY <1>4 DEF RunCreate, IInv, HandlersOK, Fit
    <2>7. id \notin DOMAIN records
      BY <2>2 DEF SInv, Numbered
    <2>8. Fresh(h)'
      BY <2>1, <2>2, <2>3, <2>5, <2>6, <2>7 DEF Fresh
    <2>9. Submitting(h)' /\ Current(h)'
      BY <2>3, <2>5 DEF SInv, Submitting, Current, LoadedPhases
    <2> QED
      BY <1>1, <2>4, <2>8, <2>9 DEF SInv
  <1> QED
    BY <1>2, <1>3, <1>4

LEMMA LoadSerial ==
    ASSUME NEW h \in Handlers, Serial, IInv, SInv,
           GetReviewRow(h) \/ GetTimeline(h) \/ GetDecisions(h)
             \/ GetEvaluation(h)
    PROVE  SInv'
  <1>1. \A g \in Handlers : g = h
    BY DEF Serial
  <1>2. UNCHANGED <<records, counter, requests>>
    BY DEF GetReviewRow, GetTimeline, GetDecisions, GetEvaluation, Loading,
           store
  <1>3. Numbered'
    BY <1>2 DEF SInv, Numbered
  <1>4. draft[h] \in Records
    BY DEF IInv, HandlersOK, HandlerTypes
  <1>5. ASSUME NEW next \in LoadedPhases, NEW rec, Loads(h, next, rec),
               UNCHANGED <<call, reviewID>>
        PROVE  /\ phase'[h] = next /\ draft'[h] = rec
               /\ Current(h)' => SInv'
    <2>1. phase'[h] = next /\ draft'[h] = rec
      BY <1>5 DEF Loads, GoTo, IInv, HandlersOK, HandlerTypes
    <2>2. Submitting(h)'
      BY <1>2, <1>5 DEF SInv, Submitting
    <2>3. phase'[h] # "save"
      BY <2>1 DEF LoadedPhases
    <2> QED
      BY <1>1, <1>3, <2>1, <2>2, <2>3 DEF SInv
  <1>6. CASE GetReviewRow(h)
    <2>1. CASE reviewID[h] \in DOMAIN records
      <3> DEFINE row == records[reviewID[h]]
                 rec == [Blank EXCEPT !.key = row.key, !.status = row.status,
                                      !.gated = row.gated]
      <3>1. /\ rec.key = row.key
            /\ rec.status = row.status
            /\ rec.gated = row.gated
        BY DEF Blank
      <3>2. Loads(h, "getTimeline", rec) /\ UNCHANGED <<call, reviewID>>
        BY <1>6, <2>1 DEF GetReviewRow
      <3> HIDE DEF rec
      <3>3. phase'[h] = "getTimeline" /\ draft'[h] = rec
        BY <1>5, <3>2 DEF LoadedPhases
      <3>4. Current(h)'
        BY <1>2, <3>1, <3>2, <3>3 DEF Current
      <3> QED
        BY <1>5, <3>2, <3>4 DEF LoadedPhases
    <2>2. CASE reviewID[h] \notin DOMAIN records
      BY <1>3, <1>6, <2>2, FinishSerial DEF GetReviewRow
    <2> QED
      BY <2>1, <2>2
  <1>7. CASE GetTimeline(h)
    <2> DEFINE rec == [draft[h] EXCEPT !.timeline =
                           records[reviewID[h]].timeline]
    <2>1. /\ rec.key = draft[h].key
          /\ rec.status = draft[h].status
          /\ rec.gated = draft[h].gated
          /\ rec.timeline = records[reviewID[h]].timeline
      BY <1>4 DEF Records
    <2>2. /\ phase[h] = "getTimeline"
          /\ Loads(h, "getDecisions", rec)
          /\ UNCHANGED <<call, reviewID>>
      BY <1>7 DEF GetTimeline, Loading
    <2> HIDE DEF rec
    <2>3. phase'[h] = "getDecisions" /\ draft'[h] = rec
      BY <1>5, <2>2 DEF LoadedPhases
    <2>4. Current(h)
      BY DEF SInv
    <2>5. Current(h)'
      BY <1>2, <2>1, <2>2, <2>3, <2>4 DEF Current, LoadedPhases
    <2> QED
      BY <1>5, <2>2, <2>5 DEF LoadedPhases
  <1>8. CASE GetDecisions(h)
    <2> DEFINE rec == [draft[h] EXCEPT
                         !.decisions = records[reviewID[h]].decisions]
    <2>1. /\ rec.key = draft[h].key
          /\ rec.status = draft[h].status
          /\ rec.gated = draft[h].gated
          /\ rec.timeline = draft[h].timeline
          /\ rec.decisions = records[reviewID[h]].decisions
      BY <1>4 DEF Records
    <2>2. /\ phase[h] = "getDecisions"
          /\ Loads(h, "getEvaluation", rec)
          /\ UNCHANGED <<call, reviewID>>
      BY <1>8 DEF GetDecisions, Loading
    <2> HIDE DEF rec
    <2>3. phase'[h] = "getEvaluation" /\ draft'[h] = rec
      BY <1>5, <2>2 DEF LoadedPhases
    <2>4. Current(h)
      BY DEF SInv
    <2>5. Current(h)'
      BY <1>2, <2>1, <2>2, <2>3, <2>4 DEF Current, LoadedPhases
    <2> QED
      BY <1>5, <2>2, <2>5 DEF LoadedPhases
  <1>9. CASE GetEvaluation(h)
    <2> DEFINE rec == [draft[h] EXCEPT
                         !.evaluation = records[reviewID[h]].evaluation]
    <2>1. /\ rec.key = draft[h].key
          /\ rec.status = draft[h].status
          /\ rec.gated = draft[h].gated
          /\ rec.timeline = draft[h].timeline
          /\ rec.decisions = draft[h].decisions
          /\ rec.evaluation = records[reviewID[h]].evaluation
      BY <1>4 DEF Records
    <2>2. /\ phase[h] = "getEvaluation"
          /\ Loads(h, "loaded", rec)
          /\ UNCHANGED <<call, reviewID>>
      BY <1>9 DEF GetEvaluation, Loading
    <2> HIDE DEF rec
    <2>3. phase'[h] = "loaded" /\ draft'[h] = rec
      BY <1>5, <2>2 DEF LoadedPhases
    <2>4. Current(h)
      BY DEF SInv
    <2>5. Current(h)'
      BY <1>2, <2>1, <2>2, <2>3, <2>4 DEF Current, LoadedPhases
    <2> QED
      BY <1>5, <2>2, <2>5 DEF LoadedPhases
  <1> QED
    BY <1>6, <1>7, <1>8, <1>9

\* The load is complete: the draft is the stored record.
LEMMA LoadedRecord ==
    ASSUME NEW h \in Handlers, IInv, SInv, phase[h] = "loaded"
    PROVE  reviewID[h] \in DOMAIN records /\ draft[h] = records[reviewID[h]]
  <1>1. reviewID[h] \in DOMAIN records /\ draft[h] \in Records
    BY DEF IInv, HandlersOK, HandlerTypes, Fit, LoadedPhases
  <1>2. records[reviewID[h]] \in Records
    BY <1>1 DEF IInv, StoreOK, Savable
  <1>3. Current(h)
    BY DEF SInv
  <1>4. \A a, b \in Records :
          /\ a.key = b.key /\ a.status = b.status /\ a.gated = b.gated
          /\ a.timeline = b.timeline /\ a.decisions = b.decisions
          /\ a.evaluation = b.evaluation
          => a = b
    BY DEF Records
  <1> QED
    BY <1>1, <1>2, <1>3, <1>4 DEF Current, LoadedPhases

LEMMA OperateSerial ==
    ASSUME NEW h \in Handlers, Serial, IInv, SInv,
           SubmitHumanDecision(h) \/ UpdateEvaluation(h) \/ RetryReview(h)
    PROVE  SInv'
  <1>1. \A g \in Handlers : g = h
    BY DEF Serial
  <1>2. phase[h] = "loaded" /\ UNCHANGED <<records, counter, requests>>
    BY DEF SubmitHumanDecision, UpdateEvaluation, RetryReview, Operating, store
  <1>3. Numbered'
    BY <1>2 DEF SInv, Numbered
  <1>4. reviewID[h] \in DOMAIN records /\ draft[h] = records[reviewID[h]]
    BY <1>2, LoadedRecord
  <1>5. ASSUME NEW rec, Loads(h, "save", rec), UNCHANGED <<call, reviewID>>
        PROVE  /\ phase'[h] = "save" /\ draft'[h] = rec
               /\ Operated(h)' => SInv'
    <2>1. phase'[h] = "save" /\ draft'[h] = rec
      BY <1>5 DEF Loads, GoTo, IInv, HandlersOK, HandlerTypes
    <2>2. Submitting(h)'
      BY <1>2, <1>5 DEF SInv, Submitting
    <2>3. Current(h)'
      BY <2>1 DEF Current, LoadedPhases
    <2> QED
      BY <1>1, <1>3, <2>1, <2>2, <2>3 DEF SInv
  <1>6. CASE SubmitHumanDecision(h)
    <2>1. CASE call[h].verdict \in Verdicts
      <3>1. /\ call[h].op = "decide"
            /\ Loads(h, "save", Decided(draft[h], call[h].verdict,
                                        call[h].request))
            /\ UNCHANGED <<call, reviewID>>
        BY <1>6, <2>1 DEF SubmitHumanDecision, Operating
      <3>2. Operated(h)'
        BY <1>2, <1>4, <1>5, <3>1 DEF Operated
      <3> QED
        BY <1>5, <3>1, <3>2
    <2>2. CASE call[h].verdict \notin Verdicts
      BY <1>3, <1>6, <2>2, FinishSerial DEF SubmitHumanDecision
    <2> QED
      BY <2>1, <2>2
  <1>7. CASE UpdateEvaluation(h)
    <2>1. /\ call[h].op = "evaluate"
          /\ Loads(h, "save", Evaluated(draft[h], call[h].outcome))
          /\ UNCHANGED <<call, reviewID>>
      BY <1>7 DEF UpdateEvaluation, Operating
    <2>2. Operated(h)'
      BY <1>2, <1>4, <1>5, <2>1 DEF Operated
    <2> QED
      BY <1>5, <2>1, <2>2
  <1>8. CASE RetryReview(h)
    <2>1. CASE draft[h].status = "FAILED"
      <3>1. PICK g \in BOOLEAN : Loads(h, "save", Retried(draft[h], g))
        BY <1>8, <2>1 DEF RetryReview
      <3>2. call[h].op = "retry" /\ UNCHANGED <<call, reviewID>>
        BY <1>8, <2>1 DEF RetryReview, Operating
      <3>3. Operated(h)'
        BY <1>2, <1>4, <1>5, <2>1, <3>1, <3>2 DEF Operated
      <3> QED
        BY <1>5, <3>1, <3>2, <3>3
    <2>2. CASE draft[h].status # "FAILED"
      BY <1>3, <1>8, <2>2, FinishSerial DEF RetryReview
    <2> QED
      BY <2>1, <2>2
  <1> QED
    BY <1>6, <1>7, <1>8

LEMMA SaveSerial ==
    ASSUME NEW h \in Handlers, Serial, IInv, SInv,
           SaveOk(h) \/ SaveConflict(h) \/ CommitAnswerLost(h) \/ QueryFails(h)
    PROVE  SInv'
  <1>1. \A g \in Handlers : g = h
    BY DEF Serial
  <1>2. CASE SaveOk(h) \/ CommitAnswerLost(h)
    <2>1. phase[h] = "save" /\ Write(h) /\ Finish(h) /\ counter' = counter
      BY <1>2 DEF SaveOk, CommitAnswerLost
    <2>2. reviewID[h] \in Nat => reviewID[h] <= counter
      BY <2>1 DEF SInv, Numbered, Fresh, Operated
    <2>3. Numbered'
      BY <2>1, <2>2 DEF SInv, Numbered, Write, Put
    <2> QED
      BY <2>1, <2>3, FinishSerial
  <1>3. CASE SaveConflict(h) \/ QueryFails(h)
    <2>1. UNCHANGED <<records, counter, requests>>
      BY <1>3 DEF SaveConflict, QueryFails, store
    <2>2. Numbered'
      BY <2>1 DEF SInv, Numbered
    <2>3. CASE Finish(h)
      BY <2>2, <2>3, FinishSerial
    <2>4. CASE GoTo(h, "recheck") /\ UNCHANGED call
      <3>1. phase'[h] = "recheck"
        BY <2>4 DEF GoTo, IInv, HandlersOK, HandlerTypes
      <3> QED
        BY <1>1, <2>1, <2>2, <2>4, <3>1
           DEF SInv, Submitting, Current, LoadedPhases
    <2> QED
      BY <1>3, <2>3, <2>4 DEF SaveConflict, QueryFails
  <1> QED
    BY <1>2, <1>3

LEMMA StepSerial ==
    ASSUME Serial, MaxRestarts = 0
    PROVE  IInv /\ SInv /\ [Next]_vars => SInv'
  <1> SUFFICES ASSUME IInv, SInv, [Next]_vars PROVE SInv'
    OBVIOUS
  <1>1. ~Restart
    BY DEF Restart, IInv, CountsOK
  <1>2. ASSUME NEW h \in Handlers, Arrive(h) PROVE SInv'
    BY <1>2, ArriveSerial
  <1>3. ASSUME NEW h \in Handlers, Serve(h) PROVE SInv'
    BY <1>3, CreateSerial, LoadSerial, OperateSerial, SaveSerial DEF Serve
  <1>4. CASE UNCHANGED vars
    BY <1>4 DEF vars, store, handler, SInv, Numbered, Submitting, Current,
                Fresh, Operated
  <1> QED
    BY <1>1, <1>2, <1>3, <1>4 DEF Next

LEMMA SerialInvariance ==
    ASSUME Serial, MaxRestarts = 0
    PROVE  Spec => [](IInv /\ SInv)
  <1>1. IInv /\ SInv /\ [Next]_vars => SInv'
    BY StepSerial
  <1> QED
    BY <1>1, InitSerial, Invariance, PTL DEF Spec
-----------------------------------------------------------------------------
(***************************************************************************)
(* What a step does to the stored records.                                 *)
(***************************************************************************)
\* A step leaves the records alone or stores one handler's draft.
LEMMA StepWrites ==
    ASSUME MaxRestarts = 0, IInv, [Next]_vars
    PROVE  \/ UNCHANGED records
           \/ \E h \in Handlers :
                /\ phase[h] = "save"
                /\ records' = Put(records, reviewID[h], draft[h])
  <1>1. ~Restart
    BY DEF Restart, IInv, CountsOK
  <1>2. ASSUME NEW h \in Handlers, Arrive(h) PROVE UNCHANGED records
    BY <1>2 DEF Arrive, ArriveCreate, ArriveDecide, ArriveEvaluate, ArriveRetry,
                Accept, store
  <1>3. ASSUME NEW h \in Handlers, Serve(h)
        PROVE  \/ UNCHANGED records
               \/ /\ phase[h] = "save"
                  /\ records' = Put(records, reviewID[h], draft[h])
    <2>1. CASE SaveOk(h) \/ CommitAnswerLost(h)
      BY <2>1 DEF SaveOk, CommitAnswerLost, Write
    <2>2. CASE GetReviewRow(h) \/ GetTimeline(h) \/ GetDecisions(h)
                 \/ GetEvaluation(h)
      BY <2>2 DEF GetReviewRow, GetTimeline, GetDecisions, GetEvaluation,
                  Loading, store
    <2>3. CASE SubmitHumanDecision(h) \/ UpdateEvaluation(h) \/ RetryReview(h)
      BY <2>3 DEF SubmitHumanDecision, UpdateEvaluation, RetryReview, Operating,
                  store
    <2>4. CASE LookUpExisting(h) \/ LookUpNotFound(h) \/ RunCreate(h)
                 \/ Recheck(h) \/ SaveConflict(h) \/ QueryFails(h)
      BY <2>4 DEF LookUpExisting, LookUpNotFound, RunCreate, Recheck,
                  SaveConflict, QueryFails, store
    <2> QED
      BY <1>3, <2>1, <2>2, <2>3, <2>4 DEF Serve
  <1> QED
    BY <1>1, <1>2, <1>3 DEF Next, vars, store

\* A draft on its way to the store is a new review or continues the stored one.
LEMMA DraftContinues ==
    ASSUME NEW h \in Handlers, IInv, SInv, DecisionsGovern, phase[h] = "save"
    PROVE  /\ DecisionGoverns(draft[h])
           /\ reviewID[h] \in DOMAIN records =>
                Continues(records[reviewID[h]], draft[h])
           /\ call[h].op = "decide" =>
                \E i \in DOMAIN draft[h].decisions :
                  draft[h].decisions[i] = [verdict |-> call[h].verdict,
                                           request |-> call[h].request]
  <1>1. /\ call[h] \in Calls
        /\ call[h].op = "decide" => call[h].verdict \in Verdicts
    BY DEF IInv, HandlersOK, HandlerTypes, Fit
  <1>2. CASE Fresh(h)
    <2>1. PICK g \in BOOLEAN : draft[h] = NewRecord(call[h].key, g)
      BY <1>2 DEF Fresh
    <2>2. call[h].op = "create" /\ call[h].key \in Keys \cup {Nil}
      BY <1>1, <1>2 DEF Fresh, Calls
    <2>3. DecisionGoverns(draft[h])
      BY <2>1, <2>2, NewGoverns
    <2> QED
      BY <1>2, <2>2, <2>3 DEF Fresh
  <1>3. CASE Operated(h)
    <2> DEFINE now == records[reviewID[h]]
    <2>1. now \in Records /\ DecisionGoverns(now)
      BY <1>3 DEF Operated, IInv, StoreOK, Savable, DecisionsGovern
    <2>2. CASE call[h].op = "decide"
      <3>1. draft[h] = Decided(now, call[h].verdict, call[h].request)
        BY <1>3, <2>2 DEF Operated
      <3>2. call[h].verdict \in Verdicts /\ call[h].request \in Nat
        BY <1>1, <2>2 DEF Calls
      <3> HIDE DEF now
      <3>3. /\ Continues(now, draft[h])
            /\ DecisionGoverns(draft[h])
            /\ \E i \in DOMAIN draft[h].decisions :
                 draft[h].decisions[i] = [verdict |-> call[h].verdict,
                                          request |-> call[h].request]
        BY <2>1, <3>1, <3>2, DecidedContinues
      <3> QED
        BY <3>3 DEF now
    <2>3. CASE call[h].op = "evaluate"
      <3>1. draft[h] = Evaluated(now, call[h].outcome)
        BY <1>3, <2>3 DEF Operated
      <3>2. call[h].outcome \in Outcomes \cup {Nil}
        BY <1>1, <2>3 DEF Calls
      <3> HIDE DEF now
      <3>3. Continues(now, draft[h]) /\ DecisionGoverns(draft[h])
        BY <2>1, <3>1, <3>2, EvaluatedContinues
      <3> QED
        BY <2>3, <3>3 DEF now
    <2>4. CASE call[h].op = "retry"
      <3>1. PICK g \in BOOLEAN : draft[h] = Retried(now, g)
        BY <1>3, <2>4 DEF Operated
      <3>2. now.status = "FAILED"
        BY <1>3, <2>4 DEF Operated
      <3> HIDE DEF now
      <3>3. Continues(now, draft[h]) /\ DecisionGoverns(draft[h])
        BY <2>1, <3>1, <3>2, RetriedContinues
      <3> QED
        BY <2>4, <3>3 DEF now
    <2> QED
      BY <1>3, <2>2, <2>3, <2>4 DEF Operated
  <1> QED
    BY <1>2, <1>3 DEF SInv

\* So every stored record is continued by every step.
LEMMA StepContinues ==
    ASSUME MaxRestarts = 0, IInv, SInv, DecisionsGovern, [Next]_vars
    PROVE  /\ DecisionsGovern'
           /\ \A id \in DOMAIN records :
                id \in DOMAIN records' /\ Continues(records[id], records'[id])
  <1>1. \A id \in DOMAIN records : records[id] \in Records
    BY DEF IInv, StoreOK, Savable
  <1>2. \A id \in DOMAIN records : Continues(records[id], records[id])
    BY <1>1, ContinuesItself
  <1>3. CASE UNCHANGED records
    BY <1>2, <1>3 DEF DecisionsGovern
  <1>4. ASSUME NEW h \in Handlers, phase[h] = "save",
               records' = Put(records, reviewID[h], draft[h])
        PROVE  /\ DecisionsGovern'
               /\ \A id \in DOMAIN records :
                    /\ id \in DOMAIN records'
                    /\ Continues(records[id], records'[id])
    <2>1. /\ DecisionGoverns(draft[h])
          /\ reviewID[h] \in DOMAIN records =>
               Continues(records[reviewID[h]], draft[h])
      BY <1>4, DraftContinues
    <2>2. /\ DOMAIN records' = DOMAIN records \cup {reviewID[h]}
          /\ \A id \in DOMAIN records' :
               records'[id] = IF id = reviewID[h] THEN draft[h] ELSE records[id]
      BY <1>4 DEF Put
    <2> QED
      BY <1>2, <2>1, <2>2 DEF DecisionsGovern
  <1> QED
    BY <1>3, <1>4, StepWrites

LEMMA InitGoverns == Init => DecisionsGovern
  <1> SUFFICES ASSUME Init PROVE DecisionsGovern
    OBVIOUS
  <1>1. PICK keyOf \in [Legacy -> Keys \cup {Nil}] :
          records = [l \in Legacy |-> FailedRecord(keyOf[l])]
    BY DEF Init
  <1> QED
    BY <1>1, FailedGoverns DEF DecisionsGovern

\* The last decision, the status and the final decision of the evaluation are
\* one in every stored review, when requests are served one at a time
\* (SubmitHumanDecision sets all three).
THEOREM LastDecisionGoverns ==
    ASSUME Serial, MaxRestarts = 0
    PROVE  Spec => []DecisionsGovern
  <1>1. IInv /\ SInv /\ DecisionsGovern /\ [Next]_vars => DecisionsGovern'
    BY StepContinues
  <1> QED
    BY <1>1, InitGoverns, SerialInvariance, PTL DEF Spec

\* Under the same assumptions no step takes an event out of the timeline of a
\* stored review (replaceAuditEvents deletes and inserts them).
THEOREM TimelineKept ==
    ASSUME Serial, MaxRestarts = 0
    PROVE  Spec => TimelineAppendOnly
  <1>1. IInv /\ SInv /\ DecisionsGovern /\ [Next]_vars =>
          [\A id \in DOMAIN records :
             /\ id \in DOMAIN records'
             /\ Len(records[id].timeline) <= Len(records'[id].timeline)
             /\ \A i \in DOMAIN records[id].timeline :
                  records'[id].timeline[i] = records[id].timeline[i]]_vars
    BY StepContinues DEF Continues
  <1> QED
    BY <1>1, SerialInvariance, LastDecisionGoverns, PTL
       DEF Spec, TimelineAppendOnly

\* Under the same assumptions a rejected review becomes releasable only by
\* another decision.
THEOREM RejectionKept ==
    ASSUME Serial, MaxRestarts = 0
    PROVE  Spec => RejectionSticks
  <1>1. IInv /\ SInv /\ DecisionsGovern /\ [Next]_vars =>
          [\A id \in DOMAIN records \cap DOMAIN records' :
             records[id].status = "REJECTED" /\ CanRelease(records'[id].status)
               => Len(records'[id].decisions) > Len(records[id].decisions)]_vars
    BY StepContinues DEF Continues
  <1> QED
    BY <1>1, SerialInvariance, LastDecisionGoverns, PTL
       DEF Spec, RejectionSticks

\* Under the same assumptions every acknowledged decision stays in the
\* decisions of its review.
THEOREM DecisionIsKept ==
    ASSUME Serial, MaxRestarts = 0
    PROVE  Spec => []AckedDecisionKept
  <1>1. Init => AckedDecisionKept
    BY DEF Init, AckedDecisionKept
  <1>2. ASSUME IInv, SInv, DecisionsGovern, AckedDecisionKept, [Next]_vars
        PROVE  AckedDecisionKept'
    <2>1. \A id \in DOMAIN records :
            id \in DOMAIN records' /\ Continues(records[id], records'[id])
      BY <1>2, StepContinues
    <2>2. ASSUME NEW a \in decisionAcks
          PROVE  /\ a.id \in DOMAIN records'
                 /\ \E i \in DOMAIN records'[a.id].decisions :
                      records'[a.id].decisions[i] =
                        [verdict |-> a.verdict, request |-> a.request]
      <3>1. a.id \in DOMAIN records
        BY <1>2 DEF AckedDecisionKept
      <3>2. PICK i \in DOMAIN records[a.id].decisions :
              records[a.id].decisions[i] =
                [verdict |-> a.verdict, request |-> a.request]
        BY <1>2 DEF AckedDecisionKept
      <3> QED
        BY <2>1, <3>1, <3>2 DEF Continues
    <2>3. ASSUME NEW h \in Handlers, SaveOk(h), call[h].op = "decide"
          PROVE  AckedDecisionKept'
      <3> DEFINE ack == [id |-> reviewID[h], verdict |-> call[h].verdict,
                         request |-> call[h].request]
      <3>1. phase[h] = "save" /\ records' = Put(records, reviewID[h], draft[h])
        BY <2>3 DEF SaveOk, Write
      <3>2. /\ reviewID[h] \in DOMAIN records'
            /\ records'[reviewID[h]] = draft[h]
        BY <3>1 DEF Put
      <3>3. \E i \in DOMAIN draft[h].decisions :
              draft[h].decisions[i] = [verdict |-> call[h].verdict,
                                       request |-> call[h].request]
        BY <1>2, <2>3, <3>1, DraftContinues
      <3>4. decisionAcks' = decisionAcks \cup {ack}
        BY <2>3 DEF SaveOk, AckDecision
      <3>5. /\ ack.id = reviewID[h]
            /\ ack.verdict = call[h].verdict
            /\ ack.request = call[h].request
        OBVIOUS
      <3> HIDE DEF ack
      <3> QED
        BY <2>2, <3>2, <3>3, <3>4, <3>5 DEF AckedDecisionKept
    <2>4. CASE UNCHANGED decisionAcks
      BY <2>2, <2>4 DEF AckedDecisionKept
    <2>5. \/ UNCHANGED decisionAcks
          \/ \E h \in Handlers : SaveOk(h) /\ call[h].op = "decide"
      <3>1. ASSUME NEW h \in Handlers, Arrive(h)
            PROVE  UNCHANGED decisionAcks
        BY <3>1 DEF Arrive, ArriveCreate, ArriveDecide, ArriveEvaluate,
                    ArriveRetry, Accept, acks
      <3>2. ASSUME NEW h \in Handlers, Serve(h)
            PROVE  \/ UNCHANGED decisionAcks
                   \/ SaveOk(h) /\ call[h].op = "decide"
        <4>1. CASE SaveOk(h)
          BY <4>1 DEF SaveOk, AckCreate, acks
        <4>2. CASE LookUpExisting(h) \/ Recheck(h)
          BY <4>2 DEF LookUpExisting, Recheck, AckCreate, acks
        <4>3. CASE GetReviewRow(h) \/ GetTimeline(h) \/ GetDecisions(h)
                     \/ GetEvaluation(h)
          BY <4>3 DEF GetReviewRow, GetTimeline, GetDecisions, GetEvaluation,
                      Loading, acks
        <4>4. CASE SubmitHumanDecision(h) \/ UpdateEvaluation(h)
                     \/ RetryReview(h)
          BY <4>4 DEF SubmitHumanDecision, UpdateEvaluation, RetryReview,
                      Operating, acks
        <4>5. CASE LookUpNotFound(h) \/ RunCreate(h) \/ SaveConflict(h)
                     \/ CommitAnswerLost(h) \/ QueryFails(h)
          BY <4>5 DEF LookUpNotFound, RunCreate, SaveConflict,
                      CommitAnswerLost, QueryFails, acks
        <4> QED
          BY <3>2, <4>1, <4>2, <4>3, <4>4, <4>5 DEF Serve
      <3>3. CASE Restart
        BY <3>3 DEF Restart, acks
      <3> QED
        BY <1>2, <3>1, <3>2, <3>3 DEF Next, vars, acks
    <2> QED
      BY <2>3, <2>4, <2>5
  <1>3. IInv /\ SInv /\ DecisionsGovern /\ AckedDecisionKept /\ [Next]_vars
          => AckedDecisionKept'
    BY <1>2
  <1> QED
    BY <1>1, <1>3, SerialInvariance, LastDecisionGoverns, PTL DEF Spec
-----------------------------------------------------------------------------
(***************************************************************************)
(* The refinement: the stored records are the lifecycle's current ones.    *)
(***************************************************************************)
\* The lifecycle computes records as the service does.
LEMMA SameOperators ==
    /\ \A f, x, v : Life!Put(f, x, v) = Put(f, x, v)
    /\ \A k : Life!FailedRecord(k) = FailedRecord(k)
    /\ \A k, g : Life!NewRecord(k, g) = NewRecord(k, g)
    /\ \A rec, v, r : Life!Decided(rec, v, r) = Decided(rec, v, r)
    /\ \A rec, o : Life!Evaluated(rec, o) = Evaluated(rec, o)
    /\ \A rec, g : Life!Retried(rec, g) = Retried(rec, g)
    /\ Life!Verdicts = Verdicts
  <1>1. \A f, x, v : Life!Put(f, x, v) = Put(f, x, v)
    BY Zenon DEF Life!Put, Put
  <1>2. \A k : Life!FailedRecord(k) = FailedRecord(k)
    BY Zenon DEF Life!FailedRecord, FailedRecord, Life!Blank, Blank,
                 Life!NoEvaluation, NoEvaluation
  <1>3. \A k, g : Life!NewRecord(k, g) = NewRecord(k, g)
    BY Zenon DEF Life!NewRecord, NewRecord, Life!RunPipeline, RunPipeline,
                 Life!PipelinePath, PipelinePath, Life!LastOf, LastOf,
                 Life!Blank, Blank, Life!NoEvaluation, NoEvaluation
  <1>4. \A rec, v, r : Life!Decided(rec, v, r) = Decided(rec, v, r)
    BY Zenon DEF Life!Decided, Decided, Life!StatusOf, StatusOf
  <1>5. \A rec, o : Life!Evaluated(rec, o) = Evaluated(rec, o)
    BY Zenon DEF Life!Evaluated, Evaluated
  <1>6. \A rec, g : Life!Retried(rec, g) = Retried(rec, g)
    BY Zenon DEF Life!Retried, Retried, Life!RunPipeline, RunPipeline,
                 Life!PipelinePath, PipelinePath, Life!LastOf, LastOf
  <1>7. Life!Verdicts = Verdicts
    BY DEF Life!Verdicts, Verdicts
  <1> QED
    BY <1>1, <1>2, <1>3, <1>4, <1>5, <1>6, <1>7

LEMMA InitAtomic == Init => Life!AtomicInit
  <1> SUFFICES ASSUME Init PROVE Life!AtomicInit
    OBVIOUS
  <1>1. PICK keyOf \in [Legacy -> Keys \cup {Nil}] :
          records = [l \in Legacy |-> FailedRecord(keyOf[l])]
    BY DEF Init
  <1> QED
    BY <1>1, SameOperators DEF Life!AtomicInit

LEMMA StepAtomic ==
    ASSUME MaxRestarts = 0, IInv, SInv, [Next]_vars
    PROVE  [Life!AtomicNext]_records
  <1>1. ASSUME NEW h \in Handlers, phase[h] = "save",
               records' = Put(records, reviewID[h], draft[h])
        PROVE  Life!AtomicNext
    <2>1. records' = Life!Put(records, reviewID[h], draft[h])
      BY <1>1, SameOperators
    <2>2. call[h] \in Calls
      BY DEF IInv, HandlersOK, HandlerTypes
    <2>3. CASE Fresh(h)
      <3>1. PICK g \in BOOLEAN : draft[h] = NewRecord(call[h].key, g)
        BY <2>3 DEF Fresh
      <3>2. call[h].key \in Keys \cup {Nil} /\ reviewID[h] \in Nat
        BY <2>2, <2>3 DEF Fresh, Calls
      <3>3. reviewID[h] \in DOMAIN records' \ DOMAIN records
        BY <1>1, <2>3 DEF Fresh, Put
      <3>4. draft[h] = Life!NewRecord(call[h].key, g)
        BY <3>1, SameOperators
      <3>5. Life!Opened
        BY <2>1, <3>2, <3>3, <3>4 DEF Life!Opened
      <3> QED
        BY <3>5 DEF Life!AtomicNext
    <2>4. CASE Operated(h)
      <3> DEFINE now == records[reviewID[h]]
      <3>1. reviewID[h] \in DOMAIN records
        BY <2>4 DEF Operated
      <3>2. draft[h] \in Life!Successors(now)
        <4>1. CASE call[h].op = "decide"
          <5>1. draft[h] = Life!Decided(now, call[h].verdict, call[h].request)
            BY <2>4, <4>1, SameOperators DEF Operated
          <5>2. call[h].verdict \in Life!Verdicts
            BY <1>1, <4>1, SameOperators DEF IInv, HandlersOK, Fit
          <5>3. /\ call[h].request \in 1 .. requests
                /\ requests \in 0 .. MaxRequests
            BY <4>1 DEF SInv, Submitting, IInv, CountsOK
          <5>4. call[h].request \in 1 .. MaxRequests
            BY <5>3, ConstantsAssumption
          <5> QED
            BY <5>1, <5>2, <5>4 DEF Life!Successors
        <4>2. CASE call[h].op = "evaluate"
          <5>1. draft[h] = Life!Evaluated(now, call[h].outcome)
            BY <2>4, <4>2, SameOperators DEF Operated
          <5>2. call[h].outcome \in Outcomes \cup {Nil}
            BY <2>2, <4>2 DEF Calls
          <5> QED
            BY <5>1, <5>2 DEF Life!Successors
        <4>3. CASE call[h].op = "retry"
          <5>1. /\ now.status = "FAILED"
                /\ \E g \in BOOLEAN : draft[h] = Life!Retried(now, g)
            BY <2>4, <4>3, SameOperators DEF Operated
          <5> QED
            BY <5>1 DEF Life!Successors
        <4> QED
          BY <2>4, <4>1, <4>2, <4>3 DEF Operated
      <3>3. Life!OperatedAtomically
        BY <2>1, <3>1, <3>2 DEF Life!OperatedAtomically
      <3> QED
        BY <3>3 DEF Life!AtomicNext
    <2> QED
      BY <1>1, <2>3, <2>4 DEF SInv
  <1> QED
    BY <1>1, StepWrites

\* Served one at a time, without restarts, the service implements the atomic
\* lifecycle of a review in either store: every save is one whole operation on
\* the record that is stored, although the load before it takes four queries
\* and any query may fail (SubmitHumanDecision, UpdateEvaluation and
\* RetryReview of service.go).
THEOREM ServiceIsAtomic ==
    ASSUME Serial, MaxRestarts = 0
    PROVE  Spec => ImplementsAtomic
  <1>1. IInv /\ SInv /\ [Next]_vars => [Life!AtomicNext]_records
    BY StepAtomic
  <1> QED
    BY <1>1, InitAtomic, SerialInvariance, PTL
       DEF Spec, ImplementsAtomic, Life!AtomicSpec
=============================================================================
