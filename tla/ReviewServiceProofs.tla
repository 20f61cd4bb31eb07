------------------------ MODULE ReviewServiceProofs ------------------------
(***************************************************************************)
(* Theorems of ReviewService, for every value of its constants: the type   *)
(* invariant, the coherence of every stored record, and, on Postgres while *)
(* the process does not restart, that creates are idempotent and what they *)
(* acknowledged is kept.                                                   *)
(***************************************************************************)
EXTENDS ReviewService, TLAPS, SequenceTheorems

(***************************************************************************)
(* What the operations make of a record.                                   *)
(***************************************************************************)

\* The last element of a concatenation is the last of its second part.
LEMMA LastOfConcat ==
    ASSUME NEW S, NEW s \in Seq(S), NEW t \in Seq(S), t # <<>>
    PROVE  /\ s \o t \in Seq(S)
           /\ s \o t # <<>>
           /\ LastOf(s \o t) = LastOf(t)
  <1>1. Len(t) > 0 /\ Len(t) \in Nat /\ Len(s) \in Nat
    BY EmptySeq, LenProperties
  <1>2. /\ s \o t \in Seq(S)
        /\ Len(s \o t) = Len(s) + Len(t)
        /\ (s \o t)[Len(s) + Len(t)] = t[Len(t)]
    BY <1>1, ConcatProperties
  <1> QED
    BY <1>1, <1>2 DEF LastOf

\* The last element of an appended sequence is the appended one.
LEMMA LastOfAppend ==
    ASSUME NEW S, NEW s \in Seq(S), NEW e \in S
    PROVE  /\ Append(s, e) \in Seq(S)
           /\ Append(s, e) # <<>>
           /\ LastOf(Append(s, e)) = e
  BY AppendProperties, LenProperties DEF LastOf

\* The pipeline ends where its gate says.
LEMMA PathEnds ==
    ASSUME NEW g \in BOOLEAN
    PROVE  /\ PipelinePath(g) \in Seq(Statuses)
           /\ PipelinePath(g) # <<>>
           /\ LastOf(PipelinePath(g)) =
                IF g THEN "WAITING_HUMAN_REVIEW" ELSE "RECOMMENDED"
  <1> DEFINE stages == <<"NORMALIZED", "UNDERSTOOD", "COLLECTING_CONTEXT",
                         "CONTEXT_READY", "SIGNALS_EXTRACTED", "SCORED",
                         "RECOMMENDED">>
             wait == <<"WAITING_HUMAN_REVIEW">>
  <1>1. stages \in Seq(Statuses) /\ wait \in Seq(Statuses)
    BY DEF Statuses
  <1>2. wait # <<>> /\ LastOf(wait) = "WAITING_HUMAN_REVIEW"
    BY DEF LastOf
  <1>3. stages # <<>> /\ LastOf(stages) = "RECOMMENDED"
    BY DEF LastOf
  <1>4. stages \o <<>> = stages
    BY <1>1, ConcatEmptySeq
  <1>5. CASE g
    <2>1. PipelinePath(g) = stages \o wait
      BY <1>5 DEF PipelinePath
    <2> HIDE DEF stages, wait
    <2>2. /\ stages \o wait \in Seq(Statuses)
          /\ stages \o wait # <<>>
          /\ LastOf(stages \o wait) = LastOf(wait)
      BY <1>1, <1>2, LastOfConcat
    <2> QED
      BY <1>2, <1>5, <2>1, <2>2
  <1>6. CASE ~g
    <2>1. PipelinePath(g) = stages
      BY <1>4, <1>6 DEF PipelinePath
    <2> HIDE DEF stages
    <2> QED
      BY <1>1, <1>3, <1>6, <2>1
  <1> QED
    BY <1>5, <1>6

\* A record fit to be saved.
Savable(rec) ==
    /\ rec \in Records
    /\ rec.status \in Settled
    /\ StatusOnTimeline(rec)
    /\ GateRespected(rec)

\* The pipeline makes any record savable and keeps its key.
LEMMA RunPipelineSavable ==
    ASSUME NEW rec \in Records, NEW g \in BOOLEAN
    PROVE  Savable(RunPipeline(rec, g)) /\ RunPipeline(rec, g).key = rec.key
  <1> DEFINE path == PipelinePath(g)
             out == RunPipeline(rec, g)
  <1>1. rec.timeline \in Seq(Statuses)
    BY DEF Records
  <1>2. /\ path \in Seq(Statuses) /\ path # <<>>
        /\ LastOf(path) = IF g THEN "WAITING_HUMAN_REVIEW" ELSE "RECOMMENDED"
    BY PathEnds
  <1>3. /\ rec.timeline \o path \in Seq(Statuses)
        /\ rec.timeline \o path # <<>>
        /\ LastOf(rec.timeline \o path) = LastOf(path)
    BY <1>1, <1>2, LastOfConcat
  <1>4. LastOf(path) \in Statuses
    BY <1>2 DEF Statuses
  <1>5. /\ out \in Records
        /\ out.status = LastOf(path)
        /\ out.timeline = rec.timeline \o path
        /\ out.gated = g
        /\ out.key = rec.key
    BY <1>3, <1>4 DEF RunPipeline, Records
  <1> QED
    BY <1>2, <1>3, <1>5 DEF Savable, Settled, StatusOnTimeline, GateRespected

LEMMA BlankRecord == Blank \in Records
  BY DEF Blank, Records, NoEvaluation, Evaluations, Statuses

\* A new review is savable under the key it was created for.
LEMMA NewRecordSavable ==
    ASSUME NEW k \in Keys \cup {Nil}, NEW g \in BOOLEAN
    PROVE  Savable(NewRecord(k, g)) /\ NewRecord(k, g).key = k
  <1> DEFINE start == [Blank EXCEPT !.key = k, !.timeline = <<"CREATED">>]
  <1>1. <<"CREATED">> \in Seq(Statuses)
    BY DEF Statuses
  <1>2. start \in Records /\ start.key = k
    BY <1>1, BlankRecord DEF Records, Blank
  <1> QED
    BY <1>2, RunPipelineSavable DEF NewRecord

LEMMA FailedRecordSavable ==
    ASSUME NEW k \in Keys \cup {Nil}
    PROVE  Savable(FailedRecord(k)) /\ FailedRecord(k).key = k
  <1>1. <<"FAILED">> \in Seq(Statuses) /\ <<"FAILED">> # <<>>
    BY DEF Statuses
  <1>2. FailedRecord(k) \in Records
    BY <1>1, BlankRecord DEF FailedRecord, Records, Blank, Statuses
  <1> QED
    BY <1>1, <1>2 DEF FailedRecord, Savable, Settled, StatusOnTimeline,
                      GateRespected, Blank, LastOf

\* A decision makes any record savable and keeps its key.
LEMMA DecidedSavable ==
    ASSUME NEW rec \in Records, NEW v \in Verdicts, NEW r \in Nat
    PROVE  Savable(Decided(rec, v, r)) /\ Decided(rec, v, r).key = rec.key
  <1> DEFINE out == Decided(rec, v, r)
             one == [verdict |-> v, request |-> r]
  <1>1. StatusOf(v) \in {"APPROVED", "REJECTED", "OVERRIDDEN"}
    BY DEF StatusOf, Verdicts
  <1>2. StatusOf(v) \in Statuses
    BY <1>1 DEF Statuses
  <1>3. /\ Append(rec.timeline, StatusOf(v)) \in Seq(Statuses)
        /\ Append(rec.timeline, StatusOf(v)) # <<>>
        /\ LastOf(Append(rec.timeline, StatusOf(v))) = StatusOf(v)
    BY <1>2, LastOfAppend DEF Records
  <1>4. Append(rec.decisions, one) \in Seq(HumanDecisions)
    BY AppendProperties DEF Records, HumanDecisions
  <1>5. /\ out \in Records
        /\ out.key = rec.key
        /\ out.status = StatusOf(v)
        /\ out.timeline = Append(rec.timeline, StatusOf(v))
    BY <1>2, <1>3, <1>4 DEF Decided, Records, Evaluations
  <1> QED
    BY <1>1, <1>3, <1>5 DEF Savable, Settled, StatusOnTimeline, GateRespected

\* An evaluation update makes a record savable whose row was.
LEMMA EvaluatedSavable ==
    ASSUME NEW rec \in Records, NEW o \in Outcomes \cup {Nil},
           rec.status \in Settled, GateRespected(rec)
    PROVE  Savable(Evaluated(rec, o)) /\ Evaluated(rec, o).key = rec.key
  <1> DEFINE out == Evaluated(rec, o)
  <1>1. /\ Append(rec.timeline, rec.status) \in Seq(Statuses)
        /\ Append(rec.timeline, rec.status) # <<>>
        /\ LastOf(Append(rec.timeline, rec.status)) = rec.status
    BY LastOfAppend DEF Records
  <1>2. /\ out \in Records
        /\ out.key = rec.key
        /\ out.status = rec.status
        /\ out.gated = rec.gated
        /\ out.timeline = Append(rec.timeline, rec.status)
    BY <1>1 DEF Evaluated, Records, Evaluations
  <1> QED
    BY <1>1, <1>2 DEF Savable, StatusOnTimeline, GateRespected

LEMMA RetriedSavable ==
    ASSUME NEW rec \in Records, NEW g \in BOOLEAN
    PROVE  Savable(Retried(rec, g)) /\ Retried(rec, g).key = rec.key
  <1> DEFINE start == [rec EXCEPT !.status = "CREATED",
                                  !.timeline = Append(@, "CREATED")]
  <1>1. "CREATED" \in Statuses
    BY DEF Statuses
  <1>2. start \in Records /\ start.key = rec.key
    BY <1>1, AppendProperties DEF Records
  <1> QED
    BY <1>2, RunPipelineSavable DEF Retried
-----------------------------------------------------------------------------
(***************************************************************************)
(* The invariant behind type correctness and coherence: not only what is   *)
(* stored but every record on its way to the store is savable, and the row *)
(* of a record that is still being loaded is one that was stored.          *)
(***************************************************************************)
LoadedPhases == {"getTimeline", "getDecisions", "getEvaluation", "loaded"}

StoreOK ==
    /\ DOMAIN records \subseteq ReviewIDs
    /\ \A id \in DOMAIN records : Savable(records[id])
    /\ DOMAIN index \subseteq Keys
    /\ \A k \in DOMAIN index : index[k] \in ReviewIDs

HandlerTypes ==
    /\ phase \in [Handlers -> Phases]
    /\ call \in [Handlers -> Calls]
    /\ reviewID \in [Handlers -> ReviewIDs \cup {Unknown, Nil}]
    /\ draft \in [Handlers -> Records]

Fit(h) ==
    /\ phase[h] \in {"lookup", "run", "recheck"} => call[h].op = "create"
    /\ phase[h] = "getReview" => call[h].op # "create"
    /\ phase[h] \in LoadedPhases =>
         /\ call[h].op # "create"
         /\ reviewID[h] \in DOMAIN records
         /\ draft[h].status \in Settled
         /\ GateRespected(draft[h])
    /\ phase[h] = "save" =>
         /\ Savable(draft[h])
         /\ reviewID[h] \in ReviewIDs
         /\ call[h].op = "decide" => call[h].verdict \in Verdicts

HandlersOK == HandlerTypes /\ \A h \in Handlers : Fit(h)

CountsOK ==
    /\ counter \in Nat
    /\ requests \in 0 .. MaxRequests
    /\ restarts \in 0 .. MaxRestarts

AcksOK ==
    /\ createAcks \subseteq Creates
    /\ decisionAcks \subseteq DecisionAcks

IInv == StoreOK /\ HandlersOK /\ CountsOK /\ AcksOK

LEMMA IInvImplies == IInv => TypeOK /\ RecordsCoherent
  BY DEF IInv, StoreOK, HandlersOK, HandlerTypes, CountsOK, AcksOK, TypeOK,
         RecordsCoherent, Savable

LEMMA InitEstablishes == Init => IInv
  <1> SUFFICES ASSUME Init PROVE IInv
    OBVIOUS
  <1>1. PICK keyOf \in [Legacy -> Keys \cup {Nil}] :
          /\ records = [l \in Legacy |-> FailedRecord(keyOf[l])]
          /\ index = [k \in IF Store = "memory"
                              THEN Keys \cap {keyOf[l] : l \in Legacy} ELSE {}
                        |-> CHOOSE l \in Legacy : keyOf[l] = k]
    BY DEF Init
  <1>2. StoreOK
    <2>1. \A l \in Legacy : Savable(FailedRecord(keyOf[l]))
      BY FailedRecordSavable
    <2>2. \A k \in DOMAIN index :
            \E l \in Legacy : keyOf[l] = k
      BY <1>1
    <2>3. \A k \in DOMAIN index : index[k] \in Legacy
      BY <1>1, <2>2
    <2> QED
      BY <1>1, <2>1, <2>3 DEF StoreOK, ReviewIDs
  <1>3. HandlersOK
    BY BlankRecord DEF Init, HandlersOK, HandlerTypes, Fit, Phases, Calls,
                       NoCall, LoadedPhases
  <1>4. CountsOK /\ AcksOK
    BY ConstantsAssumption DEF Init, CountsOK, AcksOK
  <1> QED
    BY <1>2, <1>3, <1>4 DEF IInv

\* A handler whose request is answered is idle, the others are as they were.
LEMMA FinishFit ==
    ASSUME NEW h \in Handlers, HandlersOK, Finish(h),
           DOMAIN records \subseteq DOMAIN records'
    PROVE  HandlersOK'
  <1>1. HandlerTypes'
    BY BlankRecord DEF HandlersOK, HandlerTypes, Finish, GoTo, Phases, Calls,
                       NoCall
  <1>2. ASSUME NEW g \in Handlers PROVE Fit(g)'
    BY <1>2 DEF HandlersOK, HandlerTypes, Finish, GoTo, Fit, LoadedPhases
  <1> QED
    BY <1>1, <1>2 DEF HandlersOK

\* A handler that builds a record on the way goes on with a fitting one.
LEMMA LoadsFit ==
    ASSUME NEW h \in Handlers, HandlersOK,
           NEW next \in Phases, NEW rec \in Records,
           Loads(h, next, rec), UNCHANGED <<call, records>>,
           reviewID' \in [Handlers -> ReviewIDs \cup {Unknown, Nil}],
           \A g \in Handlers \ {h} : reviewID'[g] = reviewID[g],
           next = "save" \/ next \in LoadedPhases,
           next = "save" => reviewID'[h] \in ReviewIDs,
           next \in LoadedPhases => reviewID'[h] \in DOMAIN records,
           next = "save" =>
             /\ Savable(rec)
             /\ call[h].op = "decide" => call[h].verdict \in Verdicts,
           next \in LoadedPhases =>
             /\ call[h].op # "create"
             /\ rec.status \in Settled
             /\ GateRespected(rec)
    PROVE  HandlersOK'
  <1>1. HandlerTypes'
    BY DEF HandlersOK, HandlerTypes, Loads, GoTo
  <1>2. phase'[h] = next /\ draft'[h] = rec
    BY DEF HandlersOK, HandlerTypes, Loads, GoTo
  <1>3. Fit(h)'
    BY <1>2 DEF Fit, LoadedPhases
  <1>4. ASSUME NEW g \in Handlers, g # h PROVE Fit(g)'
    BY <1>4 DEF HandlersOK, HandlerTypes, Loads, GoTo, Fit, LoadedPhases
  <1> QED
    BY <1>1, <1>3, <1>4 DEF HandlersOK

\* A write of a savable record keeps the store savable.
LEMMA WriteFit ==
    ASSUME NEW h \in Handlers, StoreOK, HandlersOK, phase[h] = "save", Write(h)
    PROVE  StoreOK'
  <1>1. Savable(draft[h]) /\ reviewID[h] \in ReviewIDs
    BY DEF HandlersOK, Fit
  <1>2. draft[h].key \in Keys \cup {Nil}
    BY <1>1 DEF Savable, Records
  <1>3. /\ DOMAIN records' \subseteq ReviewIDs
        /\ \A id \in DOMAIN records' : Savable(records'[id])
    BY <1>1 DEF StoreOK, Write, Put
  <1>4. /\ DOMAIN index' \subseteq Keys
        /\ \A k \in DOMAIN index' : index'[k] \in ReviewIDs
    BY <1>1, <1>2 DEF StoreOK, Write, Put
  <1> QED
    BY <1>3, <1>4 DEF StoreOK, Savable

\* The reviews a lookup answers with are stored ones.
LEMMA HoldersStored ==
    ASSUME NEW key, StoreOK
    PROVE  Holders(key) \subseteq DOMAIN records /\ Holders(key) \subseteq ReviewIDs
  BY DEF Holders, StoreOK

\* An acknowledged create names a stored or just created review.
LEMMA AckCreateFit ==
    ASSUME NEW h \in Handlers, NEW id \in ReviewIDs,
           HandlersOK, AcksOK, call[h].op = "create", AckCreate(h, id)
    PROVE  AcksOK'
  <1>1. call[h].key \in Keys \cup {Nil}
    BY DEF HandlersOK, HandlerTypes, Calls
  <1> QED
    BY <1>1 DEF AcksOK, AckCreate, Creates

LEMMA AckDecisionFit ==
    ASSUME NEW h \in Handlers, HandlersOK, AcksOK, phase[h] = "save",
           call[h].op = "decide", AckDecision(h)
    PROVE  AcksOK'
  <1>1. /\ reviewID[h] \in ReviewIDs
        /\ call[h].verdict \in Verdicts
        /\ call[h].request \in Nat
    BY DEF HandlersOK, HandlerTypes, Fit, Calls
  <1> QED
    BY <1>1 DEF AcksOK, AckDecision, DecisionAcks

\* A request is accepted.
LEMMA AcceptFit ==
    ASSUME NEW h \in Handlers, IInv,
           NEW c \in Calls, NEW id \in ReviewIDs \cup {Unknown, Nil},
           NEW next \in {"run", "lookup", "getReview"},
           next = "getReview" <=> c.op # "create",
           Accept(h, c, id, next)
    PROVE  IInv'
  <1> USE DEF IInv
  <1>1. requests' \in 0 .. MaxRequests
    BY ConstantsAssumption DEF Accept, CountsOK
  <1>2. HandlerTypes'
    BY DEF Accept, GoTo, HandlersOK, HandlerTypes, Phases, StorePhases,
           LoadPhases
  <1>3. ASSUME NEW g \in Handlers PROVE Fit(g)'
    BY <1>3 DEF Accept, GoTo, HandlersOK, HandlerTypes, Fit, LoadedPhases, store
  <1> QED
    BY <1>1, <1>2, <1>3 DEF Accept, StoreOK, HandlersOK, CountsOK, AcksOK,
                            store, acks

LEMMA ArriveFit ==
    ASSUME NEW h \in Handlers, IInv, Arrive(h)
    PROVE  IInv'
  <1>1. DOMAIN records \cup {Unknown} \subseteq ReviewIDs \cup {Unknown, Nil}
    BY DEF IInv, StoreOK
  <1>2. requests + 1 \in Nat
    BY ConstantsAssumption DEF IInv, CountsOK
  <1>3. CASE ArriveCreate(h)
    <2>1. PICK k \in Keys \cup {Nil} :
            Accept(h, [op |-> "create", key |-> k], Nil,
                   IF k = Nil THEN "run" ELSE "lookup")
      BY <1>3 DEF ArriveCreate
    <2>2. [op |-> "create", key |-> k] \in Calls
      BY DEF Calls
    <2> QED
      BY <2>1, <2>2, AcceptFit
  <1>4. CASE ArriveDecide(h)
    <2>1. PICK id \in DOMAIN records \cup {Unknown}, v \in Submitted :
            Accept(h, [op |-> "decide", verdict |-> v,
                       request |-> requests + 1], id, "getReview")
      BY <1>4 DEF ArriveDecide
    <2>2. [op |-> "decide", verdict |-> v, request |-> requests + 1] \in Calls
      BY <1>2, ConstantsAssumption DEF Calls
    <2> QED
      BY <1>1, <2>1, <2>2, AcceptFit
  <1>5. CASE ArriveEvaluate(h)
    <2>1. PICK id \in DOMAIN records \cup {Unknown},
               o \in Outcomes \cup {Nil} :
            Accept(h, [op |-> "evaluate", outcome |-> o], id, "getReview")
      BY <1>5 DEF ArriveEvaluate
    <2>2. [op |-> "evaluate", outcome |-> o] \in Calls
      BY DEF Calls
    <2> QED
      BY <1>1, <2>1, <2>2, AcceptFit
  <1>6. CASE ArriveRetry(h)
    <2>1. PICK id \in DOMAIN records \cup {Unknown} :
            Accept(h, [op |-> "retry"], id, "getReview")
      BY <1>6 DEF ArriveRetry
    <2>2. [op |-> "retry"] \in Calls
      BY DEF Calls
    <2> QED
      BY <1>1, <2>1, <2>2, AcceptFit
  <1> QED
    BY <1>3, <1>4, <1>5, <1>6 DEF Arrive

\* What is loaded has the type of what is stored.
LEMMA LoadFit ==
    ASSUME NEW h \in Handlers, IInv,
           GetReviewRow(h) \/ GetTimeline(h) \/ GetDecisions(h)
             \/ GetEvaluation(h)
    PROVE  IInv'
  <1> USE DEF IInv
  <1>1. StoreOK' /\ CountsOK' /\ AcksOK'
    BY DEF GetReviewRow, GetTimeline, GetDecisions, GetEvaluation, Loading,
           StoreOK, CountsOK, AcksOK, store, acks
  <1>2. \A id \in DOMAIN records : Savable(records[id])
    BY DEF StoreOK
  <1>3. draft[h] \in Records /\ reviewID[h] \in ReviewIDs \cup {Unknown, Nil}
    BY DEF HandlersOK, HandlerTypes
  <1>4. ASSUME NEW next \in LoadedPhases, NEW rec \in Records,
               Loads(h, next, rec), UNCHANGED <<call, reviewID, records>>,
               call[h].op # "create", reviewID[h] \in DOMAIN records,
               rec.status \in Settled, GateRespected(rec)
        PROVE  HandlersOK'
    <2>1. next \in Phases /\ next # "save"
      BY <1>4 DEF LoadedPhases, Phases, StorePhases, LoadPhases
    <2>2. reviewID' \in [Handlers -> ReviewIDs \cup {Unknown, Nil}]
      BY <1>4 DEF HandlersOK, HandlerTypes
    <2> QED
      BY <1>4, <2>1, <2>2, LoadsFit
  <1>5. CASE GetReviewRow(h)
    <2>1. CASE reviewID[h] \in DOMAIN records
      <3> DEFINE row == records[reviewID[h]]
                 rec == [Blank EXCEPT !.key = row.key, !.status = row.status,
                                      !.gated = row.gated]
      <3>1. Savable(row)
        BY <1>2, <2>1
      <3>2. /\ rec \in Records
            /\ rec.status = row.status
            /\ rec.gated = row.gated
        BY <3>1, BlankRecord DEF Savable, Records, Blank
      <3>3. rec.status \in Settled /\ GateRespected(rec)
        BY <3>1, <3>2 DEF Savable, GateRespected
      <3>4. call[h].op # "create"
        BY <1>5 DEF GetReviewRow, Loading, HandlersOK, Fit
      <3>5. /\ Loads(h, "getTimeline", rec)
            /\ UNCHANGED <<call, reviewID, records>>
        BY <1>5, <2>1 DEF GetReviewRow, Loading, store
      <3> HIDE DEF rec
      <3> QED
        BY <1>1, <1>4, <2>1, <3>2, <3>3, <3>4, <3>5 DEF LoadedPhases
    <2>2. CASE reviewID[h] \notin DOMAIN records
      <3>1. Finish(h) /\ DOMAIN records \subseteq DOMAIN records'
        BY <1>5, <2>2 DEF GetReviewRow, Loading, store
      <3> QED
        BY <1>1, <3>1, FinishFit
    <2> QED
      BY <2>1, <2>2
  <1>6. ASSUME phase[h] \in LoadedPhases
        PROVE  /\ call[h].op # "create"
               /\ reviewID[h] \in DOMAIN records
               /\ draft[h].status \in Settled
               /\ GateRespected(draft[h])
               /\ records[reviewID[h]] \in Records
    BY <1>2, <1>6 DEF HandlersOK, Fit, Savable
  <1>7. CASE GetTimeline(h)
    <2> DEFINE rec == [draft[h] EXCEPT !.timeline =
                         records[reviewID[h]].timeline]
    <2>1. phase[h] \in LoadedPhases
      BY <1>7 DEF GetTimeline, Loading, LoadedPhases
    <2>2. rec \in Records /\ rec.status = draft[h].status
                          /\ rec.gated = draft[h].gated
      BY <1>3, <1>6, <2>1 DEF Records
    <2>3. Loads(h, "getDecisions", rec) /\ UNCHANGED <<call, reviewID, records>>
      BY <1>7 DEF GetTimeline, Loading, store
    <2>4. rec.status \in Settled /\ GateRespected(rec)
      BY <1>6, <2>1, <2>2 DEF GateRespected
    <2> HIDE DEF rec
    <2> QED
      BY <1>1, <1>4, <1>6, <2>1, <2>2, <2>3, <2>4 DEF LoadedPhases
  <1>8. CASE GetDecisions(h)
    <2> DEFINE rec == [draft[h] EXCEPT !.decisions =
                         records[reviewID[h]].decisions]
    <2>1. phase[h] \in LoadedPhases
      BY <1>8 DEF GetDecisions, Loading, LoadedPhases
    <2>2. rec \in Records /\ rec.status = draft[h].status
                          /\ rec.gated = draft[h].gated
      BY <1>3, <1>6, <2>1 DEF Records
    <2>3. Loads(h, "getEvaluation", rec) /\ UNCHANGED <<call, reviewID, records>>
      BY <1>8 DEF GetDecisions, Loading, store
    <2>4. rec.status \in Settled /\ GateRespected(rec)
      BY <1>6, <2>1, <2>2 DEF GateRespected
    <2> HIDE DEF rec
    <2> QED
      BY <1>1, <1>4, <1>6, <2>1, <2>2, <2>3, <2>4 DEF LoadedPhases
  <1>9. CASE GetEvaluation(h)
    <2> DEFINE rec == [draft[h] EXCEPT !.evaluation =
                         records[reviewID[h]].evaluation]
    <2>1. phase[h] \in LoadedPhases
      BY <1>9 DEF GetEvaluation, Loading, LoadedPhases
    <2>2. rec \in Records /\ rec.status = draft[h].status
                          /\ rec.gated = draft[h].gated
      BY <1>3, <1>6, <2>1 DEF Records
    <2>3. Loads(h, "loaded", rec) /\ UNCHANGED <<call, reviewID, records>>
      BY <1>9 DEF GetEvaluation, Loading, store
    <2>4. rec.status \in Settled /\ GateRespected(rec)
      BY <1>6, <2>1, <2>2 DEF GateRespected
    <2> HIDE DEF rec
    <2> QED
      BY <1>1, <1>4, <1>6, <2>1, <2>2, <2>3, <2>4 DEF LoadedPhases
  <1> QED
    BY <1>5, <1>7, <1>8, <1>9

\* An operation makes a savable record of what it loaded.
LEMMA OperateFit ==
    ASSUME NEW h \in Handlers, IInv,
           SubmitHumanDecision(h) \/ UpdateEvaluation(h) \/ RetryReview(h)
    PROVE  IInv'
  <1> USE DEF IInv
  <1>1. /\ phase[h] = "loaded"
        /\ UNCHANGED <<store, counter, requests, restarts, acks>>
    BY DEF SubmitHumanDecision, UpdateEvaluation, RetryReview, Operating
  <1>2. StoreOK' /\ CountsOK' /\ AcksOK'
    BY <1>1 DEF StoreOK, CountsOK, AcksOK, store, acks
  <1>3. /\ draft[h] \in Records
        /\ draft[h].status \in Settled
        /\ GateRespected(draft[h])
        /\ reviewID[h] \in ReviewIDs
    BY <1>1 DEF HandlersOK, HandlerTypes, Fit, LoadedPhases, StoreOK
  <1>4. ASSUME NEW rec, Savable(rec), Loads(h, "save", rec),
               UNCHANGED <<call, reviewID>>,
               call[h].op = "decide" => call[h].verdict \in Verdicts
        PROVE  HandlersOK'
    <2>1. /\ "save" \in Phases
          /\ "save" \notin LoadedPhases
          /\ rec \in Records
      BY <1>4 DEF Phases, StorePhases, LoadedPhases, Savable
    <2>2. /\ reviewID' \in [Handlers -> ReviewIDs \cup {Unknown, Nil}]
          /\ UNCHANGED records
      BY <1>1, <1>4 DEF HandlersOK, HandlerTypes, store
    <2> QED
      BY <1>3, <1>4, <2>1, <2>2, LoadsFit
  <1>5. ASSUME Finish(h) PROVE HandlersOK'
    BY <1>1, <1>5, FinishFit DEF store
  <1>6. CASE SubmitHumanDecision(h)
    <2>1. CASE call[h].verdict \in Verdicts
      <3> DEFINE rec == Decided(draft[h], call[h].verdict, call[h].request)
      <3>1. call[h].op = "decide"
        BY <1>6 DEF SubmitHumanDecision, Operating
      <3>2. call[h].request \in Nat
        BY <3>1 DEF HandlersOK, HandlerTypes, Calls
      <3>3. Savable(rec)
        BY <1>3, <2>1, <3>2, DecidedSavable
      <3>4. Loads(h, "save", rec) /\ UNCHANGED <<call, reviewID>>
        BY <1>6, <2>1 DEF SubmitHumanDecision
      <3> HIDE DEF rec
      <3> QED
        BY <1>2, <1>4, <2>1, <3>3, <3>4
    <2>2. CASE call[h].verdict \notin Verdicts
      BY <1>2, <1>5, <1>6, <2>2 DEF SubmitHumanDecision
    <2> QED
      BY <2>1, <2>2
  <1>7. CASE UpdateEvaluation(h)
    <2> DEFINE rec == Evaluated(draft[h], call[h].outcome)
    <2>1. call[h].op = "evaluate"
      BY <1>7 DEF UpdateEvaluation, Operating
    <2>2. call[h].outcome \in Outcomes \cup {Nil}
      BY <2>1 DEF HandlersOK, HandlerTypes, Calls
    <2>3. Savable(rec)
      BY <1>3, <2>2, EvaluatedSavable
    <2>4. Loads(h, "save", rec) /\ UNCHANGED <<call, reviewID>>
      BY <1>7 DEF UpdateEvaluation
    <2> HIDE DEF rec
    <2> QED
      BY <1>2, <1>4, <2>1, <2>3, <2>4
  <1>8. CASE RetryReview(h)
    <2>1. call[h].op = "retry"
      BY <1>8 DEF RetryReview, Operating
    <2>2. CASE draft[h].status = "FAILED"
      <3>1. PICK g \in BOOLEAN : Loads(h, "save", Retried(draft[h], g))
        BY <1>8, <2>2 DEF RetryReview
      <3>2. UNCHANGED <<call, reviewID>>
        BY <1>8, <2>2 DEF RetryReview
      <3>3. Savable(Retried(draft[h], g))
        BY <1>3, RetriedSavable
      <3> QED
        BY <1>2, <1>4, <2>1, <3>1, <3>2, <3>3
    <2>3. CASE draft[h].status # "FAILED"
      BY <1>2, <1>5, <1>8, <2>3 DEF RetryReview
    <2> QED
      BY <2>2, <2>3
  <1> QED
    BY <1>6, <1>7, <1>8

\* The steps of a create, and the answers.
LEMMA CreateFit ==
    ASSUME NEW h \in Handlers, IInv,
           LookUpExisting(h) \/ LookUpNotFound(h) \/ RunCreate(h) \/ Recheck(h)
    PROVE  IInv'
  <1> USE DEF IInv
  <1>1. StoreOK' /\ UNCHANGED <<requests, restarts, records>>
    BY DEF LookUpExisting, LookUpNotFound, RunCreate, Recheck, StoreOK, store
  <1>2. ASSUME NEW key, NEW id \in Holders(key) PROVE id \in ReviewIDs
    BY HoldersStored
  <1>3. ASSUME Finish(h) PROVE HandlersOK'
    BY <1>1, <1>3, FinishFit
  <1>4. CASE LookUpExisting(h)
    <2>1. call[h].op = "create"
      BY <1>4 DEF LookUpExisting, HandlersOK, Fit
    <2>2. AcksOK'
      BY <1>2, <1>4, <2>1, AckCreateFit DEF LookUpExisting
    <2> QED
      BY <1>1, <1>3, <1>4, <2>2 DEF LookUpExisting, CountsOK
  <1>5. CASE Recheck(h)
    <2>1. call[h].op = "create"
      BY <1>5 DEF Recheck, HandlersOK, Fit
    <2>2. CASE Holders(call[h].key) # {}
      <3>1. PICK id \in Holders(call[h].key) : AckCreate(h, id)
        BY <1>5, <2>2 DEF Recheck
      <3>2. AcksOK'
        BY <1>2, <2>1, <3>1, AckCreateFit
      <3> QED
        BY <1>1, <1>3, <1>5, <3>2 DEF Recheck, CountsOK
    <2>3. CASE Holders(call[h].key) = {}
      BY <1>1, <1>3, <1>5, <2>3 DEF Recheck, CountsOK, AcksOK, acks
    <2> QED
      BY <2>2, <2>3
  <1>6. CASE LookUpNotFound(h)
    <2>1. HandlerTypes'
      BY <1>6 DEF LookUpNotFound, GoTo, HandlersOK, HandlerTypes, Phases
    <2>2. ASSUME NEW g \in Handlers PROVE Fit(g)'
      BY <1>1, <1>6, <2>2 DEF LookUpNotFound, GoTo, HandlersOK, HandlerTypes,
                              Fit, LoadedPhases
    <2> QED
      BY <1>1, <1>6, <2>1, <2>2 DEF LookUpNotFound, HandlersOK, CountsOK,
                                    AcksOK, acks
  <1>7. CASE RunCreate(h)
    <2>1. call[h].op = "create" /\ call[h].key \in Keys \cup {Nil}
      BY <1>7 DEF RunCreate, HandlersOK, HandlerTypes, Fit, Calls
    <2>2. PICK id \in NextIDs, g \in BOOLEAN :
            /\ counter' = id
            /\ reviewID' = [reviewID EXCEPT ![h] = id]
            /\ Loads(h, "save", NewRecord(call[h].key, g))
      BY <1>7 DEF RunCreate
    <2>3. id \in Nat
      BY <2>2, ConstantsAssumption DEF NextIDs, CountsOK
    <2>4. Savable(NewRecord(call[h].key, g))
      BY <2>1, NewRecordSavable
    <2>5. /\ "save" \in Phases
          /\ "save" \notin LoadedPhases
          /\ NewRecord(call[h].key, g) \in Records
      BY <2>4 DEF Phases, StorePhases, LoadedPhases, Savable
    <2>6. /\ reviewID' \in [Handlers -> ReviewIDs \cup {Unknown, Nil}]
          /\ reviewID'[h] \in ReviewIDs
          /\ \A i \in Handlers \ {h} : reviewID'[i] = reviewID[i]
      BY <2>2, <2>3 DEF HandlersOK, HandlerTypes, ReviewIDs
    <2>7. UNCHANGED <<call, records>>
      BY <1>1, <1>7 DEF RunCreate
    <2>8. HandlersOK'
      BY <2>1, <2>2, <2>4, <2>5, <2>6, <2>7, LoadsFit
    <2> QED
      BY <1>1, <1>7, <2>2, <2>3, <2>8 DEF RunCreate, CountsOK, AcksOK, acks
  <1> QED
    BY <1>4, <1>5, <1>6, <1>7

\* The outcomes of a save, and the failures.
LEMMA SaveFit ==
    ASSUME NEW h \in Handlers, IInv,
           SaveOk(h) \/ SaveConflict(h) \/ CommitAnswerLost(h) \/ QueryFails(h)
    PROVE  IInv'
  <1> USE DEF IInv
  <1>1. ASSUME Write(h) PROVE DOMAIN records \subseteq DOMAIN records'
    BY <1>1 DEF Write, Put
  <1>2. CASE SaveOk(h)
    <2>1. phase[h] = "save" /\ Write(h) /\ Finish(h)
      BY <1>2 DEF SaveOk
    <2>2. StoreOK' /\ HandlersOK'
      BY <1>1, <2>1, WriteFit, FinishFit
    <2>3. reviewID[h] \in ReviewIDs
      BY <2>1 DEF HandlersOK, Fit
    <2>4. AcksOK'
      <3>1. CASE call[h].op = "create"
        BY <1>2, <2>3, <3>1, AckCreateFit DEF SaveOk
      <3>2. CASE call[h].op = "decide"
        BY <1>2, <2>1, <3>2, AckDecisionFit DEF SaveOk
      <3>3. CASE call[h].op \notin {"create", "decide"}
        BY <1>2, <3>3 DEF SaveOk, AcksOK, acks
      <3> QED
        BY <3>1, <3>2, <3>3
    <2> QED
      BY <1>2, <2>2, <2>4 DEF SaveOk, CountsOK
  <1>3. CASE CommitAnswerLost(h)
    <2>1. phase[h] = "save" /\ Write(h) /\ Finish(h)
      BY <1>3 DEF CommitAnswerLost
    <2>2. StoreOK' /\ HandlersOK'
      BY <1>1, <2>1, WriteFit, FinishFit
    <2> QED
      BY <1>3, <2>2 DEF CommitAnswerLost, CountsOK, AcksOK, acks
  <1>4. CASE QueryFails(h)
    <2>1. HandlersOK'
      BY <1>4, FinishFit DEF QueryFails, store
    <2> QED
      BY <1>4, <2>1 DEF QueryFails, StoreOK, CountsOK, AcksOK, store, acks
  <1>5. CASE SaveConflict(h)
    <2>1. HandlersOK'
      <3>1. CASE call[h].op = "create"
        <4>1. HandlerTypes'
          BY <1>5, <3>1 DEF SaveConflict, GoTo, HandlersOK, HandlerTypes,
                            Phases, StorePhases
        <4>2. ASSUME NEW g \in Handlers PROVE Fit(g)'
          BY <1>5, <3>1, <4>2 DEF SaveConflict, GoTo, HandlersOK, HandlerTypes,
                                  Fit, LoadedPhases, store
        <4> QED
          BY <4>1, <4>2 DEF HandlersOK
      <3>2. CASE call[h].op # "create"
        BY <1>5, <3>2, FinishFit DEF SaveConflict, store
      <3> QED
        BY <3>1, <3>2
    <2> QED
      BY <1>5, <2>1 DEF SaveConflict, StoreOK, CountsOK, AcksOK, store, acks
  <1> QED
    BY <1>2, <1>3, <1>4, <1>5

LEMMA RestartFit == IInv /\ Restart => IInv'
  <1> SUFFICES ASSUME IInv, Restart PROVE IInv'
    OBVIOUS
  <1>1. CountsOK' /\ AcksOK'
    BY ConstantsAssumption DEF IInv, Restart, CountsOK, AcksOK, acks
  <1>2. HandlersOK'
    BY BlankRecord DEF IInv, Restart, HandlersOK, HandlerTypes, Fit, Phases,
                       Calls, NoCall, LoadedPhases
  <1>3. StoreOK'
    <2>1. DOMAIN << >> = {}
      OBVIOUS
    <2> QED
      BY <2>1 DEF IInv, Restart, StoreOK, store
  <1> QED
    BY <1>1, <1>2, <1>3 DEF IInv

LEMMA StutterFit == IInv /\ UNCHANGED vars => IInv'
  BY DEF IInv, vars, store, handler, acks, StoreOK, HandlersOK, HandlerTypes,
         Fit, CountsOK, AcksOK

LEMMA StepFit == IInv /\ [Next]_vars => IInv'
  <1> SUFFICES ASSUME IInv, [Next]_vars PROVE IInv'
    OBVIOUS
  <1>1. CASE Restart
    BY <1>1, RestartFit
  <1>2. ASSUME NEW h \in Handlers, Arrive(h) PROVE IInv'
    BY <1>2, ArriveFit
  <1>3. ASSUME NEW h \in Handlers, Serve(h) PROVE IInv'
    BY <1>3, CreateFit, LoadFit, OperateFit, SaveFit DEF Serve
  <1>4. CASE UNCHANGED vars
    BY <1>4, StutterFit
  <1> QED
    BY <1>1, <1>2, <1>3, <1>4 DEF Next

LEMMA Invariance == Spec => []IInv
  BY InitEstablishes, StepFit, PTL DEF Spec

\* Every variable keeps its type, and every stored record is in a settled
\* status, for any number of handlers, keys, requests, failures and restarts,
\* in either store.
THEOREM TypeCorrect == Spec => []TypeOK
  BY Invariance, IInvImplies, PTL

\* However the loads of concurrent requests tear and whatever fails, the
\* status of every stored review is the last event of its timeline and a
\* pipeline that asked for a human has not left it RECOMMENDED.
THEOREM Coherence == Spec => []RecordsCoherent
  BY Invariance, IInvImplies, PTL
-----------------------------------------------------------------------------
(***************************************************************************)
(* Idempotent creates, on Postgres and while the process does not restart. *)
(* The identifier of a review being created is its own and not yet stored, *)
(* every other save writes back the key it loaded, so a stored review      *)
(* never changes its key; and the unique key makes a key name one review.  *)
(***************************************************************************)
Creating(h) == phase[h] = "save" /\ call[h].op = "create"

Changing(h) == phase[h] \in LoadedPhases \/ (phase[h] = "save" /\ ~Creating(h))

IDsFresh ==
    /\ \A id \in DOMAIN records : id \in Nat => id <= counter
    /\ \A h \in Handlers : Creating(h) =>
         /\ reviewID[h] \in Nat
         /\ reviewID[h] <= counter
         /\ reviewID[h] \notin DOMAIN records
    /\ \A g, h \in Handlers :
         Creating(g) /\ Creating(h) /\ g # h => reviewID[g] # reviewID[h]

DraftKeys ==
    /\ \A h \in Handlers : Creating(h) => draft[h].key = call[h].key
    /\ \A h \in Handlers : Changing(h) =>
         /\ reviewID[h] \in DOMAIN records
         /\ draft[h].key = records[reviewID[h]].key

KeysUnique ==
    \A i, j \in DOMAIN records :
        records[i].key = records[j].key /\ records[i].key # Nil => i = j

KInv ==
    /\ restarts = 0
    /\ IDsFresh
    /\ DraftKeys
    /\ KeysUnique
    /\ AckedCreateKept
    /\ ConflictIsResolved

\* No stored review goes away or changes its key.
KeysKept ==
    /\ DOMAIN records \subseteq DOMAIN records'
    /\ \A id \in DOMAIN records : records'[id].key = records[id].key

LEMMA KInvImplies == KInv => IdempotentCreate
  BY DEF KInv, KeysUnique, AckedCreateKept, IdempotentCreate

LEMMA InitKeys == Init => KInv
  <1> SUFFICES ASSUME Init PROVE KInv
    OBVIOUS
  <1>1. PICK keyOf \in [Legacy -> Keys \cup {Nil}] :
          /\ \A l, m \in Legacy : keyOf[l] = keyOf[m] => l = m \/ keyOf[l] = Nil
          /\ records = [l \in Legacy |-> FailedRecord(keyOf[l])]
    BY DEF Init
  <1>2. \A l \in Legacy : records[l].key = keyOf[l]
    BY <1>1, FailedRecordSavable
  <1>3. KeysUnique
    BY <1>1, <1>2 DEF KeysUnique
  <1>4. IDsFresh
    BY <1>1, ConstantsAssumption DEF Init, IDsFresh, Creating
  <1>5. DraftKeys
    BY DEF Init, DraftKeys, Creating, Changing, LoadedPhases
  <1> QED
    BY <1>3, <1>4, <1>5 DEF Init, KInv, AckedCreateKept, ConflictIsResolved

\* Only h's own state changes.
Others(h) ==
    \A g \in Handlers \ {h} :
        /\ phase'[g] = phase[g]
        /\ call'[g] = call[g]
        /\ reviewID'[g] = reviewID[g]
        /\ draft'[g] = draft[g]

LEMMA FinishOthers ==
    ASSUME NEW h \in Handlers, HandlersOK, Finish(h)
    PROVE  Others(h) /\ phase'[h] = "idle"
  BY DEF HandlersOK, HandlerTypes, Finish, GoTo, Others

LEMMA LoadsOthers ==
    ASSUME NEW h \in Handlers, NEW next, NEW rec, HandlersOK,
           Loads(h, next, rec), UNCHANGED <<call, reviewID>>
    PROVE  /\ Others(h)
           /\ phase'[h] = next
           /\ draft'[h] = rec
  BY DEF HandlersOK, HandlerTypes, Loads, GoTo, Others

\* A step of h that stores nothing and does not bring it to save a new review.
LEMMA QuietStepKeys ==
    ASSUME NEW h \in Handlers, Store = "postgres", KInv,
           UNCHANGED <<records, counter, restarts>>, Others(h),
           ~Creating(h)',
           Changing(h)' =>
             /\ reviewID'[h] \in DOMAIN records
             /\ draft'[h].key = records[reviewID'[h]].key,
           phase'[h] = "recheck" => Holders(call'[h].key) # {},
           AckedCreateKept'
    PROVE  KInv'
  <1>1. ASSUME NEW g \in Handlers, g # h
        PROVE  /\ Creating(g)' = Creating(g)
               /\ Changing(g)' = Changing(g)
    BY <1>1 DEF Others, Creating, Changing
  <1>2. IDsFresh'
    BY <1>1 DEF KInv, IDsFresh, Others
  <1>3. DraftKeys'
    BY <1>1 DEF KInv, DraftKeys, Others
  <1>4. KeysUnique'
    BY DEF KInv, KeysUnique
  <1>5. \A k : Holders(k)' = Holders(k)
    BY DEF Holders
  <1>6. ConflictIsResolved'
    BY <1>5 DEF KInv, ConflictIsResolved, Others
  <1> QED
    BY <1>2, <1>3, <1>4, <1>6 DEF KInv

\* A request that is answered without a new acknowledgement.
LEMMA QuietFinishKeys ==
    ASSUME NEW h \in Handlers, Store = "postgres", IInv, KInv,
           UNCHANGED <<records, counter, restarts>>, Finish(h),
           AckedCreateKept'
    PROVE  KInv'
  <1>1. Others(h) /\ phase'[h] = "idle"
    BY FinishOthers DEF IInv
  <1>2. ~Creating(h)' /\ ~Changing(h)'
    BY <1>1 DEF Creating, Changing, LoadedPhases
  <1> QED
    BY <1>1, <1>2, QuietStepKeys

\* The acknowledged creates stay kept while nothing is stored.
LEMMA QuietAcks ==
    ASSUME KInv, UNCHANGED <<records, createAcks>>
    PROVE  AckedCreateKept'
  BY DEF KInv, AckedCreateKept

LEMMA ArriveKeys ==
    ASSUME NEW h \in Handlers, Store = "postgres", IInv, KInv, Arrive(h)
    PROVE  KInv'
  <1>1. ASSUME NEW c, NEW id, NEW next \in {"run", "lookup", "getReview"},
               Accept(h, c, id, next)
        PROVE  KInv'
    <2>1. /\ Others(h)
          /\ phase'[h] \in {"run", "lookup", "getReview"}
          /\ UNCHANGED <<records, counter, restarts, createAcks>>
      BY <1>1 DEF Accept, GoTo, Others, IInv, HandlersOK, HandlerTypes, store,
                  acks
    <2>2. ~Creating(h)' /\ ~Changing(h)'
      BY <2>1 DEF Creating, Changing, LoadedPhases
    <2> QED
      BY <2>1, <2>2, QuietStepKeys, QuietAcks
  <1>2. CASE ArriveCreate(h)
    BY <1>1, <1>2 DEF ArriveCreate
  <1>3. CASE ArriveDecide(h)
    BY <1>1, <1>3 DEF ArriveDecide
  <1>4. CASE ArriveEvaluate(h)
    BY <1>1, <1>4 DEF ArriveEvaluate
  <1>5. CASE ArriveRetry(h)
    BY <1>1, <1>5 DEF ArriveRetry
  <1> QED
    BY <1>2, <1>3, <1>4, <1>5 DEF Arrive

\* A lookup that finds a review acknowledges one that holds the key.
LEMMA AckHolder ==
    ASSUME NEW h \in Handlers, Store = "postgres", KInv, UNCHANGED records,
           NEW id \in Holders(call[h].key), AckCreate(h, id)
    PROVE  AckedCreateKept'
  BY DEF KInv, AckedCreateKept, AckCreate, Holders

LEMMA LookUpKeys ==
    ASSUME NEW h \in Handlers, Store = "postgres", IInv, KInv,
           LookUpExisting(h) \/ LookUpNotFound(h) \/ Recheck(h)
    PROVE  KInv'
  <1>1. UNCHANGED <<records, counter, restarts>>
    BY DEF LookUpExisting, LookUpNotFound, Recheck, store
  <1>2. CASE LookUpExisting(h)
    <2>1. AckedCreateKept'
      BY <1>1, <1>2, AckHolder DEF LookUpExisting
    <2> QED
      BY <1>1, <1>2, <2>1, QuietFinishKeys DEF LookUpExisting
  <1>3. CASE Recheck(h)
    <2>1. AckedCreateKept'
      BY <1>1, <1>3, AckHolder, QuietAcks DEF Recheck, acks
    <2> QED
      BY <1>1, <1>3, <2>1, QuietFinishKeys DEF Recheck
  <1>4. CASE LookUpNotFound(h)
    <2>1. Others(h) /\ phase'[h] = "run"
      BY <1>4 DEF LookUpNotFound, GoTo, Others, IInv, HandlersOK, HandlerTypes
    <2>2. ~Creating(h)' /\ ~Changing(h)'
      BY <2>1 DEF Creating, Changing, LoadedPhases
    <2>3. AckedCreateKept'
      BY <1>1, <1>4, QuietAcks DEF LookUpNotFound, acks
    <2> QED
      BY <1>1, <2>1, <2>2, <2>3, QuietStepKeys
  <1> QED
    BY <1>2, <1>3, <1>4

\* A new review gets an identifier that no review and no other create has.
LEMMA RunCreateKeys ==
    ASSUME NEW h \in Handlers, Store = "postgres", IInv, KInv, RunCreate(h)
    PROVE  KInv'
  <1>1. PICK id \in NextIDs, g \in BOOLEAN :
          /\ counter' = id
          /\ reviewID' = [reviewID EXCEPT ![h] = id]
          /\ Loads(h, "save", NewRecord(call[h].key, g))
    BY DEF RunCreate
  <1>2. id \in Nat /\ counter \in Nat /\ counter < id
    BY <1>1, ConstantsAssumption DEF NextIDs, IInv, CountsOK
  <1>3. /\ Others(h)
        /\ phase'[h] = "save"
        /\ draft'[h] = NewRecord(call[h].key, g)
        /\ reviewID'[h] = id
        /\ UNCHANGED <<records, call, restarts, createAcks>>
    BY <1>1 DEF RunCreate, Loads, GoTo, Others, IInv, HandlersOK, HandlerTypes,
                store, acks
  <1>4. call[h].op = "create" /\ call[h].key \in Keys \cup {Nil}
    BY DEF RunCreate, IInv, HandlersOK, HandlerTypes, Fit, Calls
  <1>5. Creating(h)' /\ ~Changing(h)'
    BY <1>3, <1>4 DEF Creating, Changing, LoadedPhases
  <1>6. ASSUME NEW i \in Handlers, i # h
        PROVE  /\ Creating(i)' = Creating(i)
               /\ Changing(i)' = Changing(i)
    BY <1>3, <1>6 DEF Others, Creating, Changing
  <1>7. IDsFresh'
    <2>1. \A j \in DOMAIN records' : j \in Nat => j <= counter'
      BY <1>1, <1>2, <1>3 DEF KInv, IDsFresh
    <2>2. id \notin DOMAIN records
      BY <1>2 DEF KInv, IDsFresh
    <2>3. ASSUME NEW i \in Handlers, i # h, Creating(i)
          PROVE  /\ reviewID'[i] = reviewID[i]
                 /\ reviewID[i] \in Nat
                 /\ reviewID[i] < id
                 /\ reviewID[i] \notin DOMAIN records
      BY <1>2, <1>3, <2>3 DEF KInv, IDsFresh, Others
    <2>4. ASSUME NEW i \in Handlers, Creating(i)'
          PROVE  /\ reviewID'[i] \in Nat
                 /\ reviewID'[i] <= counter'
                 /\ reviewID'[i] \notin DOMAIN records'
      BY <1>1, <1>2, <1>3, <1>6, <2>2, <2>3, <2>4
    <2>5. ASSUME NEW i \in Handlers, NEW j \in Handlers,
                 Creating(i)', Creating(j)', i # j
          PROVE  reviewID'[i] # reviewID'[j]
      <3>1. CASE i # h /\ j # h
        BY <1>3, <1>6, <2>5, <3>1 DEF KInv, IDsFresh, Others
      <3>2. CASE i = h
        BY <1>2, <1>3, <1>6, <2>3, <2>5, <3>2
      <3>3. CASE j = h
        BY <1>2, <1>3, <1>6, <2>3, <2>5, <3>3
      <3> QED
        BY <3>1, <3>2, <3>3
    <2> QED
      BY <2>1, <2>4, <2>5 DEF IDsFresh
  <1>8. DraftKeys'
    <2>1. draft'[h].key = call'[h].key
      BY <1>3, <1>4, NewRecordSavable
    <2> QED
      BY <1>3, <1>5, <1>6, <2>1 DEF KInv, DraftKeys, Others
  <1>9. KeysUnique' /\ AckedCreateKept' /\ restarts' = 0
    BY <1>3, QuietAcks DEF KInv, KeysUnique
  <1>10. \A k : Holders(k)' = Holders(k)
    BY <1>3 DEF Holders
  <1>11. ConflictIsResolved'
    BY <1>3, <1>10 DEF KInv, ConflictIsResolved, Others
  <1> QED
    BY <1>7, <1>8, <1>9, <1>11 DEF KInv

LEMMA LoadKeys ==
    ASSUME NEW h \in Handlers, Store = "postgres", IInv, KInv,
           GetReviewRow(h) \/ GetTimeline(h) \/ GetDecisions(h)
             \/ GetEvaluation(h)
    PROVE  KInv'
  <1>1. UNCHANGED <<records, counter, restarts, createAcks>>
    BY DEF GetReviewRow, GetTimeline, GetDecisions, GetEvaluation, Loading,
           store, acks
  <1>2. AckedCreateKept'
    BY <1>1, QuietAcks
  <1>3. HandlersOK /\ draft[h] \in Records
    BY DEF IInv, HandlersOK, HandlerTypes
  <1>4. ASSUME NEW next \in LoadedPhases, NEW rec,
               Loads(h, next, rec), UNCHANGED <<call, reviewID>>,
               reviewID[h] \in DOMAIN records,
               rec.key = records[reviewID[h]].key
        PROVE  KInv'
    <2>1. /\ Others(h)
          /\ phase'[h] = next
          /\ draft'[h] = rec
          /\ reviewID'[h] = reviewID[h]
      BY <1>3, <1>4, LoadsOthers
    <2>2. ~Creating(h)' /\ phase'[h] # "recheck"
      BY <2>1 DEF Creating, LoadedPhases
    <2> QED
      BY <1>1, <1>2, <1>4, <2>1, <2>2, QuietStepKeys
  <1>5. CASE GetReviewRow(h)
    <2>1. CASE reviewID[h] \in DOMAIN records
      <3> DEFINE row == records[reviewID[h]]
                 rec == [Blank EXCEPT !.key = row.key, !.status = row.status,
                                      !.gated = row.gated]
      <3>1. rec.key = row.key
        BY DEF Blank
      <3>2. Loads(h, "getTimeline", rec) /\ UNCHANGED <<call, reviewID>>
        BY <1>5, <2>1 DEF GetReviewRow
      <3> HIDE DEF rec
      <3> QED
        BY <1>4, <2>1, <3>1, <3>2 DEF LoadedPhases
    <2>2. CASE reviewID[h] \notin DOMAIN records
      BY <1>1, <1>2, <1>5, <2>2, QuietFinishKeys DEF GetReviewRow
    <2> QED
      BY <2>1, <2>2
  <1>6. ASSUME phase[h] \in LoadedPhases
        PROVE  /\ reviewID[h] \in DOMAIN records
               /\ draft[h].key = records[reviewID[h]].key
    BY <1>6 DEF KInv, DraftKeys, Changing
  <1>7. CASE GetTimeline(h)
    <2> DEFINE rec == [draft[h] EXCEPT !.timeline =
                         records[reviewID[h]].timeline]
    <2>1. phase[h] \in LoadedPhases
      BY <1>7 DEF GetTimeline, Loading, LoadedPhases
    <2>2. rec.key = draft[h].key
      BY <1>3 DEF Records
    <2>3. Loads(h, "getDecisions", rec) /\ UNCHANGED <<call, reviewID>>
      BY <1>7 DEF GetTimeline
    <2> HIDE DEF rec
    <2> QED
      BY <1>4, <1>6, <2>1, <2>2, <2>3 DEF LoadedPhases
  <1>8. CASE GetDecisions(h)
    <2> DEFINE rec == [draft[h] EXCEPT !.decisions =
                         records[reviewID[h]].decisions]
    <2>1. phase[h] \in LoadedPhases
      BY <1>8 DEF GetDecisions, Loading, LoadedPhases
    <2>2. rec.key = draft[h].key
      BY <1>3 DEF Records
    <2>3. Loads(h, "getEvaluation", rec) /\ UNCHANGED <<call, reviewID>>
      BY <1>8 DEF GetDecisions
    <2> HIDE DEF rec
    <2> QED
      BY <1>4, <1>6, <2>1, <2>2, <2>3 DEF LoadedPhases
  <1>9. CASE GetEvaluation(h)
    <2> DEFINE rec == [draft[h] EXCEPT !.evaluation =
                         records[reviewID[h]].evaluation]
    <2>1. phase[h] \in LoadedPhases
      BY <1>9 DEF GetEvaluation, Loading, LoadedPhases
    <2>2. rec.key = draft[h].key
      BY <1>3 DEF Records
    <2>3. Loads(h, "loaded", rec) /\ UNCHANGED <<call, reviewID>>
      BY <1>9 DEF GetEvaluation
    <2> HIDE DEF rec
    <2> QED
      BY <1>4, <1>6, <2>1, <2>2, <2>3 DEF LoadedPhases
  <1> QED
    BY <1>5, <1>7, <1>8, <1>9

\* An operation keeps the key of what it loaded.
LEMMA OperateKeys ==
    ASSUME NEW h \in Handlers, Store = "postgres", IInv, KInv,
           SubmitHumanDecision(h) \/ UpdateEvaluation(h) \/ RetryReview(h)
    PROVE  KInv'
  <1>1. /\ phase[h] = "loaded"
        /\ call[h].op # "create"
        /\ UNCHANGED <<records, counter, restarts, createAcks>>
    BY DEF SubmitHumanDecision, UpdateEvaluation, RetryReview, Operating,
           store, acks
  <1>2. AckedCreateKept'
    BY <1>1, QuietAcks
  <1>3. /\ HandlersOK
        /\ draft[h] \in Records
        /\ draft[h].status \in Settled
        /\ GateRespected(draft[h])
        /\ reviewID[h] \in DOMAIN records
        /\ draft[h].key = records[reviewID[h]].key
    BY <1>1 DEF IInv, HandlersOK, HandlerTypes, Fit, LoadedPhases, KInv,
                DraftKeys, Changing
  <1>4. ASSUME NEW rec, Loads(h, "save", rec), UNCHANGED <<call, reviewID>>,
               rec.key = draft[h].key
        PROVE  KInv'
    <2>1. /\ Others(h)
          /\ phase'[h] = "save"
          /\ draft'[h] = rec
          /\ reviewID'[h] = reviewID[h]
      BY <1>3, <1>4, LoadsOthers
    <2>2. ~Creating(h)'
      BY <1>1, <1>4 DEF Creating
    <2> QED
      BY <1>1, <1>2, <1>3, <1>4, <2>1, <2>2, QuietStepKeys
  <1>5. ASSUME Finish(h) PROVE KInv'
    BY <1>1, <1>2, <1>5, QuietFinishKeys
  <1>6. CASE SubmitHumanDecision(h)
    <2>1. CASE call[h].verdict \in Verdicts
      <3> DEFINE rec == Decided(draft[h], call[h].verdict, call[h].request)
      <3>1. call[h].request \in Nat
        BY <1>6 DEF SubmitHumanDecision, Operating, IInv, HandlersOK,
                    HandlerTypes, Calls
      <3>2. rec.key = draft[h].key
        BY <1>3, <2>1, <3>1, DecidedSavable
      <3>3. Loads(h, "save", rec) /\ UNCHANGED <<call, reviewID>>
        BY <1>6, <2>1 DEF SubmitHumanDecision
      <3> HIDE DEF rec
      <3> QED
        BY <1>4, <3>2, <3>3
    <2>2. CASE call[h].verdict \notin Verdicts
      BY <1>5, <1>6, <2>2 DEF SubmitHumanDecision
    <2> QED
      BY <2>1, <2>2
  <1>7. CASE UpdateEvaluation(h)
    <2> DEFINE rec == Evaluated(draft[h], call[h].outcome)
    <2>1. call[h].outcome \in Outcomes \cup {Nil}
      BY <1>7 DEF UpdateEvaluation, Operating, IInv, HandlersOK, HandlerTypes,
                  Calls
    <2>2. rec.key = draft[h].key
      BY <1>3, <2>1, EvaluatedSavable
    <2>3. Loads(h, "save", rec) /\ UNCHANGED <<call, reviewID>>
      BY <1>7 DEF UpdateEvaluation
    <2> HIDE DEF rec
    <2> QED
      BY <1>4, <2>2, <2>3
  <1>8. CASE RetryReview(h)
    <2>1. CASE draft[h].status = "FAILED"
      <3>1. PICK g \in BOOLEAN : Loads(h, "save", Retried(draft[h], g))
        BY <1>8, <2>1 DEF RetryReview
      <3>2. UNCHANGED <<call, reviewID>>
        BY <1>8, <2>1 DEF RetryReview
      <3>3. Retried(draft[h], g).key = draft[h].key
        BY <1>3, RetriedSavable
      <3> QED
        BY <1>4, <3>1, <3>2, <3>3
    <2>2. CASE draft[h].status # "FAILED"
      BY <1>5, <1>8, <2>2 DEF RetryReview
    <2> QED
      BY <2>1, <2>2
  <1> QED
    BY <1>6, <1>7, <1>8

\* A save keeps every stored review and its key, and the key of a new one is
\* its own.
LEMMA WriteKeys ==
    ASSUME NEW h \in Handlers, Store = "postgres", IInv, KInv,
           phase[h] = "save", ~KeyTaken(h), Write(h), Finish(h),
           UNCHANGED <<counter, restarts>>
    PROVE  /\ KeysKept
           /\ reviewID[h] \in DOMAIN records'
           /\ records'[reviewID[h]].key = draft[h].key
           /\ AckedCreateKept' => KInv'
  <1>1. /\ DOMAIN records' = DOMAIN records \cup {reviewID[h]}
        /\ records'[reviewID[h]] = draft[h]
        /\ \A id \in DOMAIN records \ {reviewID[h]} : records'[id] = records[id]
    BY DEF Write, Put
  <1>2. \/ Creating(h) /\ reviewID[h] \in Nat /\ reviewID[h] <= counter
                       /\ reviewID[h] \notin DOMAIN records
        \/ /\ reviewID[h] \in DOMAIN records
           /\ draft[h].key = records[reviewID[h]].key
    BY DEF KInv, IDsFresh, DraftKeys, Changing
  <1>3. KeysKept
    BY <1>1, <1>2 DEF KeysKept
  <1>4. Others(h) /\ phase'[h] = "idle"
    BY FinishOthers DEF IInv
  <1>5. ~Creating(h)' /\ ~Changing(h)'
    BY <1>4 DEF Creating, Changing, LoadedPhases
  <1>6. ASSUME NEW g \in Handlers, g # h
        PROVE  /\ Creating(g)' = Creating(g)
               /\ Changing(g)' = Changing(g)
    BY <1>4, <1>6 DEF Others, Creating, Changing
  <1>7. IDsFresh'
    <2>1. \A id \in DOMAIN records' : id \in Nat => id <= counter'
      BY <1>1, <1>2 DEF KInv, IDsFresh
    <2>2. ASSUME NEW g \in Handlers, Creating(g)'
          PROVE  /\ reviewID'[g] = reviewID[g]
                 /\ Creating(g)
                 /\ g # h
                 /\ reviewID[g] \in Nat
                 /\ reviewID[g] <= counter
                 /\ reviewID[g] # reviewID[h]
                 /\ reviewID[g] \notin DOMAIN records'
      BY <1>1, <1>2, <1>4, <1>5, <1>6, <2>2 DEF KInv, IDsFresh, Others
    <2>3. ASSUME NEW f \in Handlers, NEW g \in Handlers,
                 Creating(f)', Creating(g)', f # g
          PROVE  reviewID'[f] # reviewID'[g]
      BY <2>2, <2>3 DEF KInv, IDsFresh
    <2> QED
      BY <2>1, <2>2, <2>3 DEF IDsFresh
  <1>8. DraftKeys'
    BY <1>3, <1>4, <1>5, <1>6 DEF KInv, DraftKeys, Others, KeysKept
  <1>9. KeysUnique'
    <2>1. \A id \in DOMAIN records \ {reviewID[h]} :
            draft[h].key # Nil => records[id].key # draft[h].key
      BY DEF KeyTaken
    <2> QED
      BY <1>1, <2>1 DEF KInv, KeysUnique
  <1>10. ConflictIsResolved'
    <2>1. ASSUME NEW g \in Handlers, phase'[g] = "recheck"
          PROVE  Holders(call[g].key)' # {}
      <3>1. phase[g] = "recheck" /\ call'[g] = call[g]
        BY <1>4, <2>1 DEF Others
      <3>2. PICK id \in DOMAIN records : records[id].key = call[g].key
        BY <3>1 DEF KInv, ConflictIsResolved, Holders
      <3>3. id \in DOMAIN records' /\ records'[id].key = call'[g].key
        BY <1>3, <3>1, <3>2 DEF KeysKept
      <3> QED
        BY <3>3 DEF Holders
    <2> QED
      BY <2>1 DEF ConflictIsResolved
  <1>11. restarts' = 0
    BY DEF KInv
  <1> QED
    BY <1>1, <1>3, <1>7, <1>8, <1>9, <1>10, <1>11 DEF KInv

LEMMA SaveKeys ==
    ASSUME NEW h \in Handlers, Store = "postgres", IInv, KInv,
           SaveOk(h) \/ SaveConflict(h) \/ CommitAnswerLost(h) \/ QueryFails(h)
    PROVE  KInv'
  <1>1. ASSUME KeysKept, UNCHANGED createAcks PROVE AckedCreateKept'
    BY <1>1 DEF KInv, AckedCreateKept, KeysKept
  <1>2. CASE SaveOk(h)
    <2>1. /\ phase[h] = "save" /\ ~KeyTaken(h) /\ Write(h) /\ Finish(h)
          /\ UNCHANGED <<counter, restarts>>
      BY <1>2 DEF SaveOk
    <2>2. CASE call[h].op = "create"
      <3>1. AckCreate(h, reviewID[h])
        BY <1>2, <2>2 DEF SaveOk
      <3>2. draft[h].key = call[h].key
        BY <2>1, <2>2 DEF KInv, DraftKeys, Creating
      <3>3. AckedCreateKept'
        BY <2>1, <3>1, <3>2, WriteKeys DEF AckCreate, KInv, AckedCreateKept,
                                           KeysKept
      <3> QED
        BY <2>1, <3>3, WriteKeys
    <2>3. CASE call[h].op # "create"
      <3>1. UNCHANGED createAcks
        BY <1>2, <2>3 DEF SaveOk, AckDecision, acks
      <3> QED
        BY <1>1, <2>1, <3>1, WriteKeys
    <2> QED
      BY <2>2, <2>3
  <1>3. CASE CommitAnswerLost(h)
    <2>1. /\ phase[h] = "save" /\ ~KeyTaken(h) /\ Write(h) /\ Finish(h)
          /\ UNCHANGED <<counter, restarts, createAcks>>
      BY <1>3 DEF CommitAnswerLost, acks
    <2> QED
      BY <1>1, <2>1, WriteKeys
  <1>4. CASE QueryFails(h)
    <2>1. Finish(h) /\ UNCHANGED <<records, counter, restarts, createAcks>>
      BY <1>4 DEF QueryFails, store, acks
    <2> QED
      BY <2>1, QuietAcks, QuietFinishKeys
  <1>5. CASE SaveConflict(h)
    <2>1. UNCHANGED <<records, counter, restarts, createAcks>>
      BY <1>5 DEF SaveConflict, store, acks
    <2>2. CASE call[h].op = "create"
      <3>1. /\ Others(h)
            /\ phase'[h] = "recheck"
            /\ call'[h] = call[h]
        BY <1>5, <2>2 DEF SaveConflict, GoTo, Others, IInv, HandlersOK,
                          HandlerTypes
      <3>2. draft[h].key = call[h].key
        BY <1>5, <2>2 DEF SaveConflict, KInv, DraftKeys, Creating
      <3>3. Holders(call'[h].key) # {}
        BY <1>5, <3>1, <3>2 DEF SaveConflict, KeyTaken, Holders
      <3>4. ~Creating(h)' /\ ~Changing(h)'
        BY <3>1 DEF Creating, Changing, LoadedPhases
      <3> QED
        BY <2>1, <3>1, <3>3, <3>4, QuietAcks, QuietStepKeys
    <2>3. CASE call[h].op # "create"
      <3>1. Finish(h)
        BY <1>5, <2>3 DEF SaveConflict
      <3> QED
        BY <2>1, <3>1, QuietAcks, QuietFinishKeys
    <2> QED
      BY <2>2, <2>3
  <1> QED
    BY <1>2, <1>3, <1>4, <1>5

LEMMA StutterKeys == KInv /\ UNCHANGED vars => KInv'
  BY DEF KInv, vars, store, handler, acks, IDsFresh, DraftKeys, KeysUnique,
         Creating, Changing, AckedCreateKept, ConflictIsResolved, Holders

LEMMA StepKeys ==
    ASSUME Store = "postgres", MaxRestarts = 0
    PROVE  IInv /\ KInv /\ [Next]_vars => KInv'
  <1> SUFFICES ASSUME IInv, KInv, [Next]_vars PROVE KInv'
    OBVIOUS
  <1>1. CASE Restart
    BY <1>1 DEF Restart, KInv
  <1>2. ASSUME NEW h \in Handlers, Arrive(h) PROVE KInv'
    BY <1>2, ArriveKeys
  <1>3. ASSUME NEW h \in Handlers, Serve(h) PROVE KInv'
    BY <1>3, LookUpKeys, RunCreateKeys, LoadKeys, OperateKeys, SaveKeys
       DEF Serve
  <1>4. CASE UNCHANGED vars
    BY <1>4, StutterKeys
  <1> QED
    BY <1>1, <1>2, <1>3, <1>4 DEF Next

LEMMA KeyInvariance ==
    ASSUME Store = "postgres", MaxRestarts = 0
    PROVE  Spec => []KInv
  <1>1. IInv /\ KInv /\ [Next]_vars => KInv'
    BY StepKeys
  <1> QED
    BY <1>1, InitKeys, Invariance, PTL DEF Spec

\* On Postgres, while the process does not restart, two creates with one
\* dedupe key that both succeed name one review, for any number of concurrent
\* requests and whichever queries fail or lose their answer.
THEOREM CreateIsIdempotent ==
    ASSUME Store = "postgres", MaxRestarts = 0
    PROVE  Spec => []IdempotentCreate
  BY KeyInvariance, KInvImplies, PTL

\* Under the same assumptions the review an acknowledged create named stays
\* stored under its key.
THEOREM CreateIsKept ==
    ASSUME Store = "postgres", MaxRestarts = 0
    PROVE  Spec => []AckedCreateKept
  <1>1. KInv => AckedCreateKept
    BY DEF KInv
  <1> QED
    BY <1>1, KeyInvariance, PTL

\* Under the same assumptions a create whose save meets the unique key finds
\* the review that holds it.
THEOREM ConflictFindsHolder ==
    ASSUME Store = "postgres", MaxRestarts = 0
    PROVE  Spec => []ConflictIsResolved
  <1>1. KInv => ConflictIsResolved
    BY DEF KInv
  <1> QED
    BY <1>1, KeyInvariance, PTL
=============================================================================
