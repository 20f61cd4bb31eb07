--------------------------- MODULE ReviewService ---------------------------
(***************************************************************************)
(* The review service (internal/review/service.go) serving concurrent HTTP *)
(* requests over one Store (store.go, postgres.go).  Each handler is the   *)
(* goroutine of one request at a time.  Everything it does between two     *)
(* calls of the Store is local and is one step; every query of the Store   *)
(* is a step of its own, so that other handlers, a failing database and a  *)
(* restart of the process come between them.                               *)
(*                                                                         *)
(*   create    lookup -> run -> save [-> recheck]                          *)
(*   others    getReview -> getTimeline -> getDecisions -> getEvaluation   *)
(*               -> loaded -> save                                         *)
(*                                                                         *)
(* A save is atomic in both stores: a lock in one, a transaction in the    *)
(* other.  A load is one locked read in memory, but eight queries outside  *)
(* any transaction in Postgres; the four kept here are those of the tables *)
(* whose contents a later save writes back and the properties mention.     *)
(***************************************************************************)
EXTENDS ReviewRecord, FiniteSets

CONSTANTS
    Handlers,     \* goroutines that serve requests
    Legacy,       \* reviews stored as FAILED before the service started
    Unknown,      \* an identifier no review has
    Store,        \* "memory" or "postgres"
    Operations,   \* the operations clients call
    Submitted,    \* what clients submit as a decision; "maybe" is invalid
    Faulty,       \* whether queries of Postgres may fail
    IDGap,        \* the most identifiers a review takes (tasks, evidence,
                  \* signals draw from the same counter)
    MaxRequests,  \* bound on the requests served
    MaxRestarts   \* bound on the restarts of the process

ASSUME ConstantsAssumption ==
    /\ Store \in {"memory", "postgres"}
    /\ Operations \subseteq {"create", "decide", "evaluate", "retry"}
    /\ Submitted \subseteq Verdicts \cup {"maybe"}
    /\ Faulty \in BOOLEAN
    /\ Faulty => Store = "postgres"
    /\ IDGap \in Nat \ {0}
    /\ MaxRequests \in Nat
    /\ MaxRestarts \in Nat
    /\ Legacy \cap Nat = {}
    /\ Unknown \notin Nat \cup Legacy
    /\ Nil \notin Nat \cup Legacy \cup {Unknown}

\* Two loads from the memory store share the timeline's array and the
\* evaluation, so its records are values here only while requests that change
\* a stored review do not run concurrently.
ASSUME MemoryAssumption ==
    Store = "memory" => Operations = {"create"} \/ Cardinality(Handlers) = 1

VARIABLES
    records,      \* review identifier -> stored record
    index,        \* dedupe key -> review identifier, in the memory store
    counter,      \* the last number nextID gave out since the process started
    phase,        \* where each handler stands
    call,         \* the request each handler serves
    reviewID,     \* the review it creates or changes
    draft,        \* the record it has loaded or built so far
    requests,     \* number of requests accepted
    restarts,     \* number of restarts
    createAcks,   \* history: the creates answered with success
    decisionAcks, \* history: the decisions answered with success
    past          \* history: every record stored under each identifier

store   == <<records, index, past>>
acks    == <<createAcks, decisionAcks>>
handler == <<phase, call, reviewID, draft>>
vars    == <<store, counter, handler, requests, restarts, acks>>

\* Identifiers the service gives out are numbers, the "rvw_" left out.
ReviewIDs == Nat \cup Legacy

Calls ==
    [op : {"none"}]
      \cup [op : {"create"}, key : Keys \cup {Nil}]
      \cup [op : {"decide"}, verdict : Verdicts \cup {"maybe"}, request : Nat]
      \cup [op : {"evaluate"}, outcome : Outcomes \cup {Nil}]
      \cup [op : {"retry"}]

NoCall == [op |-> "none"]

LoadPhases == {"getReview", "getTimeline", "getDecisions", "getEvaluation"}

\* The phases in which a handler is about to query the store.
StorePhases == LoadPhases \cup {"lookup", "save", "recheck"}

Phases == StorePhases \cup {"idle", "run", "loaded"}
-----------------------------------------------------------------------------
\* A handler goes from one phase to the next with the rest as it is.
GoTo(h, next) == phase' = [phase EXCEPT ![h] = next]

\* The handler's request is answered.
Finish(h) ==
    /\ GoTo(h, "idle")
    /\ call' = [call EXCEPT ![h] = NoCall]
    /\ reviewID' = [reviewID EXCEPT ![h] = Nil]
    /\ draft' = [draft EXCEPT ![h] = Blank]

Loads(h, next, rec) ==
    /\ GoTo(h, next)
    /\ draft' = [draft EXCEPT ![h] = rec]

\* The reviews FindByDedupeKey may answer with.
Holders(key) ==
    IF Store = "memory"
      THEN {index[k] : k \in {key} \cap DOMAIN index} \cap DOMAIN records
      ELSE {id \in DOMAIN records : records[id].key = key}

Init ==
    /\ \E keyOf \in [Legacy -> Keys \cup {Nil}] :
         /\ \A l, m \in Legacy : keyOf[l] = keyOf[m] => l = m \/ keyOf[l] = Nil
         /\ records = [l \in Legacy |-> FailedRecord(keyOf[l])]
         /\ index = [k \in IF Store = "memory"
                             THEN Keys \cap {keyOf[l] : l \in Legacy} ELSE {}
                       |-> CHOOSE l \in Legacy : keyOf[l] = k]
    /\ past = [l \in Legacy |-> {records[l]}]
    /\ counter = 0
    /\ phase = [h \in Handlers |-> "idle"]
    /\ call = [h \in Handlers |-> NoCall]
    /\ reviewID = [h \in Handlers |-> Nil]
    /\ draft = [h \in Handlers |-> Blank]
    /\ requests = 0
    /\ restarts = 0
    /\ createAcks = {}
    /\ decisionAcks = {}
-----------------------------------------------------------------------------
(***************************************************************************)
(* A request arrives.  MaxRequests bounds the run.                         *)
(***************************************************************************)
Accept(h, c, id, next) ==
    /\ phase[h] = "idle"
    /\ c.op \in Operations
    /\ requests < MaxRequests
    /\ requests' = requests + 1
    /\ GoTo(h, next)
    /\ call' = [call EXCEPT ![h] = c]
    /\ reviewID' = [reviewID EXCEPT ![h] = id]
    /\ UNCHANGED <<store, counter, draft, restarts, acks>>

\* A create without a key skips the lookup.  The HTTP handlers refuse requests
\* whose key would be empty; Service.CreateReview does not.
ArriveCreate(h) ==
    \E k \in Keys \cup {Nil} :
        Accept(h, [op |-> "create", key |-> k], Nil,
               IF k = Nil THEN "run" ELSE "lookup")

ArriveDecide(h) ==
    \E id \in DOMAIN records \cup {Unknown}, v \in Submitted :
        Accept(h, [op |-> "decide", verdict |-> v, request |-> requests + 1],
               id, "getReview")

ArriveEvaluate(h) ==
    \E id \in DOMAIN records \cup {Unknown}, o \in Outcomes \cup {Nil} :
        Accept(h, [op |-> "evaluate", outcome |-> o], id, "getReview")

ArriveRetry(h) ==
    \E id \in DOMAIN records \cup {Unknown} :
        Accept(h, [op |-> "retry"], id, "getReview")
-----------------------------------------------------------------------------
(***************************************************************************)
(* CreateReview.                                                           *)
(***************************************************************************)
AckCreate(h, id) ==
    /\ createAcks' = createAcks \cup {[key |-> call[h].key, id |-> id]}
    /\ UNCHANGED decisionAcks

\* FindByDedupeKey: an existing review is the answer.
LookUpExisting(h) ==
    /\ phase[h] = "lookup"
    /\ \E id \in Holders(call[h].key) : AckCreate(h, id)
    /\ Finish(h)
    /\ UNCHANGED <<store, counter, requests, restarts>>

LookUpNotFound(h) ==
    /\ phase[h] = "lookup"
    /\ Holders(call[h].key) = {}
    /\ GoTo(h, "run")
    /\ UNCHANGED <<store, counter, call, reviewID, draft, requests, restarts,
                   acks>>

\* Mutant: the counter is read before it is advanced.
NextIDsFromCurrent == counter .. counter + IDGap - 1

\* The numbers nextID may give the next review: the counter has moved on by
\* what the pipelines before it drew for their own entities.
NextIDs == counter + 1 .. counter + IDGap

\* The identifiers and the pipeline of a new review.
RunCreate(h) ==
    /\ phase[h] = "run"
    /\ \E id \in NextIDs, g \in BOOLEAN :
         /\ counter' = id
         /\ reviewID' = [reviewID EXCEPT ![h] = id]
         /\ Loads(h, "save", NewRecord(call[h].key, g))
    /\ UNCHANGED <<store, call, requests, restarts, acks>>

\* Mutant: the save is tried again, with the identifier and key it had.
RecheckSavesAgain(h) ==
    /\ phase[h] = "recheck"
    /\ GoTo(h, "save")
    /\ UNCHANGED <<store, counter, call, reviewID, draft, requests, restarts,
                   acks>>

\* The second lookup, after the save met the unique key.
Recheck(h) ==
    /\ phase[h] = "recheck"
    /\ IF Holders(call[h].key) # {}
         THEN \E id \in Holders(call[h].key) : AckCreate(h, id)
         ELSE UNCHANGED acks
    /\ Finish(h)
    /\ UNCHANGED <<store, counter, requests, restarts>>
-----------------------------------------------------------------------------
(***************************************************************************)
(* Get, of the other three operations: the reviews row first, then the     *)
(* tables that hold the rest of the record.  A review no longer stored     *)
(* cannot occur after the first query: no query deletes a review.          *)
(***************************************************************************)
Loading(h, p) == phase[h] = p /\ UNCHANGED <<store, counter, requests, restarts, acks>>

GetReviewRow(h) ==
    /\ Loading(h, "getReview")
    /\ IF reviewID[h] \in DOMAIN records
         THEN /\ Loads(h, "getTimeline",
                       LET row == records[reviewID[h]]
                       IN  [Blank EXCEPT !.key = row.key,
                                         !.status = row.status,
                                         !.gated = row.gated])
              /\ UNCHANGED <<call, reviewID>>
         ELSE Finish(h)

GetTimeline(h) ==
    /\ Loading(h, "getTimeline")
    /\ Loads(h, "getDecisions",
             [draft[h] EXCEPT !.timeline = records[reviewID[h]].timeline])
    /\ UNCHANGED <<call, reviewID>>

GetDecisions(h) ==
    /\ Loading(h, "getDecisions")
    /\ Loads(h, "getEvaluation",
             [draft[h] EXCEPT !.decisions = records[reviewID[h]].decisions])
    /\ UNCHANGED <<call, reviewID>>

GetEvaluation(h) ==
    /\ Loading(h, "getEvaluation")
    /\ Loads(h, "loaded",
             [draft[h] EXCEPT !.evaluation = records[reviewID[h]].evaluation])
    /\ UNCHANGED <<call, reviewID>>
-----------------------------------------------------------------------------
(***************************************************************************)
(* What each operation makes of the record it loaded.                      *)
(***************************************************************************)
Operating(h, op) ==
    /\ phase[h] = "loaded"
    /\ call[h].op = op
    /\ UNCHANGED <<store, counter, requests, restarts, acks>>

\* The status of the review is not looked at: any review takes any verdict.
SubmitHumanDecision(h) ==
    /\ Operating(h, "decide")
    /\ IF call[h].verdict \in Verdicts
         THEN /\ Loads(h, "save", Decided(draft[h], call[h].verdict,
                                          call[h].request))
              /\ UNCHANGED <<call, reviewID>>
         ELSE Finish(h)

UpdateEvaluation(h) ==
    /\ Operating(h, "evaluate")
    /\ Loads(h, "save", Evaluated(draft[h], call[h].outcome))
    /\ UNCHANGED <<call, reviewID>>

\* Mutant: the status is not looked at.
RetryAnyStatus(h) ==
    /\ Operating(h, "retry")
    /\ \E g \in BOOLEAN : Loads(h, "save", Retried(draft[h], g))
    /\ UNCHANGED <<call, reviewID>>

RetryReview(h) ==
    /\ Operating(h, "retry")
    /\ IF draft[h].status = "FAILED"
         THEN /\ \E g \in BOOLEAN : Loads(h, "save", Retried(draft[h], g))
              /\ UNCHANGED <<call, reviewID>>
         ELSE Finish(h)
-----------------------------------------------------------------------------
(***************************************************************************)
(* Save.                                                                   *)
(***************************************************************************)

\* Mutant: the dedupe key is not unique among the stored reviews.
NeverTaken(h) == FALSE

\* The partial unique index of Postgres on the dedupe key.
KeyTaken(h) ==
    /\ Store = "postgres"
    /\ draft[h].key # Nil
    /\ \E id \in DOMAIN records \ {reviewID[h]} :
         records[id].key = draft[h].key

\* Mutant: the memory store keeps no index.
WriteWithoutIndex(h) ==
    /\ records' = Put(records, reviewID[h], draft[h])
    /\ past' = Put(past, reviewID[h], {draft[h]} \cup
                 IF reviewID[h] \in DOMAIN past THEN past[reviewID[h]] ELSE {})
    /\ UNCHANGED index

\* Both stores upsert the whole record; no version is compared.
Write(h) ==
    /\ records' = Put(records, reviewID[h], draft[h])
    /\ past' = Put(past, reviewID[h], {draft[h]} \cup
                 IF reviewID[h] \in DOMAIN past THEN past[reviewID[h]] ELSE {})
    /\ index' = IF Store = "memory" /\ draft[h].key # Nil
                  THEN Put(index, draft[h].key, reviewID[h]) ELSE index

AckDecision(h) ==
    /\ decisionAcks' = decisionAcks \cup
         {[id |-> reviewID[h], verdict |-> call[h].verdict,
           request |-> call[h].request]}
    /\ UNCHANGED createAcks

SaveOk(h) ==
    /\ phase[h] = "save"
    /\ ~KeyTaken(h)
    /\ Write(h)
    /\ Finish(h)
    /\ CASE call[h].op = "create" -> AckCreate(h, reviewID[h])
         [] call[h].op = "decide" -> AckDecision(h)
         [] OTHER -> UNCHANGED acks
    /\ UNCHANGED <<counter, requests, restarts>>

\* ErrConflict: only a create looks the key up once more.
SaveConflict(h) ==
    /\ phase[h] = "save"
    /\ KeyTaken(h)
    /\ IF call[h].op = "create"
         THEN GoTo(h, "recheck") /\ UNCHANGED <<call, reviewID, draft>>
         ELSE Finish(h)
    /\ UNCHANGED <<store, counter, requests, restarts, acks>>

\* Mutant: any error of a create's save is taken for the conflict.
QueryFailsAsConflict(h) ==
    /\ phase[h] \in StorePhases
    /\ Faulty
    /\ IF phase[h] = "save" /\ call[h].op = "create"
         THEN GoTo(h, "recheck") /\ UNCHANGED <<call, reviewID, draft>>
         ELSE Finish(h)
    /\ UNCHANGED <<store, counter, requests, restarts, acks>>

\* A query or the transaction fails and the request is answered with the
\* error.  After a restart the reused numbers of tasks, evidence or signals
\* may break a unique constraint of theirs.
QueryFails(h) ==
    /\ phase[h] \in StorePhases
    /\ Faulty \/ (phase[h] = "save" /\ restarts > 0 /\ Store = "postgres")
    /\ Finish(h)
    /\ UNCHANGED <<store, counter, requests, restarts, acks>>

\* The commit takes effect and its answer is lost: the caller gets the error.
CommitAnswerLost(h) ==
    /\ phase[h] = "save"
    /\ Faulty
    /\ ~KeyTaken(h)
    /\ Write(h)
    /\ Finish(h)
    /\ UNCHANGED <<counter, requests, restarts, acks>>
-----------------------------------------------------------------------------
\* The process stops and starts again: the requests it was serving are gone,
\* the counter starts over, and so does everything the memory store kept.
Restart ==
    /\ restarts < MaxRestarts
    /\ restarts' = restarts + 1
    /\ counter' = 0
    /\ phase' = [h \in Handlers |-> "idle"]
    /\ call' = [h \in Handlers |-> NoCall]
    /\ reviewID' = [h \in Handlers |-> Nil]
    /\ draft' = [h \in Handlers |-> Blank]
    /\ IF Store = "memory"
         THEN records' = <<>> /\ index' = <<>> /\ past' = <<>>
         ELSE UNCHANGED store
    /\ UNCHANGED <<requests, acks>>

Arrive(h) ==
    ArriveCreate(h) \/ ArriveDecide(h) \/ ArriveEvaluate(h) \/ ArriveRetry(h)

\* A step of the request h serves.
Serve(h) ==
    \/ LookUpExisting(h) \/ LookUpNotFound(h) \/ RunCreate(h)
    \/ GetReviewRow(h) \/ GetTimeline(h) \/ GetDecisions(h) \/ GetEvaluation(h)
    \/ SubmitHumanDecision(h) \/ UpdateEvaluation(h) \/ RetryReview(h)
    \/ SaveOk(h) \/ SaveConflict(h) \/ CommitAnswerLost(h)
    \/ Recheck(h) \/ QueryFails(h)

Next == Restart \/ \E h \in Handlers : Arrive(h) \/ Serve(h)

Spec == Init /\ [][Next]_vars

\* The scheduler runs every goroutine and every query returns.
FairSpec == Spec /\ \A h \in Handlers : WF_vars(Serve(h))
-----------------------------------------------------------------------------
(***************************************************************************)
(* Properties.                                                             *)
(***************************************************************************)
Creates == [key : Keys \cup {Nil}, id : ReviewIDs]

DecisionAcks == [id : ReviewIDs, verdict : Verdicts, request : Nat]

\* Every variable has its type; in particular no record is ever stored in a
\* status in which the workflow is still running, which is what lets a client
\* that polls a review find it either settled or not there.
TypeOK ==
    /\ DOMAIN records \subseteq ReviewIDs
    /\ \A id \in DOMAIN records :
         records[id] \in Records /\ records[id].status \in Settled
    /\ DOMAIN index \subseteq Keys
    /\ \A k \in DOMAIN index : index[k] \in ReviewIDs
    /\ counter \in Nat
    /\ phase \in [Handlers -> Phases]
    /\ call \in [Handlers -> Calls]
    /\ reviewID \in [Handlers -> ReviewIDs \cup {Unknown, Nil}]
    /\ draft \in [Handlers -> Records]
    /\ requests \in 0 .. MaxRequests
    /\ restarts \in 0 .. MaxRestarts
    /\ createAcks \subseteq Creates
    /\ decisionAcks \subseteq DecisionAcks

\* A stored record agrees with itself, however torn the load it was made from:
\* its status is the last event of its timeline, and a review whose pipeline
\* asked for a human was not left RECOMMENDED by it.
RecordsCoherent ==
    \A id \in DOMAIN records :
        StatusOnTimeline(records[id]) /\ GateRespected(records[id])

\* Two creates with one dedupe key that are both answered with success name
\* one review (CreateReview, "applies idempotency").
IdempotentCreate ==
    \A a, b \in createAcks : a.key = b.key /\ a.key # Nil => a.id = b.id

\* A create that was answered with success stays answered: the review it
\* named is stored, under the key it was created for.
AckedCreateKept ==
    \A a \in createAcks :
        a.id \in DOMAIN records /\ records[a.id].key = a.key

\* A create whose save meets the unique key finds the review that holds it,
\* so that ErrConflict never reaches a client of CreateReview.
ConflictIsResolved ==
    \A h \in Handlers : phase[h] = "recheck" => Holders(call[h].key) # {}

\* A decision that was answered with success is in the review's decisions
\* (SubmitHumanDecision; docs/spec.md, "keeps them in the audit trail").
AckedDecisionKept ==
    \A a \in decisionAcks :
        /\ a.id \in DOMAIN records
        /\ \E i \in DOMAIN records[a.id].decisions :
             records[a.id].decisions[i] =
               [verdict |-> a.verdict, request |-> a.request]

\* The last human decision, the status of the review and the final decision
\* of its evaluation are one (SubmitHumanDecision sets all three; Postgres
\* keeps them in three tables).
DecisionsGovern ==
    \A id \in DOMAIN records : DecisionGoverns(records[id])

\* No step takes an event out of the timeline of a stored review
\* (replaceAuditEvents deletes and inserts what the comment calls
\* append-only events).
TimelineAppendOnly ==
    [][\A id \in DOMAIN records :
          /\ id \in DOMAIN records'
          /\ Len(records[id].timeline) <= Len(records'[id].timeline)
          /\ \A i \in DOMAIN records[id].timeline :
               records'[id].timeline[i] = records[id].timeline[i]]_vars

\* A review a human rejected becomes releasable only by another decision.
RejectionSticks ==
    [][\A id \in DOMAIN records \cap DOMAIN records' :
          records[id].status = "REJECTED" /\ CanRelease(records'[id].status)
            => Len(records'[id].decisions) > Len(records[id].decisions)]_vars

Life == INSTANCE ReviewLifecycle WITH
            current <- records, IDs <- Nat, Requests <- 1 .. MaxRequests

Skewed == INSTANCE SkewedLifecycle WITH
            current <- records, IDs <- Nat, Requests <- 1 .. MaxRequests

\* Served one at a time, the requests make the service the atomic review
\* lifecycle, whichever queries fail and whichever answers are lost.
ImplementsAtomic == Life!AtomicSpec

\* Served concurrently, each save still stores the outcome of one whole
\* operation on a mixture of records the review has had.
ImplementsSkewed == Skewed!SkewedSpec

\* Every request is answered, or dies with the process.
EveryCallAnswered ==
    \A h \in Handlers : phase[h] # "idle" ~> phase[h] = "idle"
=============================================================================
