---------------------------- MODULE ReviewSystem ----------------------------
(***************************************************************************)
(* The review API and the GitHub webhook (internal/api) over the service   *)
(* (service.go) with whole records, once on MemoryStore (store.go) and     *)
(* once on PostgresStore (PostgresTables).  The two deployments are served *)
(* the same requests, one at a time and in lock-step, so that what differs *)
(* between them is the store's doing.  Requests that run concurrently are  *)
(* in ReviewService.                                                       *)
(*                                                                         *)
(* A record holds what the stores tell apart: the identity of the review,  *)
(* the request and what the pipeline made of it, identifiers drawn from    *)
(* the service's counter, and a history with wall-clock times.             *)
(***************************************************************************)
EXTENDS RiskScoring, GitHubWebhook, PostgresTables

CONSTANTS
    Delivered,    \* what GitHub delivers
    Creates,      \* the requests of POST /api/v1/reviews
    Submitted,    \* what clients submit as a decision
    Updates,      \* the evaluation updates clients send
    Seeds,        \* failed reviews of older data, one of which may be stored
    Unknown,      \* an identifier no review has
    MaxServed,    \* bound on the requests served
    MaxRestarts   \* bound on the restarts of the Postgres deployment

NoResult == [score |-> 0, level |-> "", confidence |-> 0, human |-> FALSE]

\* A request for a review: names is what its service, repository and files
\* contain, content what its title and files do, contexts how many it brings.
ReviewRequests ==
    [source : Text, change : Text, head : Text, base : Text,
     environment : Text, key : Text, names : SUBSET STRING,
     content : SUBSET STRING, contexts : Nat]

EvaluationValues ==
    [final : Verdicts \cup {Nil}, outcome : Outcomes \cup {Nil},
     incident : BOOLEAN \cup {Nil}, created : Int]

\* A failed review of older data: its request is stored or it is not, and then
\* the version of its rollback tells the base.  No number of the counter is its
\* identifier.
OldReviews ==
    {rec \in [id : Int, task : Int, change : Text, key : Text, source : Text,
              names : SUBSET STRING, environment : Text, status : {"FAILED"},
              result : {NoResult}, created : Int,
              request : ReviewRequests \cup {Nil}, understanding : {Nil},
              evidence : {[numbers |-> {}]},
              signals : {[numbers |-> {}, raised |-> {}]},
              recommendation : [reviewers : {{}}, version : Text],
              timeline : Seq([state : {"FAILED"}, by : {"service"}, at : Int]),
              decisions : {<<>>}, evaluation : {Nil}, error : STRING] :
        /\ rec.id < 0 /\ rec.task < 0 /\ rec.created <= 0
        /\ Len(rec.timeline) = 1 /\ rec.timeline[1].at = rec.created
        /\ rec.request = Nil \/ rec.recommendation.version = Empty}

ASSUME SystemAssumption ==
    /\ MaxServed \in Nat
    /\ MaxRestarts \in Nat
    /\ Updates \subseteq [outcome : Outcomes \cup {Nil},
                         incident : BOOLEAN \cup {Nil}]
    /\ Creates \subseteq ReviewRequests
    /\ Delivered \subseteq Deliveries
    /\ Seeds \subseteq OldReviews

\* Keys holds the dedupe key of every review that may be stored.
ASSUME KeysAssumption ==
    /\ \A req \in Creates : dedupeKeyFor(req) \in Keys \cup {Empty}
    /\ \A delivery \in Delivered :
         Outcome(delivery) = "create" =>
           dedupeKeyFor(ReviewRequest(delivery.event)) \in Keys \cup {Empty}
    /\ \A seed \in Seeds : seed.key \in Keys \cup {Empty}

\* What understandChange may tag a change with, next to its type.
TagNames ==
    {"schema_change", "runtime_config_changed", "traffic_routing_changed",
     "application_code_change", "core_path_modified", "auth_logic_changed",
     "sensitive_artifact_changed"}

\* An understanding is its tags.
Understandings == [tags : SUBSET (Text \cup {<<tag>> : tag \in TagNames})]

\* Nil is none of the values it stands in for.
ASSUME NilApart ==
    /\ Nil \notin BOOLEAN
    /\ Nil \notin Understandings
    /\ Nil \notin ReviewRequests
    /\ Nil \notin EvaluationValues

VARIABLES
    memory,     \* the deployment on MemoryStore
    postgres,   \* the deployment on PostgresStore
    clock,      \* the wall clock
    steady,     \* whether the clock never stepped back
    served,     \* number of requests served
    restarts,   \* number of restarts of the Postgres deployment
    answers,    \* what the two answered the last request
    created,    \* history: the creates both deployments accepted
    reported    \* history: the last incident flag reported of a review

vars == <<memory, postgres, clock, steady, served, restarts, answers, created,
          reported>>
-----------------------------------------------------------------------------
(***************************************************************************)
(* The pipeline, from a request to the parts of a record.                  *)
(***************************************************************************)

\* The rules look for prod anywhere in the text and in any case, the heuristic
\* analyzer for that text alone.
Environment(environment) ==
    IF environment = <<"prod">> THEN "prod"
    ELSE IF \E i \in DOMAIN environment : LowerCase[environment[i]] = "prod"
           THEN "prod-like"
    ELSE "other"

\* The rules take a source type they do not know for a pull request.
SourceType(source) ==
    IF \E type \in SourceTypes : source = <<type>>
      THEN source[1] ELSE "pull_request"

\* normalizeChange: repository and service come from the review's names, title
\* and files from the payload.
ChangeOf(req) ==
    LET named == req.names \cup req.content
    IN  [source      |-> SourceType(req.source),
         environment |-> Environment(req.environment),
         critical    |-> "critical" \in named,
         auth        |-> "auth" \in named,
         sensitive   |-> "sensitive" \in req.content,
         files       |-> "files" \in req.content]

ChangeType(req) == IF req.source = Empty THEN <<"pull_request">> ELSE req.source

\* The semantic tags of understandChange: the type as the request gives it, and
\* what its rules derive.
Tags(req) ==
    LET c == ChangeOf(req)
        derived ==
          When(c.source = "sql_migration", "schema_change")
            \cup When(c.source = "k8s_diff", "runtime_config_changed")
            \cup When(c.source = "gateway_config", "traffic_routing_changed")
            \cup When(c.source \in {"pull_request", "terraform_plan"},
                      "application_code_change")
            \cup When(c.critical, "core_path_modified")
            \cup When(c.auth, "auth_logic_changed")
            \cup When(c.sensitive, "sensitive_artifact_changed")
    IN  {ChangeType(req)} \cup {<<tag>> : tag \in derived}

\* Signals, result and reviewers with the heuristic analyzer.
Assess(c) ==
    LET raised == Merge(RuleSignals(c), Heuristic(c).suggestions)
        result == ApplyAnalysis(ScoreReview(raised), Heuristic(c))
    IN  [raised |-> raised, result |-> result, reviewers |-> Reviewers(c, result)]

Event(state, by, at) == [state |-> state, by |-> by, at |-> at]

\* The pipeline draws an identifier for each of two pieces of evidence, each
\* context of the request and the analysis, and then for each signal.
EvidenceDrawn(req) == 2 + req.contexts + 1

Drawn(req) == EvidenceDrawn(req) + Cardinality(Assess(ChangeOf(req)).raised)

ProcessedFrom(rec, req, counter, now) ==
    LET c == ChangeOf(req)
        assessed == Assess(c)
        evidence == EvidenceDrawn(req)
        path == PipelinePath(assessed.result.human)
    IN  [rec EXCEPT
           !.understanding = [tags |-> Tags(req)],
           !.evidence = [numbers |-> counter + 1 .. counter + evidence],
           !.signals = [numbers |-> counter + evidence + 1
                                      .. counter + Drawn(req),
                        raised |-> assessed.raised],
           !.result = assessed.result,
           !.recommendation = [reviewers |-> assessed.reviewers,
                               version |-> req.base],
           !.status = LastOf(path),
           !.timeline = @ \o [i \in DOMAIN path |->
                                Event(path[i], "pipeline", now)]]

NewEvaluation(now) ==
    [final |-> Nil, outcome |-> Nil, incident |-> Nil, created |-> now]

\* The record CreateReview starts from.
NewReview(req, key, counter, now) ==
    [id |-> counter + 1, task |-> counter + 2,
     change |-> req.change, key |-> key, source |-> req.source,
     names |-> req.names, environment |-> req.environment,
     status |-> "CREATED", result |-> NoResult, created |-> now,
     request |-> req, understanding |-> Nil,
     evidence |-> [numbers |-> {}], signals |-> [numbers |-> {}, raised |-> {}],
     recommendation |-> [reviewers |-> {}, version |-> Empty],
     timeline |-> <<Event("CREATED", "service", now)>>, decisions |-> <<>>,
     evaluation |-> NewEvaluation(now), error |-> ""]
-----------------------------------------------------------------------------
(***************************************************************************)
(* The Store of a deployment.  MemoryStore keeps records and an index of   *)
(* their keys and refuses nothing.                                         *)
(***************************************************************************)
Stored(side) ==
    IF side.store = "memory" THEN DOMAIN side.records
                             ELSE DOMAIN side.tables.reviews

Load(side, id) ==
    IF side.store = "memory" THEN side.records[id] ELSE Get(side.tables, id)

Find(side, key) ==
    IF side.store = "memory"
      THEN {side.index[k] : k \in {key} \cap DOMAIN side.index}
      ELSE FindByDedupeKey(side.tables, key)

SaveResult(side, rec) ==
    IF side.store = "memory" THEN "ok" ELSE SaveAnswer(side.tables, rec)

\* Mutant: the memory store keeps no index.
SavedUnindexed(side, rec) ==
    IF side.store = "memory"
      THEN [side EXCEPT !.records = Put(@, rec.id, rec)]
      ELSE [side EXCEPT !.tables = SaveRows(@, rec)]

Saved(side, rec) ==
    IF side.store = "memory"
      THEN [side EXCEPT !.records = Put(@, rec.id, rec),
                        !.index = IF rec.key = Empty THEN @
                                  ELSE Put(@, rec.key, rec.id)]
      ELSE [side EXCEPT !.tables = SaveRows(@, rec)]

Answer(side, code, id) == [side |-> side, answer |-> [code |-> code, id |-> id]]

\* The save that ends an operation, and the answer it gets.
Commit(side, rec) ==
    CASE SaveResult(side, rec) = "ok" ->
           Answer(Saved(side, rec), "accepted", rec.id)
      [] SaveResult(side, rec) = "conflict" -> Answer(side, "conflict", Unknown)
      [] SaveResult(side, rec) = "error" ->
           Answer(side, "internal_error", Unknown)
-----------------------------------------------------------------------------
(***************************************************************************)
(* The operations of the service.  Each takes a deployment and returns it  *)
(* as the operation leaves it, with the answer.                            *)
(***************************************************************************)

\* A save that met the unique key would look the key up again; a key that was
\* free at the lookup is still free here, where requests run one at a time.
CreateReview(side, req, now) ==
    LET key == dedupeKeyFor(req)
        existing == IF key = Empty THEN {} ELSE Find(side, key)
        new == NewReview(req, key, side.counter, now)
    IN  IF existing # {}
          THEN Answer(side, "accepted", CHOOSE id \in existing : TRUE)
          ELSE Commit([side EXCEPT !.counter = @ + 2 + Drawn(req)],
                      ProcessedFrom(new, req, side.counter + 2, now))

\* An evaluation that is not there is made.
EvaluationFor(rec, now) ==
    IF rec.evaluation = Nil THEN NewEvaluation(now) ELSE rec.evaluation

SubmitHumanDecision(side, id, verdict, now) ==
    LET rec == Load(side, id)
    IN  IF id \notin Stored(side) THEN Answer(side, "not_found", Unknown)
        ELSE IF verdict \notin Verdicts
               THEN Answer(side, "internal_error", Unknown)
        ELSE Commit(side,
               [rec EXCEPT
                  !.status = StatusOf(verdict),
                  !.decisions = Append(@, [verdict |-> verdict,
                                           request |-> served + 1, at |-> now]),
                  !.evaluation = [EvaluationFor(rec, now) EXCEPT
                                    !.final = verdict],
                  !.timeline = Append(@, Event(StatusOf(verdict), "decision",
                                               now))])

\* Mutant: an update without an incident flag clears it.
UpdateEvaluationClearing(side, id, update, now) ==
    LET rec == Load(side, id)
    IN  IF id \notin Stored(side) THEN Answer(side, "not_found", Unknown)
        ELSE Commit(side,
               [rec EXCEPT
                  !.evaluation = [EvaluationFor(rec, now) EXCEPT
                     !.outcome = IF update.outcome = Nil THEN @
                                 ELSE update.outcome,
                     !.incident = update.incident],
                  !.timeline = Append(@, Event(rec.status, "evaluation", now))])

\* What the update does not carry stays as it was.
UpdateEvaluation(side, id, update, now) ==
    LET rec == Load(side, id)
    IN  IF id \notin Stored(side) THEN Answer(side, "not_found", Unknown)
        ELSE Commit(side,
               [rec EXCEPT
                  !.evaluation = [EvaluationFor(rec, now) EXCEPT
                     !.outcome = IF update.outcome = Nil THEN @
                                 ELSE update.outcome,
                     !.incident = IF update.incident = Nil THEN @
                                  ELSE update.incident],
                  !.timeline = Append(@, Event(rec.status, "evaluation", now))])

\* requestFromRecord: the stored request, or what the record knows of it.
RequestFromRecord(rec) ==
    IF rec.request # Nil
      THEN rec.request
      ELSE [source |-> rec.source, change |-> rec.change, head |-> Empty,
            base |-> rec.recommendation.version,
            environment |-> rec.environment, key |-> rec.key,
            names |-> rec.names, content |-> {}, contexts |-> 0]

Reset(rec, now) ==
    [rec EXCEPT !.status = "CREATED",
                !.signals = [numbers |-> {}, raised |-> {}],
                !.recommendation = [reviewers |-> {}, version |-> Empty],
                !.evidence = [numbers |-> {}],
                !.error = "",
                !.timeline = Append(@, Event("CREATED", "retry", now))]

\* Mutant: the request is rebuilt from the record after its reset.
RetryFromReset(side, id, now) ==
    LET rec == Load(side, id)
        reset == Reset(rec, now)
        req == RequestFromRecord(reset)
    IN  IF id \notin Stored(side) THEN Answer(side, "not_found", Unknown)
        ELSE IF rec.status # "FAILED" THEN Answer(side, "conflict", Unknown)
        ELSE Commit([side EXCEPT !.counter = @ + Drawn(req)],
                    ProcessedFrom(reset, req, side.counter, now))

\* Mutant: the status is not looked at.
RetryAnyStatus(side, id, now) ==
    LET rec == Load(side, id)
        req == RequestFromRecord(rec)
    IN  IF id \notin Stored(side) THEN Answer(side, "not_found", Unknown)
        ELSE Commit([side EXCEPT !.counter = @ + Drawn(req)],
                    ProcessedFrom(Reset(rec, now), req, side.counter, now))

\* Only a failed review is retried.  The request is rebuilt before the parts it
\* is rebuilt from are reset.
RetryReview(side, id, now) ==
    LET rec == Load(side, id)
        req == RequestFromRecord(rec)
    IN  IF id \notin Stored(side) THEN Answer(side, "not_found", Unknown)
        ELSE IF rec.status # "FAILED" THEN Answer(side, "conflict", Unknown)
        ELSE Commit([side EXCEPT !.counter = @ + Drawn(req)],
                    ProcessedFrom(Reset(rec, now), req, side.counter, now))

\* GetEvaluationMetrics of a window: the counts its rates are quotients of.
\* The service's name, which narrows the window further, is left out.
Metrics(records, from, to) ==
    LET window == {rec \in records : from <= rec.created /\ rec.created <= to}
        high == {rec \in window : rec.result.level \in {"HIGH", "CRITICAL"}}
        WithFlag(flag) == {rec \in high : rec.evaluation # Nil
                                            /\ rec.evaluation.incident = flag}
    IN  [count     |-> Cardinality(window),
         overrides |-> Cardinality({rec \in window :
                                      rec.status = "OVERRIDDEN"}),
         high      |-> Cardinality(high),
         incident  |-> Cardinality(WithFlag(TRUE)),
         harmless  |-> Cardinality(WithFlag(FALSE))]

List(side) == {Load(side, id) : id \in Stored(side)}
-----------------------------------------------------------------------------
(***************************************************************************)
(* The requests.  Each is served at one time of the clock; MaxServed       *)
(* bounds the run.                                                         *)
(***************************************************************************)
Init ==
    /\ \E seeded \in {{}} \cup {{seed} : seed \in Seeds} :
         /\ memory = [store   |-> "memory",
                      records |-> [id \in {rec.id : rec \in seeded} |->
                                     CHOOSE rec \in seeded : rec.id = id],
                      index   |-> [k \in {rec.key : rec \in seeded} \ {Empty} |->
                                     CHOOSE id \in {rec.id : rec \in seeded} :
                                       TRUE],
                      counter |-> 0]
         /\ postgres = [store   |-> "postgres",
                        tables  |-> IF seeded = {} THEN EmptyTables
                                    ELSE SaveRows(EmptyTables,
                                           CHOOSE rec \in seeded : TRUE),
                        counter |-> 0]
    /\ clock = 1
    /\ steady = TRUE
    /\ served = 0
    /\ restarts = 0
    /\ answers = [memory |-> "none", postgres |-> "none"]
    /\ created = {}
    /\ reported = <<>>

\* Both deployments serve a request: the operation on each, with its answer.
Serve(operation(_)) ==
    LET m == operation(memory)
        p == operation(postgres)
    IN  /\ served < MaxServed
        /\ memory' = m.side
        /\ postgres' = p.side
        /\ answers' = [memory |-> m.answer, postgres |-> p.answer]
        /\ served' = served + 1
        /\ clock' = clock + 1
        /\ UNCHANGED <<steady, restarts>>

\* A request that is answered without reaching the service.
Turn(code) == Serve(LAMBDA side : Answer(side, code, Unknown))
                /\ UNCHANGED <<created, reported>>

\* The create is remembered if both deployments accepted it.
Create(origin, req) ==
    /\ Serve(LAMBDA side : CreateReview(side, req, clock))
    /\ created' =
         IF \A store \in DOMAIN answers : answers'[store].code = "accepted"
           THEN created \cup {[origin |-> origin, request |-> req,
                               ids |-> [store \in DOMAIN answers |->
                                          answers'[store].id]]}
           ELSE created
    /\ UNCHANGED reported

\* POST /api/v1/webhooks/github/pull-request.  GitHub may deliver an event
\* any number of times and in any order.
Deliver ==
    \E delivery \in Delivered :
        IF Outcome(delivery) = "create"
          THEN Create("webhook", ReviewRequest(delivery.event))
          ELSE Turn(Outcome(delivery))

\* POST /api/v1/reviews.
PostReview ==
    \E req \in Creates :
        IF req.source = Empty \/ req.change = Empty \/ req.environment = Empty
          THEN Turn("bad_request")
          ELSE Create("api", req)

Named == Stored(memory) \cup Stored(postgres) \cup {Unknown}

PostDecision ==
    \E id \in Named, verdict \in Submitted :
        /\ Serve(LAMBDA side : SubmitHumanDecision(side, id, verdict, clock))
        /\ UNCHANGED <<created, reported>>

PostEvaluation ==
    \E id \in Named, update \in Updates :
        /\ Serve(LAMBDA side : UpdateEvaluation(side, id, update, clock))
        /\ reported' = IF id \in Stored(memory) /\ update.incident # Nil
                         THEN Put(reported, id, update.incident) ELSE reported
        /\ UNCHANGED created

PostRetry ==
    \E id \in Named :
        /\ Serve(LAMBDA side : RetryReview(side, id, clock))
        /\ UNCHANGED <<created, reported>>

\* The process of the Postgres deployment starts again, with a new counter.
Restart ==
    /\ restarts < MaxRestarts
    /\ restarts' = restarts + 1
    /\ postgres' = [postgres EXCEPT !.counter = 0]
    /\ UNCHANGED <<memory, clock, steady, served, answers, created, reported>>

\* The wall clock is set back, once.
StepBack ==
    /\ steady = TRUE
    /\ steady' = FALSE
    /\ clock' = clock - 2
    /\ UNCHANGED <<memory, postgres, served, restarts, answers, created,
                   reported>>

Next ==
    \/ Deliver \/ PostReview \/ PostDecision \/ PostEvaluation \/ PostRetry
    \/ Restart \/ StepBack

Spec == Init /\ [][Next]_vars
-----------------------------------------------------------------------------
(***************************************************************************)
(* Properties.                                                             *)
(***************************************************************************)

\* No process started again, and the columns of Postgres are wide enough for
\* what was stored.
Comparable ==
    restarts = 0 /\ \A id \in Stored(memory) : ~TooWide(memory.records[id])

\* What both stores are to keep of a record.
Kept(rec) == [rec EXCEPT !.understanding = Nil, !.error = ""]

\* The same without the order of the history.
Unordered(rec) ==
    LET Entries(rows) == <<Len(rows), {rows[i] : i \in DOMAIN rows}>>
    IN  [Kept(rec) EXCEPT !.timeline = Entries(@), !.decisions = Entries(@)]

\* After any requests both stores hold the same reviews with the same contents,
\* though one keeps Go values and the other rows it reads back and writes again;
\* where the clock stepped back, only the order of the history may differ
\* (store.go:12, "switch between in-memory and PostgreSQL implementations
\* without changing the business flow").
StoresAgree ==
    Comparable =>
      /\ Stored(memory) = Stored(postgres)
      /\ \A id \in Stored(memory) :
           LET m == Load(memory, id)
               p == Load(postgres, id)
           IN  IF steady THEN Kept(m) = Kept(p) ELSE Unordered(m) = Unordered(p)

\* Clients get the same answers from both, identifiers included: duplicates,
\* conflicts and missing reviews are recognised alike.
AnswersAgree == Comparable => answers.memory = answers.postgres

\* What makes two creates one: the change, its head and its environment for
\* requests of one origin, the key for a request that brings its own.
Identity(create) ==
    LET req == create.request
    IN  IF create.origin = "api" /\ req.key # Empty
          THEN <<"key", req.key>>
          ELSE <<create.origin, Lower(req.source), Lower(req.change),
                 Lower(req.head), Lower(req.environment)>>

\* However often and in whatever order GitHub delivers the events of a pull
\* request, and clients repeat their requests, each head has one review for an
\* environment, and no two heads share one (dedupeKeyFor, "the same source and
\* head revision").
OneReviewPerHead ==
    restarts = 0 =>
      \A a, b \in created, store \in DOMAIN answers :
        Identity(a) = Identity(b) <=> a.ids[store] = b.ids[store]

\* Whatever is later decided or reported of a review, its snapshot stores the
\* semantic tags the pipeline derived (postgres.go:405-406, "stores the
\* normalized request payload plus semantic tags and touched files derived
\* during pipeline execution").
DerivedTagsStored ==
    \A id \in DOMAIN postgres.tables.snapshots :
      LET snapshot == postgres.tables.snapshots[id]
          events == postgres.tables.events[id]
      IN  (\E i \in DOMAIN events : events[i].by = "pipeline") =>
            snapshot.tags = Tags(snapshot.request)

\* Every stored review has its own task, in the state of the review, though an
\* upsert of a task never moves it to the review that saves it and a restarted
\* process gives out its identifiers again.
TaskFollowsReview ==
    \A id \in Stored(postgres) :
      LET task == TaskOf(postgres.tables, id)
      IN  /\ task # NoTask
          /\ postgres.tables.tasks[task].state = postgres.tables.reviews[id].status

\* The rows of evaluations pile up, one for each save, but differ in when they
\* were created alone: whichever of them a query picks says the same.
EvaluationRowsAgree ==
    \A id \in DOMAIN postgres.tables.evaluations :
      LET rows == postgres.tables.evaluations[id]
      IN  \A i \in DOMAIN rows :
            rows[i] = [LastOf(rows) EXCEPT !.created = rows[i].created]

\* No two reviews of a deployment share a piece of evidence, a signal or a
\* task, whatever numbers a restarted counter gives out again.
IdentifiersUnique ==
    \A side \in {memory, postgres} :
      LET all == List(side)
      IN  \A a, b \in all :
            a.id # b.id =>
              /\ a.task # b.task
              /\ a.evidence.numbers \cap b.evidence.numbers = {}
              /\ a.signals.numbers \cap b.signals.numbers = {}

\* The metrics of every window account for what clients reported: a review
\* counts as overridden by its last decision alone, and among the high-risk
\* ones by the last incident flag reported, which no later operation loses.
MetricsAccount ==
    Comparable /\ steady =>
      \A side \in {memory, postgres} :
        LET all == List(side)
            times == {rec.created : rec \in all}
        IN  \A from, to \in times :
              LET metrics == Metrics(all, from, to)
                  window == {rec \in all :
                               from <= rec.created /\ rec.created <= to}
                  Flagged(flag) ==
                    {rec \in window :
                       /\ rec.result.level \in {"HIGH", "CRITICAL"}
                       /\ rec.id \in DOMAIN reported
                       /\ reported[rec.id] = flag}
              IN  /\ metrics.overrides =
                       Cardinality({rec \in window :
                          /\ rec.decisions # <<>>
                          /\ LastOf(rec.decisions).verdict = "override"})
                  /\ metrics.incident = Cardinality(Flagged(TRUE))
                  /\ metrics.harmless = Cardinality(Flagged(FALSE))

\* The version each review's rollback restores.
Targets(side) ==
    IF side.store = "memory"
      THEN [id \in DOMAIN side.records |->
              side.records[id].recommendation.version]
      ELSE [id \in DOMAIN side.tables.recommendations |->
              side.tables.recommendations[id].version]

\* The version a rollback restores is never lost or changed once the pipeline
\* has named it, though a retry clears the plan it may have to take it from.
RollbackTargetKept ==
    [][restarts = 0 =>
         /\ \A id \in Stored(memory) : Targets(memory)[id] # Empty =>
              Targets(memory)'[id] = Targets(memory)[id]
         /\ \A id \in Stored(postgres) : Targets(postgres)[id] # Empty =>
              Targets(postgres)'[id] = Targets(postgres)[id]]_vars

\* A record as ReviewRecord has it.
Abstract(rec) ==
    [key        |-> IF rec.key = Empty THEN Nil ELSE rec.key,
     status     |-> rec.status,
     gated      |-> rec.result.human,
     timeline   |-> [i \in DOMAIN rec.timeline |-> rec.timeline[i].state],
     decisions  |-> [i \in DOMAIN rec.decisions |->
                       [verdict |-> rec.decisions[i].verdict,
                        request |-> rec.decisions[i].request]],
     evaluation |-> IF rec.evaluation = Nil THEN NoEvaluation
                    ELSE [final |-> rec.evaluation.final,
                          outcome |-> rec.evaluation.outcome]]

Life == INSTANCE ReviewLifecycle WITH
          current <- [id \in DOMAIN memory.records |-> Abstract(memory.records[id])],
          IDs <- Nat, Requests <- 1 .. MaxServed

\* With whole records and the real gate of the pipeline, the deployment on
\* MemoryStore is the atomic review lifecycle.
MemoryImplements == Life!AtomicSpec
=============================================================================
