# A specification of the change review service

The service in `src/` takes a description of a change (a pull request, a
migration, a configuration diff), runs it through a fixed pipeline with an
optional language-model analysis, stores the resulting *review* and lets people
decide on it, report how the release went, and retry it. This directory holds
TLA+ modules that model it, TLC instances that check them and TLAPS proofs about
them. Everything is translated from the Go code; documents, comments and tests
are used only to state what the code is expected to do.

## 1. Inventory

| Part | Code | State it keeps | Operations |
|---|---|---|---|
| Review record | `internal/review/types.go` | the `Record` aggregate: review row, timeline, decisions, evaluation, evidence, signals, recommendation | none of its own |
| Review service | `internal/review/service.go` | one atomic counter (`nextID`); everything else is in the store | `CreateReview`, `GetReview`, `GetTimeline`, `SubmitHumanDecision`, `RetryReview`, `ExportReview`, `UpdateEvaluation`, `GetEvaluationMetrics` |
| Memory store | `internal/review/store.go` | records by id, index by dedupe key, one RW lock | `Save`, `Get`, `FindByDedupeKey`, `List` |
| Postgres store | `internal/review/postgres.go`, `migrations/` | nine tables, a partial unique index on the dedupe key | the same four |
| Pipeline and scoring | `internal/review/pipeline.go`, `analyzer.go`, `service.go` (`runPipeline`) | none; extends the record it is handed | normalise, understand, collect evidence, analyse, extract signals, score, recommend |
| Agent runtime | `agent_runtime.go`, `agent_analyzer.go` | a transcript per analysis | `Analyze`: rounds of requests and tool calls, fallback |
| Agent tools | `agent_tools.go` | none | five read-only tools |
| Model client | `llm_client.go` | none | `CreateCompletion` with a timeout |
| Agent configuration | `agent_config.go`, `service.go:50-73` | two files read at start | load, merge, validate, choose the analyzer |
| GitHub webhook | `github_webhook.go`, `api/review_github_webhook.go` | none | check the header and the signature, decode, refuse, ignore, or map the delivery to `CreateReview` |
| HTTP API | `api/review_handler.go` | none | decode, validate, call the service, turn its error into a status code |
| Process entry | `cmd/review-api/main.go` | the choice of store | start, stop |
| Export and metrics | `service.go` | none | read and format, read and count |

**Interactions.** An HTTP handler calls the service in its own goroutine. The
service calls the store several times per request and holds no lock between the
calls. `CreateReview` and `RetryReview` run the pipeline, the pipeline calls the
analyzer, and the analyzer may talk to a model over HTTP. There are no queues,
no background workers and no callbacks; requests meet in the store and in the
counter only.

**What is hard here.**

* *Concurrency*: look-up-then-create, and load-change-save of a whole record
  without a version, both across several store calls.
* *Torn reads*: Postgres `Get` is eight queries without a transaction, so a
  record can be a mixture of two versions, and a later save writes it back.
* *Failure*: any query may fail, a commit may succeed and its answer be lost, the
  process may stop between any two steps; after a restart the counter starts over.
* *An external party*: the model may answer anything, ask for tools without end,
  or not answer.
* *Sharing*: the memory store copies a `Record` but not what it points to, so two
  requests on one review write the same memory outside the store's lock.
* *Round trips*: Postgres keeps a record in nine tables and reads most of it back,
  in the order of a wall clock, and the next save writes what was read.
* *Repetition*: GitHub delivers an event again, late, or next to another event of
  the same head.
* *Numbers*: column widths, the cap of the score, limits that are zero or negative.

**What makes each part correct**, in a sentence each:

* service: equal keys get one review; what was acknowledged stays stored; status,
  timeline, decisions and evaluation of a review agree; history only grows;
* stores: a save is atomic; two reviews never share a key; a load is one version;
  either store can take the place of the other;
* pipeline: the timeline and the gate follow from the score, the analysis can add
  to what the rules say and never take away;
* agent: bounded rounds, no unanswered tool call in a transcript, a failed run
  leaves only a marked fallback, every analysis ends;
* configuration: the local file overrides the public one, also with `false`;
* webhook: one review for each head of a pull request, however often delivered.

## 2. Modules

```
 ReviewRecord           what one operation makes of a record (pure)
   ├── ReviewLifecycle     abstract: one whole operation at a time
   │     └── SkewedLifecycle  abstract: operations on mixtures of versions
   ├── ReviewService       concurrent handlers, store, faults, restarts
   │     ├── MCReviewService              instances for TLC
   │     └── ReviewServiceProofs          theorems
   │           └── SerialServiceProofs       one request at a time
   │                 └── ConcurrentServiceProofs  any number of handlers
   ├── MemoryStore         records that share memory
   │     └── MCMemoryStore
   ├── PostgresTables      save and load, table by table (pure)
   └── ReviewPipeline      runPipeline of one review, up to the save
         │   ├── MCReviewPipeline
         │   └── ReviewPipelineProofs     theorems
         └── AgentRuntime     the analysis: loop, tools, client, fallback
               │   └── AgentRuntimeProofs    theorems
               ├── AgentConfig     two files -> analyzer and limits (pure)
               └── RiskScoring     change -> signals -> score -> gate (pure)
 DedupeKey              the text of the key (pure)
   ├── GitHubWebhook       a delivery -> an answer or a request (pure)
   └── DedupeKeyProofs     theorems, with GitHubWebhook
 ReviewSystem           API and webhook over the service on both stores
   │                    (RiskScoring + GitHubWebhook + PostgresTables,
   │                     with ReviewLifecycle as its abstract specification)
   ├── MCReviewSystem
   └── SystemRecordsProofs    records and tables: lemmas, the round trip
         └── ReviewSystemProofs  theorems, with DedupeKeyProofs
```

Three modules look at the service from different sides. `ReviewService` has its
concurrency: small records, several handlers, each call of the store a step.
`ReviewSystem` has its contents: whole records, the text of keys, the rows of
tables, one request at a time. `MemoryStore` has its sharing: pointers and arrays
instead of values. They meet in the operators of `ReviewRecord` and in
`ReviewLifecycle`, which two of them implement.

### ReviewRecord
Records keep the key, the status, the gate bit (`HumanReviewRequired`), the
timeline as the sequence of its statuses, the human decisions and the evaluation.
`NewRecord`, `Decided`, `Evaluated` and `Retried` are the record changes of
`CreateReview`, `SubmitHumanDecision`, `UpdateEvaluation` and `RetryReview`. A
decision carries the number of its request instead of reviewer, reason and time.
Release outcome and incident flag are one field, as both are kept by an update
that does not carry them. What the pipeline computes is reduced to the gate.

### ReviewService
`Handlers` are the goroutines. Each step of a handler is one call of the store
together with the local code up to the next call:

| Phase | Action | Code |
|---|---|---|
| idle | `ArriveCreate/Decide/Evaluate/Retry` | the HTTP handlers; `Accept` bounds the number |
| lookup | `LookUpExisting`, `LookUpNotFound` | `FindByDedupeKey` in `CreateReview` |
| run | `RunCreate` | `nextID`, initial record, pipeline |
| getReview … getEvaluation | `GetReviewRow`, `GetTimeline`, `GetDecisions`, `GetEvaluation` | the queries of `PostgresStore.Get` |
| loaded | `SubmitHumanDecision`, `UpdateEvaluation`, `RetryReview` | their changes, including the early returns |
| save | `SaveOk`, `SaveConflict`, `CommitAnswerLost` | `Store.Save` |
| recheck | `Recheck` | the second lookup after `ErrConflict` |
| any query | `QueryFails` | every `if err != nil { return }` |
| — | `Restart` | the process stops and `main` runs again |

`Store` selects the store. In memory the dedupe lookup goes through `index`, the
records die with the process and a save has no conflict. In Postgres the lookup
and the unique index read the rows. Four of the eight queries of `Get` are kept:
those whose contents a later save writes back and a property of this module
mentions; the others are in `PostgresTables`.
Identifiers are the numbers of the counter; `IDGap` lets it skip, as tasks,
evidence and signals draw from the same counter. `Legacy` reviews are stored
as `FAILED` before the start: no code of the repository sets that status, the
tests seed it, and without it a retry would always be refused.

`createAcks`, `decisionAcks` and `past` are history variables: what clients were
told, and every version stored under each identifier.

### ReviewLifecycle, SkewedLifecycle
The abstract system has the current records. A step of `AtomicSpec` creates a
review or applies one whole operation to the current version of one.
`SkewedLifecycle` adds the past versions; in its `SkewedSpec` the operation applies
to a mixture whose parts come from versions the review has had. That is the
isolation the service gives when requests are concurrent: no partial write, but
stale and torn reads.

### AgentConfig, RiskScoring
Pure modules. A configuration file is readable, missing or malformed; of
credentials only the presence matters; the three limits are one function. A
change is the set of features the keyword searches decide (source type,
environment, critical path, auth, sensitive artifact, has files). `Changes`
leaves out combinations no text has: a sensitive artifact is a file, and auth
that is not on the critical path was found in a file name. Confidences are in
hundredths.

### AgentRuntime
One analysis: `StartAnalysis`, then `RequestFails`, `ReceiveFinal`,
`ReceiveCalls`, `ExecuteCall`, `NextRound`, and `FallBack` after any error. The
model is external: at each request it may fail, end with any of `ModelAnalyses`
or something `Unusable`, or ask for any sequence of `ModelCalls`. Results of
tools are left out, as the tools only read the input; which calls fail is kept.
The `err` branch of `runHybridAnalysis` is not modelled: both analyzers that
`main` can select answer without error.

### ReviewPipeline
`runPipeline` with a transition per stage; its analysis stage is AgentRuntime's
`Analyze`, step by step. `Save` accepts or refuses by the width of the confidence
columns. `RunCreate` of ReviewService takes all of it as one step with an
arbitrary gate; the invariant `MatchesRecord` ties the two, since the record the
pipeline leaves is `NewRecord` of its gate.

### DedupeKey, GitHubWebhook
A text is a sequence of pieces that stand for characters; the colon is one of
them and `LowerCase` maps pieces to pieces. That is as much of a text as
`dedupeKeyFor` looks at: whether it is empty, how parts are joined, and what
`strings.ToLower` makes equal. `Outcome` is the webhook handler with its checks in
the order of the code (header, signature, JSON, required fields, action), and
`ReviewRequest` is the request it builds, with the inferred environment and the
key of its own. GitHub is external.

### PostgresTables
One operator per table for what `Save` writes (`ReviewRow`, `TaskRow`, `Snapshot`,
`EvaluationRows`, …), `SaveAnswer` for the ways a save is refused (widths
of four columns, the dedupe key, identifiers of evidence and signals that another
review has), and `Get` for what is read back, in the order `created_at, id`. A save is
one transaction, so here it is one step; `Get` is one step as well, because
`ReviewSystem` serves one request at a time. What the code loses stays lost: the
understanding and the last error are not read back, an upserted task keeps the
review it has, `replaceEvaluation` adds a row at every save.

### ReviewSystem
The requests of the API and the deliveries of the webhook (`PostReview`, `Deliver`,
`PostDecision`, `PostEvaluation`, `PostRetry`), with the validation of the handlers
and the code each request ends in. Each is served by two deployments in lock-step,
`memory` on `MemoryStore` and `postgres` on `PostgresStore`, at one time of a
wall clock. So the promise that the store can be exchanged becomes an invariant
that compares two states (`StoresAgree`, `AnswersAgree`). `CreateReview`,
`SubmitHumanDecision`, `UpdateEvaluation`, `RetryReview` and `Metrics` are
operators from a deployment to a deployment and an answer. The pipeline with the
heuristic analyzer is a function here (`ProcessedFrom`), built from the operators
of RiskScoring and counting the identifiers it draws. `Restart` starts the
Postgres deployment again with a new counter; `StepBack` sets the clock back. A
create whose save meets the unique key does not occur, since the lookup of the
same request finds the key first; the second lookup is in ReviewService.

`created` and `reported` are history variables: which creates were accepted, and
the last incident flag a client reported. `Seeds` are failed reviews, one whose
request is stored and an older one without, whose base commit only its rollback
plan tells.

### MemoryStore
The heap of the memory store: `evaluations` by pointer, `arrays` behind slices,
and `records` as Go values that hold a pointer and two slices. `Appended` is Go's
`append`, which writes into the array while it has room. A handler loads, changes
and saves in separate steps. Writes are taken to be atomic and in program order;
what it finds is therefore no artefact of the memory model, and the real data race
is worse.

## 3. Runs

Runs stop when their requests are served or their pipeline has ended, so they
switch TLC's deadlock check off; that nothing stays stuck before is what
`EveryCallAnswered`, `AnalysisEnds` and `CreateAnswered` say.

| Run | Instance | Shows |
|---|---|---|
| `postgres_concurrent` | 2 symmetric handlers, 3 requests, failing queries | `TypeOK`, `RecordsCoherent`, `IdempotentCreate`, `AckedCreateKept`, `ConflictIsResolved`, `ImplementsSkewed` |
| `postgres_serial` | 1 handler, 4 requests, failing queries | `ImplementsAtomic`, `AckedDecisionKept`, `DecisionsGovern`, `TimelineAppendOnly`, `RejectionSticks` |
| `postgres_restarts` | 2 handlers, 2 requests, 1 restart, `IDGap` 2, fairness | `RecordsCoherent` though identifiers are reused, `EveryCallAnswered` |
| `pipeline` | all changes with the agent on or off; 160 pairs of files with up to 3 calls of six kinds; fairness | the agent: `CallsAnswered`, `WithinLimits`, `LocalFileGoverns`, `FallbackExplicit`, `AnalysisEnds`; the pipeline: `PipelineTypeOK`, `MatchesRecord`, `RulesAreFloor`, `SignalsAccountForScore`, `AnalysisReloads`, `CreateAnswered` |
| `system` | 3 requests of every kind on both stores, 10 deliveries, 6 creates, one fault | `StoresAgree`, `AnswersAgree`, `OneReviewPerHead`, `TaskFollowsReview`, `EvaluationRowsAgree`, `IdentifiersUnique`, `MetricsAccount`, `RollbackTargetKept`, `MemoryImplements` |

What `system` shows, in more words. As long as no process restarts and the
texts of a review fit their columns, the two stores hold the same reviews and
clients get the same answers, identifiers included. A clock that steps back costs
Postgres the order of the history and nothing else. Each head of a pull request has
one review per environment however its events arrive. The rows of evaluations
that pile up never differ but in their date. After a restart the numbers of tasks, evidence and
signals are given out again, and still no two reviews come to share one, because
the unique columns refuse the save or it replaces the review that had them. A
retry never loses the version a rollback is to restore.

Seven runs find a promise of the repository broken by the code; the quotes are in
`PROJECT.json`:

| Run | What happens |
|---|---|
| `memory_duplicate` | two concurrent creates with one key on the memory store both look it up before either saves: two reviews, as its `Save` has no conflict |
| `memory_race` | a decision and an evaluation update load one review of the memory store together; each writes into the evaluation and the array of the timeline that the other holds, and what is at rest is neither's snapshot |
| `postgres_lost_decision` | two requests load one review; the later save removes the decision the earlier one acknowledged |
| `postgres_torn_load` | a decision commits between two queries of an evaluation update's load: the old status is stored with the new decision |
| `postgres_id_reuse` | after a restart the counter starts over, and a create overwrites an acknowledged review |
| `model_percent` | a model that gives its confidence in percent overflows `NUMERIC(5,4)`, and the create fails |
| `lost_tags` | a decision loads a review without its understanding and saves it: the source type takes the place of the semantic tags the pipeline derived |

The read-modify-write findings also bound what the passing runs can claim: on
concurrent Postgres only the skewed lifecycle holds, and the properties about
decisions hold for requests served one at a time.

### Bounds

* *Two handlers* are enough for every finding and for each pair of conflicting
  operations; *three requests* let a create precede the two that race on it (or a
  race of two be followed by a retry).
* *Four requests* served in turn reach create, decide, evaluate and decide again,
  and a retry of the seeded failed review followed by decisions.
* One dedupe key and the absent key, one outcome and the absent outcome: the code
  compares keys for equality only. `postgres_concurrent` submits `approve` and an
  invalid verdict, `postgres_serial` `approve` and `reject` (`RejectionSticks`
  needs both); the verdicts are handled alike otherwise.
* `IDGap` 1 where identifiers are not in question, 2 with restarts, so that the
  numbers after a restart need not meet the ones before.
* One restart: the counter is the only thing a second one would reset again.
* `pipeline` has two sides. With one complete public file and no other, or with
  none, it takes every change, and a model with 16 analyses and up to two calls of
  one tool. With one plain change it takes every pair of files, where limits are -1
  (so the default 3), 1 and 2, and answers of up to three calls, one more
  than the limit in force, each of six kinds (two that run, four that fail). The
  stages before the analysis do not read the files and the loop does not read the
  change, so the product of both sides would add no behaviour.
* `system`: three requests suffice for a create, its repetition and an
  operation between them, or a seeded review retried, decided and reported on; the deeper
  sequences are those of `postgres_serial`. `MCNext` allows one fault in a run, a
  restart or a clock that steps back, which act on different parts.
  `Widths` stands for the 64 characters of `change_id` (3 pieces), the 255 of
  `dedupe_key` (10), the 32 of `source_type` (1) and the 64 of `environment` (2):
  one create has a longer change, the other texts fit. Ten deliveries contain two heads of one pull
  request, another pull request with one of these heads, another target branch,
  another spelling, and one delivery for each way to be refused or ignored.
* `memory_race`: one review and two requests, the least that can meet.
* Handlers are symmetric: no action or property tells them apart. Runs with
  liveness use no symmetry.

### Fairness

`FairSpec` of ReviewService has weak fairness of `Serve(h)`, for each handler: Go
schedules every goroutine, and queries return (in this code they have no
deadline, `context.Background()`; a query that hangs for ever would break the
property). Arrivals and restarts are not fair. `FairAgentSpec`, the pipeline's
`FairSpec` and `MCFairSpec` have weak fairness of the whole step: the loop is
sequential, and the client's positive timeout (`validateAgentConfig`,
`NewChatCompletionsClient`) makes each request end with an answer or an error.
ReviewSystem and MemoryStore have no liveness property and no fairness.

## 4. Proofs

Eight modules prove, for every value of the constants that the named assumptions
allow:

| Theorem | Assuming | States |
|---|---|---|
| *ReviewServiceProofs* | | |
| `TypeCorrect` | — | `Spec => []TypeOK` |
| `Coherence` | — | `Spec => []RecordsCoherent` |
| `CreateIsIdempotent` | Postgres, no restart | `Spec => []IdempotentCreate` |
| `CreateIsKept` | Postgres, no restart | `Spec => []AckedCreateKept` |
| `ConflictFindsHolder` | Postgres, no restart | `Spec => []ConflictIsResolved` |
| *SerialServiceProofs* | | |
| `LastDecisionGoverns` | one handler, no restart | `Spec => []DecisionsGovern` |
| `DecisionIsKept` | one handler, no restart | `Spec => []AckedDecisionKept` |
| `TimelineKept` | one handler, no restart | `Spec => TimelineAppendOnly` |
| `RejectionKept` | one handler, no restart | `Spec => RejectionSticks` |
| `ServiceIsAtomic` | one handler, no restart | `Spec => ImplementsAtomic` (refines `AtomicSpec`) |
| *ConcurrentServiceProofs* | | |
| `ServiceIsSkewed` | Postgres, no restart, any number of handlers | `Spec => ImplementsSkewed` (refines `SkewedSpec`) |
| *AgentRuntimeProofs* | | |
| `AgentTypeCorrect` | — | `AgentSpec => []AgentTypeOK` |
| `LocalGoverns` | — | `AgentSpec => []LocalFileGoverns` |
| `FallbacksAreMarked` | — | `AgentSpec => []FallbackExplicit` |
| `LimitsHold` | — | `AgentSpec => []WithinLimits` |
| `EveryCallHasItsResult` | — | `AgentSpec => []CallsAnswered` |
| *ReviewPipelineProofs* | | |
| `PipelineRunsAnalysis` | — | the pipeline implements `AgentSpec` |
| `AgentKeepsPromises` | — | the five invariants of the agent within the pipeline |
| `SavedAsRecorded` | — | `Spec => []MatchesRecord` |
| `SignalsExplainScore` | — | `Spec => []SignalsAccountForScore` |
| `AnalysisIsReadBack` | — | `Spec => []AnalysisReloads` |
| `PipelineTypes` | — | `Spec => []PipelineTypeOK` |
| `RulesSetTheFloor` | — | `Spec => []RulesAreFloor` |
| *DedupeKeyProofs* | | |
| `ComputedKeysTellApart` | fields without colons | equal computed keys come from equal fields, but for case |
| `WebhookKeysTellApart` | fields without colons | equal keys of deliveries are one head of one pull request, but for case |
| `WebhookKeysApartFromComputed` | fields without colons | no computed key is the key of a delivery |
| *SystemRecordsProofs* | | |
| `SaveIsReadBack` | tables and record as the service leaves them | `Get` returns what `Save` stored, but for what no table holds |
| *ReviewSystemProofs* | | |
| `RowsAgree` | — | `Spec => []EvaluationRowsAgree` |
| `TaskFollows` | — | `Spec => []TaskFollowsReview` |
| `IdentifiersStayUnique` | — | `Spec => []IdentifiersUnique` |
| `RollbackTargetStays` | — | `Spec => RollbackTargetKept` |
| `OneReviewForEachHead` | `PlainRequests` | `Spec => []OneReviewPerHead` |
| `StoresStayAlike` | — | `Spec => []StoresAgree` |
| `AnswersStayAlike` | — | `Spec => []AnswersAgree` |
| `MetricsStayTrue` | — | `Spec => []MetricsAccount` |
| `MemoryIsAtomic` | — | `Spec => MemoryImplements` (refines `AtomicSpec`) |

So each invariant and action property that a run checks, and each refinement,
is a theorem as well, except the promises the code breaks. A dash means no
hypothesis beyond the named assumptions of the modules, which say of
what kind the constants are: `SystemAssumption` (requests, deliveries and seeds have
their types; a seed is a failed review of older data), `KeysAssumption` (`Keys`
holds every dedupe key that may come up), `NilApart` and `LiteralsAssumption`
(values that stand for different things are different), `AgentAssumption` and the
like. TLC evaluates all of them. `PlainRequests` asks that no field holds a colon, that
the number of a pull request holds no `#` and that lower case keeps the `#`, without
which keys are ambiguous; the instance of `system` satisfies it. `RollbackTargetKept`, `OneReviewPerHead`, `StoresAgree`,
`AnswersAgree` and `MetricsAccount` speak of runs until a restart, as their
definitions say.

The restrictions on ReviewService are needed: `memory_duplicate`, `postgres_id_reuse`,
`postgres_lost_decision` and `postgres_torn_load` are counterexamples without them.

*Coherence.* `RecordsCoherent` is not inductive, because a handler may save a
torn draft. `IInv` adds what a draft is in each phase: the review row (key,
status, gate) is read first and the timeline later, and until the timeline is
read the status is unrelated to it. It holds at the save because each operation
sets the status and appends the same status to whatever timeline it has. A stored
gate is respected because status and gate come from one row.

*Idempotence.* `KInv` says that identifiers of stored reviews are at most the
counter and identifiers in use by creates are different and not stored, that a
draft has the key of its call or of the stored review it was loaded from, that no
two stored reviews share a key, and that acknowledged creates are stored under
their key. A save checks the key in the step that writes, so uniqueness is kept;
a stored key never changes, so an acknowledgement stays true; and a handler in
`recheck` has met a holder, which no step removes.

*One request at a time.* With one handler a draft has an origin that is still
there: `SInv` says that while a load runs, the parts already read are those of the
stored record (`Current`), that a created draft is a new record whose identifier
is free (`Fresh`), and that a draft ready to be saved is one operation on the stored
record (`Operated`). A save is then a step of `AtomicSpec`, everything else a
stutter, and the properties of decisions and timelines follow from what one
operation does.

*Any number of requests.* The weaker `CInv` replaces "the stored record" by "some
version the review has had". `past` has every version, so a part once read stays a
part of a past version (`Mixed`), and a draft is created or derived from a mixture
of them. A save remembers what it stores, which is the step of `SkewedSpec`.

*The agent.* `Grounded` ties the analyzer to the files and says that without
tools no tool message is ever in the transcript. `Ended` says that no message of
a running loop is a final content and that after a failure the last one is none,
which is what separates the two outcomes of `FallbackExplicit`. `Counted` relates
the answers in the transcript to the round, and `Limited` lets only the last
message be an answer with too many calls, and only when the loop has ended.
`CallsAnswered` speaks of requests; between them `Answered` says that each call
of an answer either has its result in its place, or that place is past the end
and the pending calls have it at the same distance. Running a call turns one
into the other, and a request goes out when nothing is pending.

*The pipeline.* Its analysis stage takes steps of AgentRuntime and its other stages
leave AgentRuntime's variables alone, so it implements `AgentSpec` and every
invariant proved there is one of the pipeline. `Progress` says stage by stage what
has been computed from what: the timeline is the path so far, the signals are the
rules merged with the suggestions, the score is that of the signals. The result is
computed after the analysis has had its say, which is why status and gate agree.

*Sums.* The score adds the deltas of a set with a fold of the community modules,
which is a recursive function on its subsets. The provers cannot apply the
induction theorems, but a least counterexample does the same work:
`SmallestSet` finds, where a property fails of some subset of a finite set, one all
of whose own subsets have it. By it the sum exists, is the same whichever element
is taken first and grows with the set, so `RulesAreFloor` follows from the rules
being among the signals. `Graded` says that every suggestion of a finished
analysis has a level as its severity, and `Written` what the later stages have not
yet touched. `AnalysisReloads` rests on `Ranks`: counting the members up to each
one numbers a finite set of positions without gaps.

*Keys.* A join at a colon can be taken apart again when the first part has none:
the first colon of the joined text is the separator. The lemma for two parts is
applied once per field. Lower case keeps length and colons, so it passes through.

*One deployment of the system.* `SystemInvariant` has the types of both sides
(`SystemOK`: a memory record is whole and stored under its identifier; rows refer to
stored reviews, every review has one task) and what the properties need of
numbers and versions. `Numbered` says that a number in use was drawn, which makes
the next ones new. In Postgres it holds until a restart only; after it `Disjoint`,
that no two reviews share a number, stays true because the tables refuse a number
that is another review's or the save replaces the whole review. `TaskFollowsReview`
needs that a task's number is tied to its review's (`OwnTask`), as the upsert
never moves a task. `BaseOK` says that the version a rollback restores is the base of the
request where both are there, so a retry names the same one again.

*One review for each head.* `CreatesInvariant` adds that in each deployment no two
reviews have one key, that the index of MemoryStore finds exactly the stored keys,
and that every accepted create still has a review with the key of its request.
With the theorems on keys, equal answers then mean equal heads.

*Two deployments.* `Agreement` is a simulation in lock-step: as long as the
two are comparable they hold the same identifiers, their counters are equal and
their records are the `Same`, which is to say equal but for the understanding and
the error and, once the clock has stepped back, for the order of the history.
An operation computes from what it loads, reads nothing of a record that may
differ, draws the same numbers on both sides and is refused by neither: the
key and the numbers are free, and the widths of the texts are what `Comparable`
is about. A save then leaves the sides alike because of `SaveIsReadBack`. The
order of the history survives while the clock is steady, since every entry is
dated no later than now (`Timely`).

*Metrics.* `AllAccounted` ties each record in memory to what clients reported: it is
overridden by its last decision alone, and its incident flag is the last one
reported. `Agreement` carries this to Postgres, and counts of equal sets are equal.

*MemoryStore refines the lifecycle.* `Shown` is the function from identifiers to
abstract records. `Progress(before, after)` says that nothing is shown otherwise,
or one review is new, or one is changed to what one request makes of its current
record. Each request progresses, and progress is a step of `AtomicSpec`. The proof
relates whole records to abstract ones field by field (`IsOutline`): a decision
appended to a whole record is the decision appended to its outline.

Only model-checked:

* all liveness (`EveryCallAnswered`, `AnalysisEnds`, `CreateAnswered`), since it
  needs `ENABLED`;
* the findings of section 3, MemoryStore's among them.

## 5. Not modelled

* *Reading and formatting*: `ExportReview`, `GetReview` and `GetTimeline` change
  nothing and their texts decide nothing. Of the metrics the counts are modelled,
  not the filter by service name.
* *Other widths of columns*: the texts a record of the model does not have
  (repository, service, author, reviewer, release outcome) are taken to fit. A longer
  one fails a save as a long `change_id` does, so what `StoresAgree` and
  `AnswersAgree` say is for texts that fit. Rounding of time stamps to
  microseconds, defaults, indexes, and migrations as a program.
* *Colons in fields*: the joins of a key are then ambiguous and two requests may
  share one. The theorems on keys exclude them; no run submits them.
* *Concurrent requests with numbers of tasks*: ReviewSystem serves one request at
  a time, so a create draws its numbers together. Concurrent creates may draw them
  interleaved, and then a restart can leave a review with another's task;
  `TaskFollowsReview` does not cover it.
* *Two disagreements without a run of their own*: the gate asks whether the
  confidence is below 0.75 (`pipeline.go:467`), but what it looks at is a constant of
  the risk level and never below 0.76, so that a low confidence of the analysis gates
  no review, against `README.md:36` of the repository; and a text too long for its
  column is accepted by the memory store and refused by Postgres with an internal
  error. The models have both (`ApplyAnalysis`, `TooWide`).
* *The number of evaluation rows*, which grows with every save without bound.
* *Failing queries in `List`*, which skips what it cannot load: queries fail in
  ReviewService, which has no list.
* *Other races in memory*: retries on the heap of MemoryStore, and the concurrent
  write of the map `OutcomeMetadata`, which Go's runtime may end with a crash. In
  ReviewService therefore (`MemoryAssumption`) only creates run concurrently in
  memory.
* *Details of HTTP*: routes, limits of bodies, decoding, the computation of an HMAC
  (a signature is the body's or it is not).
* *Retries with the agent*: ReviewPipeline runs on a new review, and retries are in
  ReviewSystem with the heuristics, on the request rebuilt from the record.
* *Contents of tool results*. The design names a sixth tool, `get_scoring_policy`,
  that the registry does not have; the model answers to it as to any unknown tool.
* *The design's limit of three rounds*: `max_rounds` is configurable to any
  number; the model checks the configured limit.
* The frontend, build files, deployment, and the listening loop of the process.

## 6. Plan

Done: every component of section 1 but for the parts section 5 lists, and the
proofs of section 4. Next, in this order:

1. A retry in ReviewPipeline that starts from a loaded record, with the agent.
2. Failing loads in `List` and what the metrics say then.
3. What of `StoresAgree` and `AnswersAgree` holds after a restart.
