--------------------------- MODULE PostgresTables ---------------------------
(***************************************************************************)
(* The tables of PostgresStore (internal/review/postgres.go, migrations/)  *)
(* and what Save and Get make of them.  A table is a function from its     *)
(* review identifiers, the tasks one from task identifiers.  Each Save is  *)
(* one transaction: all of it or nothing.  ReviewService has the queries   *)
(* of a Get one at a time; here a Get is one step.                         *)
(*                                                                         *)
(* A record is what ReviewSystem builds.  Its timeline and its decisions   *)
(* carry the wall-clock time they happened at.                             *)
(***************************************************************************)
EXTENDS ReviewRecord, FiniteSets

CONSTANT Widths   \* of the columns of reviews that hold a text of the record

ASSUME WidthAssumption ==
    Widths \in [{"change", "key", "source", "environment"} -> Nat]

\* f at x if it is there.
At(f, x, otherwise) == IF x \in DOMAIN f THEN f[x] ELSE otherwise

EmptyTables ==
    [reviews |-> <<>>, snapshots |-> <<>>, tasks |-> <<>>, evidence |-> <<>>,
     signals |-> <<>>, recommendations |-> <<>>, events |-> <<>>,
     decisions |-> <<>>, evaluations |-> <<>>]
-----------------------------------------------------------------------------
(***************************************************************************)
(* Save.                                                                   *)
(***************************************************************************)
\* The row of a review.  An upsert leaves its created_at as it was.
ReviewRow(db, rec) ==
    [change      |-> rec.change,
     key         |-> rec.key,
     source      |-> rec.source,
     names       |-> rec.names,
     environment |-> rec.environment,
     status      |-> rec.status,
     result      |-> rec.result,
     can_release |-> CanRelease(rec.status),
     created     |-> IF rec.id \in DOMAIN db.reviews
                       THEN db.reviews[rec.id].created ELSE rec.created]

\* Mutant: a task that exists is left as it is.
TaskRowKept(db, rec) ==
    IF rec.task \in DOMAIN db.tasks
      THEN db.tasks[rec.task]
      ELSE [review |-> rec.id, state |-> rec.status, error |-> rec.error,
            created |-> rec.created]

\* A task that exists keeps its review, whoever saves it.
TaskRow(db, rec) ==
    LET old == db.tasks[rec.task]
        exists == rec.task \in DOMAIN db.tasks
    IN  [review  |-> IF exists THEN old.review ELSE rec.id,
         state   |-> rec.status,
         error   |-> rec.error,
         created |-> IF exists THEN old.created ELSE rec.created]

\* The snapshot of the request.  Without an understanding its only tag is the
\* source type.
Snapshot(rec) ==
    [request |-> rec.request,
     tags    |-> IF rec.understanding = Nil
                   THEN {rec.request.source} ELSE rec.understanding.tags]

\* Mutant: the row is inserted and no row is updated.
EvaluationsInserted(db, rec) ==
    Append(At(db.evaluations, rec.id, <<>>), rec.evaluation)

\* An evaluation is inserted, since no constraint is there to conflict with,
\* and then every row of the review is given its values.
EvaluationRows(db, rec) ==
    LET rows == Append(At(db.evaluations, rec.id, <<>>), rec.evaluation)
    IN  [i \in DOMAIN rows |->
            [rec.evaluation EXCEPT !.created = rows[i].created]]

\* The upsert of the row is refused for a text its column cannot hold, and then
\* for a dedupe key of another review.  The texts a record here does not have
\* (repository, service, author, reviewer, release outcome) are taken to fit.
TooWide(rec) == \E column \in DOMAIN Widths : Len(rec[column]) > Widths[column]

DedupeConflict(db, rec) ==
    /\ rec.key # <<>>
    /\ \E id \in DOMAIN db.reviews \ {rec.id} : db.reviews[id].key = rec.key

\* Mutant: any review may take any identifier.
NoClashes(table, id, numbers) == FALSE

\* Evidence and signals have unique identifiers across all reviews.
Clashes(table, id, numbers) ==
    \E other \in DOMAIN table \ {id} : table[other].numbers \cap numbers # {}

SaveAnswer(db, rec) ==
    IF TooWide(rec) THEN "error"
    ELSE IF DedupeConflict(db, rec) THEN "conflict"
    ELSE IF \/ Clashes(db.evidence, rec.id, rec.evidence.numbers)
            \/ Clashes(db.signals, rec.id, rec.signals.numbers) THEN "error"
    ELSE "ok"

\* The transaction of a Save that is not refused.
SaveRows(db, rec) ==
    [reviews         |-> Put(db.reviews, rec.id, ReviewRow(db, rec)),
     snapshots       |-> IF rec.request = Nil THEN db.snapshots
                           ELSE Put(db.snapshots, rec.id, Snapshot(rec)),
     tasks           |-> Put(db.tasks, rec.task, TaskRow(db, rec)),
     evidence        |-> Put(db.evidence, rec.id, rec.evidence),
     signals         |-> Put(db.signals, rec.id, rec.signals),
     recommendations |-> Put(db.recommendations, rec.id, rec.recommendation),
     events          |-> Put(db.events, rec.id, rec.timeline),
     decisions       |-> Put(db.decisions, rec.id, rec.decisions),
     evaluations     |-> IF rec.evaluation = Nil THEN db.evaluations
                           ELSE Put(db.evaluations, rec.id,
                                    EvaluationRows(db, rec))]
-----------------------------------------------------------------------------
(***************************************************************************)
(* Get and FindByDedupeKey.                                                *)
(***************************************************************************)

\* ORDER BY created_at, id.
Before(rows, i, j) == rows[i].at < rows[j].at \/ (rows[i].at = rows[j].at /\ i <= j)

InOrder(rows) ==
    [n \in DOMAIN rows |->
        rows[CHOOSE i \in DOMAIN rows :
               Cardinality({j \in DOMAIN rows : Before(rows, j, i)}) = n]]

\* The newest task of a review; NoTask if it has none.
NoTask == 0

TaskOf(db, id) ==
    LET mine == {t \in DOMAIN db.tasks : db.tasks[t].review = id}
    IN  IF mine = {} THEN NoTask
        ELSE CHOOSE t \in mine :
               \A u \in mine : db.tasks[u].created <= db.tasks[t].created

\* The evaluation with the highest row number.
EvaluationOf(db, id) ==
    IF id \in DOMAIN db.evaluations
      THEN db.evaluations[id][Len(db.evaluations[id])] ELSE Nil

\* Mutant: the request is not read back from the snapshot.
GetWithoutRequest(db, id) ==
    LET row == db.reviews[id]
    IN  [id |-> id, change |-> row.change, key |-> row.key,
         source |-> row.source, names |-> row.names,
         environment |-> row.environment, status |-> row.status,
         result |-> row.result, created |-> row.created,
         request |-> Nil,
         understanding |-> Nil,
         task |-> TaskOf(db, id),
         evidence |-> db.evidence[id], signals |-> db.signals[id],
         recommendation |-> db.recommendations[id],
         timeline |-> InOrder(db.events[id]),
         decisions |-> InOrder(db.decisions[id]),
         evaluation |-> EvaluationOf(db, id),
         error |-> ""]

\* Neither the understanding nor the last error of a review is read back.
Get(db, id) ==
    LET row == db.reviews[id]
    IN  [id |-> id, change |-> row.change, key |-> row.key,
         source |-> row.source, names |-> row.names,
         environment |-> row.environment, status |-> row.status,
         result |-> row.result, created |-> row.created,
         request |-> IF id \in DOMAIN db.snapshots
                       THEN db.snapshots[id].request ELSE Nil,
         understanding |-> Nil,
         task |-> TaskOf(db, id),
         evidence |-> db.evidence[id], signals |-> db.signals[id],
         recommendation |-> db.recommendations[id],
         timeline |-> InOrder(db.events[id]),
         decisions |-> InOrder(db.decisions[id]),
         evaluation |-> EvaluationOf(db, id),
         error |-> ""]

\* The dedupe key is unique, so there is at most one.
FindByDedupeKey(db, key) ==
    {id \in DOMAIN db.reviews : db.reviews[id].key = key}
=============================================================================
