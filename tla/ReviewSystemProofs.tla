------------------------- MODULE ReviewSystemProofs -------------------------
(***************************************************************************)
(* Theorems about ReviewSystem: the API and the webhook over both stores,  *)
(* for any requests, restarts and steps back of the clock.                 *)
(***************************************************************************)
EXTENDS SystemRecordsProofs

(***************************************************************************)
(* A deployment.                                                           *)
(***************************************************************************)
SideOK(side) ==
    /\ side.counter \in Nat
    /\ side = [f \in DOMAIN side |-> side[f]]
    /\ \/ /\ side.store = "memory"
          /\ DOMAIN side = {"store", "records", "index", "counter"}
          /\ \A id \in DOMAIN side.records :
               Whole(side.records[id]) /\ side.records[id].id = id
       \/ /\ side.store = "postgres"
          /\ DOMAIN side = {"store", "tables", "counter"}
          /\ TablesOK(side.tables)

\* What the service loads is a whole record.
LEMMA LoadedIsWhole ==
    ASSUME NEW side, SideOK(side), NEW id \in Stored(side)
    PROVE  Whole(Load(side, id)) /\ Load(side, id).id = id
  <1>1. CASE side.store = "memory"
    BY <1>1 DEF SideOK, Stored, Load
  <1>2. CASE side.store = "postgres"
    BY <1>2, GotIsWhole DEF SideOK, Stored, Load
  <1> QED
    BY <1>1, <1>2 DEF SideOK

\* Drawing numbers changes nothing else.
LEMMA CounterDrawn ==
    ASSUME NEW side, SideOK(side), NEW n \in Nat
    PROVE  LET out == [side EXCEPT !.counter = n]
           IN  /\ SideOK(out)
               /\ out.counter = n
               /\ out.store = side.store
               /\ side.store = "memory" => out.records = side.records
                                             /\ out.index = side.index
               /\ side.store = "postgres" => out.tables = side.tables
               /\ Stored(out) = Stored(side)
               /\ \A id : Load(out, id) = Load(side, id)
  <1> DEFINE out == [side EXCEPT !.counter = n]
  <1>1. /\ out.counter = n
        /\ DOMAIN out = DOMAIN side
        /\ out = [f \in DOMAIN out |-> out[f]]
        /\ \A f \in DOMAIN side \ {"counter"} : out[f] = side[f]
    BY DEF SideOK
  <1> HIDE DEF out
  <1>2. CASE side.store = "memory"
    <2>1. /\ out.store = "memory" /\ out.records = side.records
          /\ out.index = side.index
      BY <1>1, <1>2 DEF SideOK
    <2>2. SideOK(out)
      BY <1>1, <1>2, <2>1 DEF SideOK
    <2> QED
      BY <1>1, <1>2, <2>1, <2>2 DEF Stored, Load, out
  <1>3. CASE side.store = "postgres"
    <2>1. out.store = "postgres" /\ out.tables = side.tables
      BY <1>1, <1>3 DEF SideOK
    <2>2. SideOK(out)
      BY <1>1, <1>3, <2>1 DEF SideOK
    <2> QED
      BY <1>1, <1>3, <2>1, <2>2 DEF Stored, Load, out
  <1> QED
    BY <1>2, <1>3 DEF SideOK

LEMMA NoDrawing ==
    ASSUME NEW side, SideOK(side)
    PROVE  [side EXCEPT !.counter = side.counter] = side
  BY DEF SideOK

(***************************************************************************)
(* What an operation saves: a decision, an update of the evaluation or a   *)
(* retry of a record it loaded, or the record of a create.                 *)
(***************************************************************************)
Decides(side, rec) ==
    \E id \in Stored(side), verdict \in Verdicts :
      rec = DecidedDraft(Load(side, id), verdict, served + 1, clock)

Evaluates(side, rec) ==
    \E id \in Stored(side), update \in Updates :
      rec = EvaluatedDraft(Load(side, id), update, clock)

Retries(side, rec, n) ==
    \E id \in Stored(side) :
      /\ Load(side, id).status = "FAILED"
      /\ rec = RetriedDraft(Load(side, id), side.counter, clock)
      /\ n = side.counter + Drawn(RequestFromRecord(Load(side, id)))

CreatesFor(side, rec, n) ==
    \E req \in ReviewRequests :
      /\ dedupeKeyFor(req) = Empty \/ Find(side, dedupeKeyFor(req)) = {}
      /\ rec = CreatedDraft(req, side.counter, clock)
      /\ n = side.counter + 2 + Drawn(req)

Writes(side, rec, n) ==
    \/ (Decides(side, rec) \/ Evaluates(side, rec)) /\ n = side.counter
    \/ Retries(side, rec, n)
    \/ CreatesFor(side, rec, n)

\* What an operation makes of a deployment: nothing, a save, or the numbers it
\* drew before its save was refused.
Step(side, out) ==
    \/ out = side
    \/ \E n \in Nat : n >= side.counter /\ out = [side EXCEPT !.counter = n]
    \/ \E rec : \E n \in Nat :
         /\ Writes(side, rec, n)
         /\ SaveResult(side, rec) = "ok"
         /\ out = Saved([side EXCEPT !.counter = n], rec)

ClockOK == clock \in Int /\ served \in Nat

\* What is saved has the identity of a stored record, or is a create's.
Revises(side, rec) ==
    /\ rec.id \in Stored(side)
    /\ SameFields(rec, Load(side, rec.id), IdentityNames)
    /\ rec.evaluation = Nil => Load(side, rec.id).evaluation = Nil

\* A decision or an update leaves the assessment as it was loaded.
Annotates(side, rec) ==
    /\ Revises(side, rec)
    /\ SameFields(rec, Load(side, rec.id),
                  FieldNames \ {"status", "decisions", "evaluation", "timeline"})
    /\ LastOf(rec.timeline).by \in {"decision", "evaluation"}

LEMMA DecidesFacts ==
    ASSUME ClockOK, NEW side, SideOK(side), NEW rec, Decides(side, rec)
    PROVE  Whole(rec) /\ Annotates(side, rec)
  <1>1. PICK id \in Stored(side), verdict \in Verdicts :
          rec = DecidedDraft(Load(side, id), verdict, served + 1, clock)
    BY DEF Decides
  <1> DEFINE old == Load(side, id)
  <1>2. Whole(old) /\ old.id = id
    BY LoadedIsWhole
  <1>3. served + 1 \in Nat /\ clock \in Int
    BY DEF ClockOK
  <1> HIDE DEF old
  <1>4. DecidedFrom(rec, old, verdict, served + 1, clock)
    BY <1>1, <1>2, <1>3, DecidedFields DEF old
  <1>5. /\ Whole(rec)
        /\ SameFields(rec, old, FieldNames \ {"status", "decisions",
                                              "evaluation", "timeline"})
        /\ rec.evaluation \in EvaluationValues
        /\ rec.timeline = Append(old.timeline,
                                 Event(StatusOf(verdict), "decision", clock))
    BY <1>4 DEF DecidedFrom
  <1>6. Event(StatusOf(verdict), "decision", clock) \in Events
    BY <1>3 DEF Event, Events, Origins, StatusOf, Verdicts, Statuses
  <1>7. LastOf(rec.timeline).by = "decision"
    <2>1. LastOf(rec.timeline) = Event(StatusOf(verdict), "decision", clock)
      BY <1>2, <1>5, <1>6, Appending DEF Whole, Historied
    <2> QED
      BY <2>1 DEF Event
  <1>8. SameFields(rec, old, IdentityNames) /\ rec.id = id
    BY <1>2, <1>5 DEF SameFields, FieldNames, IdentityNames
  <1> QED
    BY <1>5, <1>7, <1>8, NilApart DEF Annotates, Revises, old

LEMMA EvaluatesFacts ==
    ASSUME ClockOK, NEW side, SideOK(side), NEW rec, Evaluates(side, rec)
    PROVE  Whole(rec) /\ Annotates(side, rec)
  <1>1. PICK id \in Stored(side), update \in Updates :
          rec = EvaluatedDraft(Load(side, id), update, clock)
    BY DEF Evaluates
  <1> DEFINE old == Load(side, id)
  <1>2. Whole(old) /\ old.id = id
    BY LoadedIsWhole
  <1>3. clock \in Int
    BY DEF ClockOK
  <1> HIDE DEF old
  <1>4. EvaluatedFrom(rec, old, update, clock)
    BY <1>1, <1>2, <1>3, EvaluatedFields DEF old
  <1>5. /\ Whole(rec)
        /\ SameFields(rec, old, FieldNames \ {"evaluation", "timeline"})
        /\ rec.evaluation \in EvaluationValues
        /\ rec.timeline = Append(old.timeline,
                                 Event(old.status, "evaluation", clock))
    BY <1>4 DEF EvaluatedFrom
  <1>6. Event(old.status, "evaluation", clock) \in Events
    BY <1>2, <1>3 DEF Event, Events, Origins, Whole, Historied
  <1>7. LastOf(rec.timeline).by = "evaluation"
    <2>1. LastOf(rec.timeline) = Event(old.status, "evaluation", clock)
      BY <1>2, <1>5, <1>6, Appending DEF Whole, Historied
    <2> QED
      BY <2>1 DEF Event
  <1>8. /\ SameFields(rec, old, IdentityNames) /\ rec.id = id
        /\ SameFields(rec, old, FieldNames \ {"status", "decisions",
                                              "evaluation", "timeline"})
    BY <1>2, <1>5 DEF SameFields, FieldNames, IdentityNames
  <1> QED
    BY <1>5, <1>7, <1>8, NilApart DEF Annotates, Revises, old

\* A retry draws the numbers of its evidence and signals, and takes the version
\* of the rollback from the request.
Renews(side, rec, n) ==
    LET old == Load(side, rec.id)
        req == RequestFromRecord(old)
    IN  /\ Revises(side, rec)
        /\ SameFields(rec, old, {"decisions", "evaluation"})
        /\ req \in ReviewRequests
        /\ n = side.counter + Drawn(req)
        /\ RetriedFrom(rec, old, side.counter, clock)

LEMMA RetriesFacts ==
    ASSUME ClockOK, NEW side, SideOK(side), NEW rec, NEW n,
           Retries(side, rec, n)
    PROVE  /\ Whole(rec)
           /\ n \in Nat
           /\ n >= side.counter
           /\ Renews(side, rec, n)
           /\ Load(side, rec.id).status = "FAILED"
  <1>1. PICK id \in Stored(side) :
          /\ Load(side, id).status = "FAILED"
          /\ rec = RetriedDraft(Load(side, id), side.counter, clock)
          /\ n = side.counter + Drawn(RequestFromRecord(Load(side, id)))
    BY DEF Retries
  <1> DEFINE old == Load(side, id)
             req == RequestFromRecord(old)
  <1>2. Whole(old) /\ old.id = id
    BY LoadedIsWhole
  <1>3. clock \in Int /\ side.counter \in Nat
    BY DEF ClockOK, SideOK
  <1> HIDE DEF old
  <1>4. RetriedFrom(rec, old, side.counter, clock)
    BY <1>1, <1>2, <1>3, RetriedFields DEF old
  <1>5. req \in ReviewRequests
    BY <1>2, RequestFromRecordType
  <1> HIDE DEF req
  <1>6. Drawn(req) \in Nat
    BY <1>5, DrawnIsNumber
  <1>7. /\ Whole(rec)
        /\ SameFields(rec, old, IdentityNames)
        /\ SameFields(rec, old, {"decisions", "evaluation"})
    BY <1>4 DEF RetriedFrom
  <1>8. rec.id = id /\ rec.evaluation = old.evaluation
    BY <1>2, <1>7 DEF SameFields, IdentityNames
  <1>9. n = side.counter + Drawn(req)
    BY <1>1 DEF req, old
  <1>10. n \in Nat /\ n >= side.counter
    BY <1>3, <1>6, <1>9
  <1>11. Revises(side, rec)
    BY <1>7, <1>8 DEF Revises, old
  <1>12. Renews(side, rec, n)
    BY <1>4, <1>5, <1>7, <1>8, <1>9, <1>11 DEF Renews, req, old
  <1> QED
    BY <1>1, <1>7, <1>8, <1>10, <1>12

LEMMA CreatesFacts ==
    ASSUME ClockOK, NEW side, SideOK(side), NEW rec, NEW n,
           CreatesFor(side, rec, n)
    PROVE  /\ Whole(rec)
           /\ n \in Nat
           /\ n >= side.counter + 2
           /\ rec.id = side.counter + 1
           /\ \E req \in ReviewRequests :
                /\ CreatedFrom(rec, req, side.counter, clock)
                /\ n = side.counter + 2 + Drawn(req)
                /\ rec.key = Empty \/ Find(side, rec.key) = {}
  <1>1. PICK req \in ReviewRequests :
          /\ dedupeKeyFor(req) = Empty \/ Find(side, dedupeKeyFor(req)) = {}
          /\ rec = CreatedDraft(req, side.counter, clock)
          /\ n = side.counter + 2 + Drawn(req)
    BY DEF CreatesFor
  <1>2. clock \in Int /\ side.counter \in Nat
    BY DEF ClockOK, SideOK
  <1>3. CreatedFrom(rec, req, side.counter, clock)
    BY <1>1, <1>2, CreatedFields
  <1>4. Whole(rec) /\ rec.key = dedupeKeyFor(req) /\ rec.id = side.counter + 1
    BY <1>3 DEF CreatedFrom
  <1>5. Drawn(req) \in Nat
    BY DrawnIsNumber
  <1> QED
    BY <1>1, <1>2, <1>3, <1>4, <1>5

\* A record that an operation writes, whichever it is.
LEMMA WritesFacts ==
    ASSUME ClockOK, NEW side, SideOK(side), NEW rec, NEW n,
           Writes(side, rec, n)
    PROVE  /\ Whole(rec)
           /\ n \in Nat
           /\ n >= side.counter
           /\ \/ Annotates(side, rec) /\ n = side.counter
              \/ Renews(side, rec, n)
              \/ CreatesFor(side, rec, n)
  <1>1. side.counter \in Nat
    BY DEF SideOK
  <1>2. CASE (Decides(side, rec) \/ Evaluates(side, rec)) /\ n = side.counter
    BY <1>1, <1>2, DecidesFacts, EvaluatesFacts
  <1>3. CASE Retries(side, rec, n)
    BY <1>3, RetriesFacts
  <1>4. CASE CreatesFor(side, rec, n)
    BY <1>1, <1>4, CreatesFacts
  <1> QED
    BY <1>2, <1>3, <1>4 DEF Writes

\* What is written can be saved by the tables.
LEMMA WritesSavable ==
    ASSUME ClockOK, NEW side, SideOK(side), side.store = "postgres",
           NEW rec, NEW n, Writes(side, rec, n)
    PROVE  Savable(side.tables, rec)
  <1>1. TablesOK(side.tables) /\ side.counter \in Nat
    BY DEF SideOK
  <1>2. Whole(rec)
    BY WritesFacts
  <1>3. CASE Revises(side, rec)
    <2>1. rec.id \in DOMAIN side.tables.reviews
      BY <1>3 DEF Revises, Stored
    <2>2. SameFields(rec, Get(side.tables, rec.id), {"id", "task", "request"})
      BY <1>3 DEF Revises, SameFields, IdentityNames, Load
    <2>3. rec.evaluation = Nil => Get(side.tables, rec.id).evaluation = Nil
      BY <1>3 DEF Revises, Load
    <2> QED
      BY <1>1, <1>2, <2>1, <2>2, <2>3, ReadIsSavable
  <1>4. CASE CreatesFor(side, rec, n)
    <2>1. PICK req \in ReviewRequests :
            CreatedFrom(rec, req, side.counter, clock)
      BY <1>4, CreatesFacts
    <2> QED
      BY <1>1, <2>1, CreatedIsSavable
  <1> QED
    BY <1>3, <1>4, WritesFacts DEF Annotates, Renews

\* What a save leaves in a deployment.
Keeps(side, out, rec, n) ==
    /\ SideOK(out)
    /\ out.counter = n
    /\ out.store = side.store
    /\ Stored(out) = Stored(side) \cup {rec.id}
    /\ \A id \in Stored(side) \ {rec.id} : Load(out, id) = Load(side, id)
    /\ SameFields(Load(out, rec.id), rec,
         FieldNames \ {"understanding", "error", "created", "timeline",
                       "decisions"})
    /\ side.store = "memory" =>
         /\ Load(out, rec.id) = rec
         /\ out.records = Put(side.records, rec.id, rec)
         /\ out.index = IF rec.key = Empty THEN side.index
                        ELSE Put(side.index, rec.key, rec.id)
    /\ side.store = "postgres" =>
         /\ Savable(side.tables, rec)
         /\ out.tables = SaveRows(side.tables, rec)

LEMMA SavedKeeps ==
    ASSUME ClockOK, NEW side, SideOK(side), NEW rec, NEW n,
           Writes(side, rec, n)
    PROVE  Keeps(side, Saved([side EXCEPT !.counter = n], rec), rec, n)
  <1> DEFINE drawn == [side EXCEPT !.counter = n]
             out == Saved(drawn, rec)
  <1>1. Whole(rec) /\ n \in Nat
    BY WritesFacts
  <1>2. /\ SideOK(drawn)
        /\ drawn.counter = n
        /\ drawn.store = side.store
        /\ side.store = "memory" => drawn.records = side.records
                                      /\ drawn.index = side.index
        /\ side.store = "postgres" => drawn.tables = side.tables
        /\ Stored(drawn) = Stored(side)
        /\ \A id : Load(drawn, id) = Load(side, id)
    BY <1>1, CounterDrawn
  <1> HIDE DEF drawn
  <1>3. CASE side.store = "memory"
    <2> DEFINE records == Put(side.records, rec.id, rec)
               index == IF rec.key = Empty THEN side.index
                        ELSE Put(side.index, rec.key, rec.id)
    <2>1. out = [drawn EXCEPT !.records = records, !.index = index]
      BY <1>2, <1>3 DEF Saved
    <2>2. /\ DOMAIN records = DOMAIN side.records \cup {rec.id}
          /\ records[rec.id] = rec
          /\ \A id \in DOMAIN side.records \ {rec.id} :
               records[id] = side.records[id]
      BY DEF Put
    <2> HIDE DEF records, index, out
    <2>3. /\ DOMAIN out = DOMAIN drawn
          /\ out = [f \in DOMAIN out |-> out[f]]
          /\ out.records = records
          /\ out.index = index
          /\ out.counter = n
          /\ out.store = "memory"
      BY <1>2, <1>3, <2>1 DEF SideOK
    <2>4. SideOK(out)
      BY <1>1, <1>2, <1>3, <2>2, <2>3 DEF SideOK
    <2>5. /\ Stored(out) = Stored(side) \cup {rec.id}
          /\ \A id \in Stored(side) \ {rec.id} : Load(out, id) = Load(side, id)
          /\ Load(out, rec.id) = rec
      BY <1>3, <2>2, <2>3 DEF Stored, Load
    <2>6. SameFields(Load(out, rec.id), rec,
            FieldNames \ {"understanding", "error", "created", "timeline",
                          "decisions"})
      BY <2>5 DEF SameFields
    <2> QED
      BY <1>3, <2>3, <2>4, <2>5, <2>6 DEF Keeps, records, index, out, drawn
  <1>4. CASE side.store = "postgres"
    <2> DEFINE db == side.tables
               new == SaveRows(db, rec)
    <2>1. Savable(db, rec) /\ TablesOK(db)
      BY <1>4, WritesSavable DEF SideOK
    <2>2. out = [drawn EXCEPT !.tables = new]
      BY <1>2, <1>4 DEF Saved
    <2>3. TablesOK(new)
      BY <2>1, SavedTables
    <2>4. DOMAIN new.reviews = DOMAIN db.reviews \cup {rec.id}
      BY SavedRows
    <2>5. \A id \in DOMAIN db.reviews \ {rec.id} : Get(new, id) = Get(db, id)
      BY <2>1, OthersKept
    <2>6. /\ SameFields(Get(new, rec.id), Written(new, rec.id),
                        FieldNames \ {"timeline", "decisions"})
          /\ SameFields(Written(new, rec.id), rec,
                        FieldNames \ {"understanding", "error", "created"})
      BY <2>1, <2>3, <2>4, GotIsWhole, SavedIsWritten
    <2>7. SameFields(Get(new, rec.id), rec,
            FieldNames \ {"understanding", "error", "created", "timeline",
                          "decisions"})
      BY <2>6 DEF SameFields
    <2> HIDE DEF new, out
    <2>8. /\ DOMAIN out = DOMAIN drawn
          /\ out = [f \in DOMAIN out |-> out[f]]
          /\ out.tables = new
          /\ out.counter = n
          /\ out.store = "postgres"
      BY <1>2, <1>4, <2>2 DEF SideOK
    <2>9. SideOK(out)
      BY <1>1, <1>2, <1>4, <2>3, <2>8 DEF SideOK
    <2>10. /\ Stored(out) = Stored(side) \cup {rec.id}
           /\ \A id \in Stored(side) \ {rec.id} :
                Load(out, id) = Load(side, id)
           /\ Load(out, rec.id) = Get(new, rec.id)
      BY <1>4, <2>4, <2>5, <2>8 DEF Stored, Load
    <2> QED
      BY <1>4, <2>1, <2>7, <2>8, <2>9, <2>10 DEF Keeps, new, out, drawn
  <1> QED
    BY <1>3, <1>4 DEF SideOK

\* A step keeps a deployment well formed.
LEMMA StepKeepsSide ==
    ASSUME ClockOK, NEW side, SideOK(side), NEW out, Step(side, out)
    PROVE  SideOK(out) /\ out.store = side.store
  <1>1. CASE out = side
    BY <1>1
  <1>2. ASSUME NEW n \in Nat, out = [side EXCEPT !.counter = n]
        PROVE  SideOK(out) /\ out.store = side.store
    BY <1>2, CounterDrawn
  <1>3. ASSUME NEW rec, NEW n \in Nat, Writes(side, rec, n),
               out = Saved([side EXCEPT !.counter = n], rec)
        PROVE  SideOK(out) /\ out.store = side.store
    BY <1>3, SavedKeeps DEF Keeps
  <1> QED
    BY <1>1, <1>2, <1>3 DEF Step
-----------------------------------------------------------------------------
(***************************************************************************)
(* Every operation takes such a step.                                      *)
(***************************************************************************)
LEMMA CommitSteps ==
    ASSUME ClockOK, NEW side, SideOK(side), NEW rec, NEW n,
           Writes(side, rec, n)
    PROVE  Step(side, Commit([side EXCEPT !.counter = n], rec).side)
  <1> DEFINE drawn == [side EXCEPT !.counter = n]
             out == Commit(drawn, rec).side
  <1>1. n \in Nat /\ n >= side.counter
    BY WritesFacts
  <1>2. SaveResult(drawn, rec) = SaveResult(side, rec)
    <2>1. /\ drawn.store = side.store
          /\ side.store = "postgres" => drawn.tables = side.tables
      BY <1>1, CounterDrawn
    <2> QED
      BY <2>1 DEF SaveResult, SideOK
  <1>3. \/ SaveResult(drawn, rec) = "ok"
        \/ SaveResult(drawn, rec) = "conflict"
        \/ SaveResult(drawn, rec) = "error"
    BY DEF SaveResult, SaveAnswer
  <1> HIDE DEF drawn
  <1>4. /\ SaveResult(drawn, rec) = "ok" => out = Saved(drawn, rec)
        /\ SaveResult(drawn, rec) # "ok" => out = drawn
    BY <1>3 DEF Commit, Answer
  <1> HIDE DEF out
  <1>5. SaveResult(drawn, rec) = "ok" => Step(side, out)
    BY <1>1, <1>2, <1>4 DEF Step, drawn
  <1>6. SaveResult(drawn, rec) # "ok" => Step(side, out)
    BY <1>1, <1>4 DEF Step, drawn
  <1>7. Step(side, out)
    BY <1>5, <1>6
  <1> QED
    BY <1>7 DEF out, drawn

LEMMA CreateSteps ==
    ASSUME ClockOK, NEW side, SideOK(side), NEW req \in ReviewRequests
    PROVE  Step(side, CreateReview(side, req, clock).side)
  <1> DEFINE key == dedupeKeyFor(req)
             existing == IF key = Empty THEN {} ELSE Find(side, key)
             rec == CreatedDraft(req, side.counter, clock)
             n == side.counter + 2 + Drawn(req)
             answer == CreateReview(side, req, clock)
  <1>1. answer = IF existing # {}
                   THEN Answer(side, "accepted", CHOOSE id \in existing : TRUE)
                   ELSE Commit([side EXCEPT !.counter = n], rec)
    BY DEF CreateReview, CreatedDraft
  <1>2. existing = {} => key = Empty \/ Find(side, key) = {}
    OBVIOUS
  <1>3. existing = {} => Writes(side, rec, n)
    BY <1>2 DEF Writes, CreatesFor
  <1> HIDE DEF existing, rec, n
  <1>4. CASE existing # {}
    BY <1>1, <1>4 DEF Answer, Step
  <1>5. CASE existing = {}
    BY <1>1, <1>3, <1>5, CommitSteps
  <1> QED
    BY <1>4, <1>5

LEMMA DecisionSteps ==
    ASSUME ClockOK, NEW side, SideOK(side), NEW id, NEW verdict
    PROVE  Step(side, SubmitHumanDecision(side, id, verdict, clock).side)
  <1> DEFINE rec == DecidedDraft(Load(side, id), verdict, served + 1, clock)
             answer == SubmitHumanDecision(side, id, verdict, clock)
  <1>1. answer = IF id \notin Stored(side)
                   THEN Answer(side, "not_found", Unknown)
                 ELSE IF verdict \notin Verdicts
                   THEN Answer(side, "internal_error", Unknown)
                 ELSE Commit(side, rec)
    BY DEF SubmitHumanDecision, DecidedDraft
  <1>2. id \in Stored(side) /\ verdict \in Verdicts =>
          Writes(side, rec, side.counter)
    BY DEF Writes, Decides
  <1> HIDE DEF rec
  <1>3. CASE id \in Stored(side) /\ verdict \in Verdicts
    <2>1. Step(side, Commit([side EXCEPT !.counter = side.counter], rec).side)
      BY <1>2, <1>3, CommitSteps
    <2> QED
      BY <1>1, <1>3, <2>1, NoDrawing
  <1>4. CASE ~(id \in Stored(side) /\ verdict \in Verdicts)
    BY <1>1, <1>4 DEF Answer, Step
  <1> QED
    BY <1>3, <1>4

LEMMA EvaluationSteps ==
    ASSUME ClockOK, NEW side, SideOK(side), NEW id, NEW update \in Updates
    PROVE  Step(side, UpdateEvaluation(side, id, update, clock).side)
  <1> DEFINE rec == EvaluatedDraft(Load(side, id), update, clock)
             answer == UpdateEvaluation(side, id, update, clock)
  <1>1. answer = IF id \notin Stored(side)
                   THEN Answer(side, "not_found", Unknown)
                 ELSE Commit(side, rec)
    BY DEF UpdateEvaluation, EvaluatedDraft
  <1>2. id \in Stored(side) => Writes(side, rec, side.counter)
    BY DEF Writes, Evaluates
  <1> HIDE DEF rec
  <1>3. CASE id \in Stored(side)
    <2>1. Step(side, Commit([side EXCEPT !.counter = side.counter], rec).side)
      BY <1>2, <1>3, CommitSteps
    <2> QED
      BY <1>1, <1>3, <2>1, NoDrawing
  <1>4. CASE id \notin Stored(side)
    BY <1>1, <1>4 DEF Answer, Step
  <1> QED
    BY <1>3, <1>4

LEMMA RetrySteps ==
    ASSUME ClockOK, NEW side, SideOK(side), NEW id
    PROVE  Step(side, RetryReview(side, id, clock).side)
  <1> DEFINE old == Load(side, id)
             rec == RetriedDraft(old, side.counter, clock)
             n == side.counter + Drawn(RequestFromRecord(old))
             answer == RetryReview(side, id, clock)
  <1>1. answer = IF id \notin Stored(side)
                   THEN Answer(side, "not_found", Unknown)
                 ELSE IF old.status # "FAILED"
                   THEN Answer(side, "conflict", Unknown)
                 ELSE Commit([side EXCEPT !.counter = n], rec)
    BY DEF RetryReview, RetriedDraft
  <1>2. id \in Stored(side) /\ old.status = "FAILED" => Writes(side, rec, n)
    BY DEF Writes, Retries
  <1> HIDE DEF rec, n, old
  <1>3. CASE id \in Stored(side) /\ old.status = "FAILED"
    BY <1>1, <1>2, <1>3, CommitSteps
  <1>4. CASE ~(id \in Stored(side) /\ old.status = "FAILED")
    BY <1>1, <1>4 DEF Answer, Step
  <1> QED
    BY <1>3, <1>4

\* The request of the webhook is one that creates.
LEMMA WebhookRequestType ==
    ASSUME NEW delivery \in Delivered
    PROVE  ReviewRequest(delivery.event) \in ReviewRequests
  <1> DEFINE event == delivery.event
             environment == inferEnvironmentFromBaseRef(event.base)
             out == ReviewRequest(event)
  <1>1. event \in PullRequestEvents
    BY SystemAssumption DEF Deliveries
  <1>2. /\ event.repo \in Text /\ event.number \in Text /\ event.sha \in Text
        /\ event.baseSha \in Text /\ event.names \in SUBSET STRING
        /\ event.title \in SUBSET STRING
    BY <1>1 DEF PullRequestEvents
  <1>3. /\ <<"github">> \in Text /\ <<"pr-">> \in Text /\ <<"#">> \in Text
        /\ <<"pull_request">> \in Text /\ <<"prod">> \in Text
        /\ <<"staging">> \in Text /\ <<"unknown">> \in Text
    BY LiteralsAssumption DEF Text
  <1>4. environment \in Text
    BY <1>3 DEF inferEnvironmentFromBaseRef
  <1>5. event.repo \o <<"#">> \o event.number \in Text
    BY <1>2, <1>3, Concatenation
  <1>6. WebhookKey(event, environment) \in Text
    <2>1. <<"pr-">> \o event.number \in Text
      BY <1>2, <1>3, Concatenation
    <2> HIDE DEF event, environment
    <2>2. Join4(event.repo, <<"pr-">> \o event.number, event.sha, environment)
            \in Text
      BY <1>2, <1>4, <2>1, LowerFour
    <2>3. Join5(<<"github">>, event.repo, <<"pr-">> \o event.number, event.sha,
                environment) \in Text
      BY <1>3, <2>2, JoinType DEF Join5
    <2> QED
      BY <2>3, LowerType DEF WebhookKey
  <1> HIDE DEF event, environment
  <1>7. ReviewRequest(event) =
          [source |-> <<"pull_request">>,
           change |-> event.repo \o <<"#">> \o event.number,
           head |-> event.sha, base |-> event.baseSha,
           environment |-> environment,
           key |-> WebhookKey(event, environment), names |-> event.names,
           content |-> event.title, contexts |-> 1]
    BY DEF ReviewRequest, environment
  <1>8. ReviewRequest(event) \in ReviewRequests
    BY <1>2, <1>3, <1>4, <1>5, <1>6, <1>7 DEF ReviewRequests
  <1> QED
    BY <1>8 DEF event

\* What any step of the system does to its two deployments.
Restarted(out) == out = [postgres EXCEPT !.counter = 0]

SidesStep ==
    /\ Step(memory, memory')
    /\ \/ Step(postgres, postgres') /\ restarts' = restarts
       \/ Restarted(postgres') /\ restarts' = restarts + 1
    /\ restarts' \in Nat

SystemOK ==
    /\ ClockOK
    /\ restarts \in Nat
    /\ SideOK(memory) /\ memory.store = "memory"
    /\ SideOK(postgres) /\ postgres.store = "postgres"

LEMMA ServeSteps ==
    ASSUME SystemOK, Next
    PROVE  SidesStep /\ ClockOK'
  <1>1. /\ ClockOK /\ restarts \in Nat /\ SideOK(memory) /\ SideOK(postgres)
    BY DEF SystemOK
  <1>2. ClockOK'
    <2>1. CASE Deliver
      BY <1>1, <2>1 DEF Deliver, Create, Turn, Serve, ClockOK
    <2>2. CASE PostReview
      BY <1>1, <2>2 DEF PostReview, Create, Turn, Serve, ClockOK
    <2>3. CASE PostDecision \/ PostEvaluation \/ PostRetry
      BY <1>1, <2>3 DEF PostDecision, PostEvaluation, PostRetry, Serve, ClockOK
    <2>4. CASE Restart \/ StepBack
      BY <1>1, <2>4 DEF Restart, StepBack, ClockOK
    <2> QED
      BY <2>1, <2>2, <2>3, <2>4 DEF Next
  <1>3. Step(memory, memory) /\ Step(postgres, postgres)
    BY DEF Step
  <1>4. ASSUME NEW code, Turn(code)
        PROVE  SidesStep
    BY <1>1, <1>3, <1>4 DEF Turn, Serve, Answer, SidesStep
  <1>5. ASSUME NEW origin, NEW req \in ReviewRequests, Create(origin, req)
        PROVE  SidesStep
    <2>1. /\ memory' = CreateReview(memory, req, clock).side
          /\ postgres' = CreateReview(postgres, req, clock).side
          /\ restarts' = restarts
      BY <1>5 DEF Create, Serve
    <2>2. Step(memory, CreateReview(memory, req, clock).side)
      BY <1>1, CreateSteps
    <2>3. Step(postgres, CreateReview(postgres, req, clock).side)
      BY <1>1, CreateSteps
    <2> QED
      BY <1>1, <2>1, <2>2, <2>3 DEF SidesStep
  <1>6. CASE Deliver
    BY <1>2, <1>4, <1>5, <1>6, WebhookRequestType DEF Deliver
  <1>7. CASE PostReview
    <2>1. \A req \in Creates : req \in ReviewRequests
      BY SystemAssumption
    <2> QED
      BY <1>2, <1>4, <1>5, <1>7, <2>1 DEF PostReview
  <1>8. CASE PostDecision
    <2>1. PICK id \in Named, verdict \in Submitted :
            Serve(LAMBDA side : SubmitHumanDecision(side, id, verdict, clock))
      BY <1>8 DEF PostDecision
    <2>2. /\ memory' = SubmitHumanDecision(memory, id, verdict, clock).side
          /\ postgres' = SubmitHumanDecision(postgres, id, verdict, clock).side
          /\ restarts' = restarts
      BY <2>1 DEF Serve
    <2>3. Step(memory, SubmitHumanDecision(memory, id, verdict, clock).side)
      BY <1>1, DecisionSteps
    <2>4. Step(postgres, SubmitHumanDecision(postgres, id, verdict, clock).side)
      BY <1>1, DecisionSteps
    <2> QED
      BY <1>1, <1>2, <2>2, <2>3, <2>4 DEF SidesStep
  <1>9. CASE PostEvaluation
    <2>1. PICK id \in Named, update \in Updates :
            Serve(LAMBDA side : UpdateEvaluation(side, id, update, clock))
      BY <1>9 DEF PostEvaluation
    <2>2. /\ memory' = UpdateEvaluation(memory, id, update, clock).side
          /\ postgres' = UpdateEvaluation(postgres, id, update, clock).side
          /\ restarts' = restarts
      BY <2>1 DEF Serve
    <2>3. Step(memory, UpdateEvaluation(memory, id, update, clock).side)
      BY <1>1, EvaluationSteps
    <2>4. Step(postgres, UpdateEvaluation(postgres, id, update, clock).side)
      BY <1>1, EvaluationSteps
    <2> QED
      BY <1>1, <1>2, <2>2, <2>3, <2>4 DEF SidesStep
  <1>10. CASE PostRetry
    <2>1. PICK id \in Named :
            Serve(LAMBDA side : RetryReview(side, id, clock))
      BY <1>10 DEF PostRetry
    <2>2. /\ memory' = RetryReview(memory, id, clock).side
          /\ postgres' = RetryReview(postgres, id, clock).side
          /\ restarts' = restarts
      BY <2>1 DEF Serve
    <2>3. Step(memory, RetryReview(memory, id, clock).side)
      BY <1>1, RetrySteps
    <2>4. Step(postgres, RetryReview(postgres, id, clock).side)
      BY <1>1, RetrySteps
    <2> QED
      BY <1>1, <1>2, <2>2, <2>3, <2>4 DEF SidesStep
  <1>11. CASE Restart
    BY <1>1, <1>2, <1>3, <1>11 DEF Restart, Restarted, SidesStep
  <1>12. CASE StepBack
    BY <1>1, <1>2, <1>3, <1>12 DEF StepBack, SidesStep
  <1> QED
    BY <1>6, <1>7, <1>8, <1>9, <1>10, <1>11, <1>12 DEF Next
-----------------------------------------------------------------------------
(***************************************************************************)
(* What a step keeps.                                                      *)
(***************************************************************************)

\* Nothing of a deployment but its counter moved.
Unmoved(side, out) ==
    /\ SideOK(out)
    /\ out.store = side.store
    /\ Stored(out) = Stored(side)
    /\ \A id : Load(out, id) = Load(side, id)
    /\ side.store = "memory" => out.records = side.records
                                  /\ out.index = side.index
    /\ side.store = "postgres" => out.tables = side.tables

Wrote(side, out, rec) ==
    /\ Writes(side, rec, out.counter)
    /\ SaveResult(side, rec) = "ok"
    /\ Keeps(side, out, rec, out.counter)

LEMMA StepShape ==
    ASSUME ClockOK, NEW side, SideOK(side), NEW out, Step(side, out)
    PROVE  /\ SideOK(out)
           /\ out.store = side.store
           /\ out.counter >= side.counter
           /\ Unmoved(side, out) \/ \E rec : Wrote(side, out, rec)
  <1>1. side.counter \in Nat
    BY DEF SideOK
  <1>2. CASE out = side
    BY <1>1, <1>2 DEF Unmoved
  <1>3. ASSUME NEW n \in Nat, n >= side.counter,
               out = [side EXCEPT !.counter = n]
        PROVE  /\ SideOK(out)
               /\ out.store = side.store
               /\ out.counter >= side.counter
               /\ Unmoved(side, out)
    BY <1>3, CounterDrawn DEF Unmoved
  <1>4. ASSUME NEW rec, NEW n \in Nat, Writes(side, rec, n),
               SaveResult(side, rec) = "ok",
               out = Saved([side EXCEPT !.counter = n], rec)
        PROVE  /\ SideOK(out)
               /\ out.store = side.store
               /\ out.counter >= side.counter
               /\ Wrote(side, out, rec)
    <2>1. Keeps(side, out, rec, n)
      BY <1>4, SavedKeeps
    <2>2. n >= side.counter
      BY <1>4, WritesFacts
    <2> QED
      BY <1>4, <2>1, <2>2 DEF Wrote, Keeps
  <1> QED
    BY <1>2, <1>3, <1>4 DEF Step

LEMMA RestartUnmoved ==
    ASSUME SideOK(postgres), NEW out, Restarted(out)
    PROVE  Unmoved(postgres, out) /\ out.counter = 0
  BY CounterDrawn DEF Restarted, Unmoved

\* What was saved is read back, but for the fields that are not and the order
\* of the history.
LEMMA WroteFields ==
    ASSUME NEW side, NEW out, NEW rec, Wrote(side, out, rec)
    PROVE  LET back == Load(out, rec.id)
           IN  /\ back.id = rec.id /\ back.task = rec.task
               /\ back.change = rec.change /\ back.key = rec.key
               /\ back.source = rec.source
               /\ back.environment = rec.environment
               /\ back.status = rec.status /\ back.result = rec.result
               /\ back.request = rec.request /\ back.evidence = rec.evidence
               /\ back.signals = rec.signals
               /\ back.recommendation = rec.recommendation
               /\ back.evaluation = rec.evaluation
  BY DEF Wrote, Keeps, SameFields, FieldNames

\* What an operation that loaded a record keeps of it.
LEMMA AnnotatedFields ==
    ASSUME NEW side, NEW rec, Annotates(side, rec)
    PROVE  LET old == Load(side, rec.id)
           IN  /\ rec.id \in Stored(side)
               /\ rec.task = old.task /\ rec.key = old.key
               /\ rec.change = old.change
               /\ rec.request = old.request
               /\ rec.result = old.result
               /\ rec.evidence = old.evidence /\ rec.signals = old.signals
               /\ rec.recommendation = old.recommendation
  BY DEF Annotates, Revises, SameFields, FieldNames

LEMMA RenewedFields ==
    ASSUME NEW side, NEW rec, NEW n, Renews(side, rec, n)
    PROVE  LET old == Load(side, rec.id)
               req == RequestFromRecord(old)
           IN  /\ rec.id \in Stored(side)
               /\ rec.task = old.task /\ rec.key = old.key
               /\ rec.change = old.change
               /\ rec.request = old.request
               /\ rec.evaluation = old.evaluation
               /\ rec.decisions = old.decisions
               /\ req \in ReviewRequests
               /\ n = side.counter + Drawn(req)
               /\ rec.evidence.numbers =
                    side.counter + 1 .. side.counter + EvidenceDrawn(req)
               /\ rec.signals.numbers =
                    side.counter + EvidenceDrawn(req) + 1
                      .. side.counter + Drawn(req)
               /\ rec.recommendation.version = req.base
  <1> DEFINE old == Load(side, rec.id)
             req == RequestFromRecord(old)
  <1>1. /\ rec.id \in Stored(side)
        /\ SameFields(rec, old, IdentityNames)
        /\ req \in ReviewRequests
        /\ RetriedFrom(rec, old, side.counter, clock)
        /\ n = side.counter + Drawn(req)
    BY DEF Renews, Revises
  <1> HIDE DEF old
  <1>2. /\ rec.task = old.task /\ rec.key = old.key
        /\ rec.change = old.change /\ rec.request = old.request
    BY <1>1 DEF SameFields, IdentityNames
  <1>3. /\ rec.evidence.numbers =
             side.counter + 1 .. side.counter + EvidenceDrawn(req)
        /\ rec.signals.numbers =
             side.counter + EvidenceDrawn(req) + 1
               .. side.counter + Drawn(req)
        /\ rec.recommendation =
             [reviewers |-> Assess(ChangeOf(req)).reviewers,
              version   |-> req.base]
        /\ SameFields(rec, old, {"decisions", "evaluation"})
    BY <1>1 DEF RetriedFrom
  <1>4. /\ rec.evaluation = old.evaluation
        /\ rec.decisions = old.decisions
        /\ rec.recommendation.version = req.base
    BY <1>3 DEF SameFields
  <1> QED
    BY <1>1, <1>2, <1>3, <1>4 DEF old
-----------------------------------------------------------------------------
(***************************************************************************)
(* Numbers.                                                                *)
(***************************************************************************)

\* Every number in use was drawn.
Numbered(side) ==
    \A id \in Stored(side) :
      LET rec == Load(side, id)
      IN  /\ id <= side.counter
          /\ rec.task <= side.counter
          /\ \A k \in rec.evidence.numbers : k <= side.counter
          /\ \A k \in rec.signals.numbers : k <= side.counter

\* No two reviews share a number.
Apart(a, b) ==
    /\ a.task # b.task
    /\ a.evidence.numbers \cap b.evidence.numbers = {}
    /\ a.signals.numbers \cap b.signals.numbers = {}

Disjoint(side) ==
    \A a, b \in Stored(side) : a # b => Apart(Load(side, a), Load(side, b))

LEMMA NumberTypes ==
    ASSUME NEW side, SideOK(side), NEW id \in Stored(side)
    PROVE  LET rec == Load(side, id)
           IN  /\ side.counter \in Nat
               /\ id \in Int
               /\ rec.task \in Int
               /\ rec.evidence.numbers \in SUBSET Int
               /\ rec.signals.numbers \in SUBSET Int
  <1> DEFINE rec == Load(side, id)
  <1>1. Whole(rec) /\ rec.id = id /\ side.counter \in Nat
    BY LoadedIsWhole DEF SideOK
  <1> HIDE DEF rec
  <1>2. Identified(rec) /\ Assessed(rec)
    BY <1>1 DEF Whole
  <1>3. id \in Int /\ rec.task \in Int
    BY <1>1, <1>2 DEF Identified
  <1>4. rec.evidence.numbers \in SUBSET Int /\ rec.signals.numbers \in SUBSET Int
    BY <1>2 DEF Assessed
  <1> QED
    BY <1>1, <1>3, <1>4 DEF rec

LEMMA NumberedKept ==
    ASSUME ClockOK, NEW side, SideOK(side), NEW out, Step(side, out),
           Numbered(side)
    PROVE  Numbered(out)
  <1>1. /\ SideOK(out)
        /\ side.counter \in Nat
        /\ out.counter \in Nat
        /\ out.counter >= side.counter
        /\ Unmoved(side, out) \/ \E rec : Wrote(side, out, rec)
    BY StepShape DEF SideOK
  <1>2. ASSUME NEW id \in Stored(side)
        PROVE  LET rec == Load(side, id)
               IN  /\ id <= out.counter
                   /\ rec.task <= out.counter
                   /\ \A k \in rec.evidence.numbers : k <= out.counter
                   /\ \A k \in rec.signals.numbers : k <= out.counter
    BY <1>1, NumberTypes DEF Numbered
  <1>3. CASE Unmoved(side, out)
    BY <1>2, <1>3 DEF Unmoved, Numbered
  <1>4. ASSUME NEW rec, Wrote(side, out, rec)
        PROVE  Numbered(out)
    <2> DEFINE back == Load(out, rec.id)
               n == out.counter
    <2>1. /\ Stored(out) = Stored(side) \cup {rec.id}
          /\ \A id \in Stored(side) \ {rec.id} : Load(out, id) = Load(side, id)
      BY <1>4 DEF Wrote, Keeps
    <2>2. /\ back.task = rec.task
          /\ back.evidence = rec.evidence
          /\ back.signals = rec.signals
      BY <1>4, WroteFields
    <2>3. /\ rec.id <= n
          /\ rec.task <= n
          /\ \A k \in rec.evidence.numbers : k <= n
          /\ \A k \in rec.signals.numbers : k <= n
      <3>1. CASE Annotates(side, rec)
        BY <1>2, <3>1, AnnotatedFields
      <3>2. CASE Renews(side, rec, n)
        <4> DEFINE req == RequestFromRecord(Load(side, rec.id))
        <4>1. /\ rec.id \in Stored(side)
              /\ rec.task = Load(side, rec.id).task
              /\ req \in ReviewRequests
              /\ n = side.counter + Drawn(req)
              /\ rec.evidence.numbers =
                   side.counter + 1 .. side.counter + EvidenceDrawn(req)
              /\ rec.signals.numbers =
                   side.counter + EvidenceDrawn(req) + 1
                     .. side.counter + Drawn(req)
          BY <3>2, RenewedFields
        <4>2. /\ EvidenceDrawn(req) \in Nat /\ Drawn(req) \in Nat
              /\ EvidenceDrawn(req) <= Drawn(req)
          BY <4>1, DrawnIsNumber
        <4> HIDE DEF req
        <4> QED
          BY <1>1, <1>2, <4>1, <4>2
      <3>3. CASE CreatesFor(side, rec, n)
        <4>1. PICK req \in ReviewRequests :
                /\ CreatedFrom(rec, req, side.counter, clock)
                /\ n = side.counter + 2 + Drawn(req)
          BY <3>3, CreatesFacts
        <4>2. /\ EvidenceDrawn(req) \in Nat /\ Drawn(req) \in Nat
              /\ EvidenceDrawn(req) <= Drawn(req)
          BY DrawnIsNumber
        <4>3. /\ rec.id = side.counter + 1
              /\ rec.task = side.counter + 2
              /\ rec.evidence.numbers =
                   side.counter + 3 .. side.counter + 2 + EvidenceDrawn(req)
              /\ rec.signals.numbers =
                   side.counter + 3 + EvidenceDrawn(req)
                     .. side.counter + 2 + Drawn(req)
          BY <4>1 DEF CreatedFrom
        <4> QED
          BY <1>1, <4>1, <4>2, <4>3
      <3> QED
        BY <1>4, <3>1, <3>2, <3>3, WritesFacts DEF Wrote
    <2> QED
      BY <1>2, <2>1, <2>2, <2>3 DEF Numbered
  <1> QED
    BY <1>1, <1>3, <1>4

\* What is written shares no number with what is stored: in memory because its
\* numbers are new or its own, in the tables because they refuse any other.
LEMMA FreshInMemory ==
    ASSUME ClockOK, NEW side, SideOK(side), Numbered(side), Disjoint(side),
           NEW rec, NEW n, Writes(side, rec, n),
           NEW id \in Stored(side) \ {rec.id}
    PROVE  Apart(Load(side, id), rec)
  <1> DEFINE other == Load(side, id)
  <1>1. /\ side.counter \in Nat
        /\ other.task \in Int
        /\ other.evidence.numbers \in SUBSET Int
        /\ other.signals.numbers \in SUBSET Int
        /\ other.task <= side.counter
        /\ \A k \in other.evidence.numbers : k <= side.counter
        /\ \A k \in other.signals.numbers : k <= side.counter
    BY NumberTypes DEF Numbered
  <1>2. CASE Annotates(side, rec)
    <2>1. /\ rec.id \in Stored(side)
          /\ rec.task = Load(side, rec.id).task
          /\ rec.evidence = Load(side, rec.id).evidence
          /\ rec.signals = Load(side, rec.id).signals
      BY <1>2, AnnotatedFields
    <2> QED
      BY <2>1 DEF Disjoint, Apart
  <1>3. CASE Renews(side, rec, n)
    <2> DEFINE req == RequestFromRecord(Load(side, rec.id))
    <2>1. /\ rec.id \in Stored(side)
          /\ rec.task = Load(side, rec.id).task
          /\ req \in ReviewRequests
          /\ rec.evidence.numbers =
               side.counter + 1 .. side.counter + EvidenceDrawn(req)
          /\ rec.signals.numbers =
               side.counter + EvidenceDrawn(req) + 1
                 .. side.counter + Drawn(req)
      BY <1>3, RenewedFields
    <2>2. EvidenceDrawn(req) \in Nat /\ Drawn(req) \in Nat
      BY <2>1, DrawnIsNumber
    <2>3. other.task # rec.task
      BY <2>1 DEF Disjoint, Apart
    <2> HIDE DEF req, other
    <2> QED
      BY <1>1, <2>1, <2>2, <2>3 DEF Apart, other
  <1>4. CASE CreatesFor(side, rec, n)
    <2>1. PICK req \in ReviewRequests :
            CreatedFrom(rec, req, side.counter, clock)
      BY <1>4, CreatesFacts
    <2>2. EvidenceDrawn(req) \in Nat /\ Drawn(req) \in Nat
      BY DrawnIsNumber
    <2>3. /\ rec.task = side.counter + 2
          /\ rec.evidence.numbers =
               side.counter + 3 .. side.counter + 2 + EvidenceDrawn(req)
          /\ rec.signals.numbers =
               side.counter + 3 + EvidenceDrawn(req)
                 .. side.counter + 2 + Drawn(req)
      BY <2>1 DEF CreatedFrom
    <2> HIDE DEF other
    <2> QED
      BY <1>1, <2>2, <2>3 DEF Apart, other
  <1> QED
    BY <1>2, <1>3, <1>4, WritesFacts

LEMMA FreshInTables ==
    ASSUME NEW side, SideOK(side), side.store = "postgres",
           NEW rec, Savable(side.tables, rec), SaveResult(side, rec) = "ok",
           NEW id \in Stored(side) \ {rec.id}
    PROVE  Apart(Load(side, id), rec)
  <1> DEFINE db == side.tables
             other == Load(side, id)
  <1>1. TablesOK(db) /\ id \in DOMAIN db.reviews /\ id # rec.id
    BY DEF SideOK, Stored
  <1>2. /\ ~Clashes(db.evidence, rec.id, rec.evidence.numbers)
        /\ ~Clashes(db.signals, rec.id, rec.signals.numbers)
    BY DEF SaveResult, SaveAnswer
  <1>3. /\ other.task = TaskOf(db, id)
        /\ other.evidence = db.evidence[id]
        /\ other.signals = db.signals[id]
    <2>1. other = Get(db, id)
      BY DEF Load
    <2>2. IsWritten(Written(db, id), db, id)
      BY WrittenFields
    <2> QED
      BY <2>1, <2>2 DEF IsWritten, SameFields, FieldNames
  <1>4. id \in DOMAIN db.evidence /\ id \in DOMAIN db.signals
    BY <1>1 DEF TablesOK
  <1>5. other.task # rec.task
    <2>1. /\ TaskOf(db, id) \in DOMAIN db.tasks
          /\ db.tasks[TaskOf(db, id)].review = id
      BY <1>1, OnlyTask DEF TablesOK
    <2> QED
      BY <1>1, <1>3, <2>1 DEF Savable, OwnTask
  <1> HIDE DEF db, other
  <1> QED
    BY <1>1, <1>2, <1>3, <1>4, <1>5 DEF Clashes, Apart, other

LEMMA DisjointKept ==
    ASSUME ClockOK, NEW side, SideOK(side), NEW out, Step(side, out),
           Disjoint(side), side.store = "memory" => Numbered(side)
    PROVE  Disjoint(out)
  <1>1. CASE Unmoved(side, out)
    BY <1>1 DEF Unmoved, Disjoint
  <1>2. ASSUME NEW rec, Wrote(side, out, rec)
        PROVE  Disjoint(out)
    <2>1. /\ Stored(out) = Stored(side) \cup {rec.id}
          /\ \A id \in Stored(side) \ {rec.id} : Load(out, id) = Load(side, id)
      BY <1>2 DEF Wrote, Keeps
    <2>2. /\ Load(out, rec.id).task = rec.task
          /\ Load(out, rec.id).evidence = rec.evidence
          /\ Load(out, rec.id).signals = rec.signals
      BY <1>2, WroteFields
    <2>3. \A id \in Stored(side) \ {rec.id} : Apart(Load(side, id), rec)
      <3>1. CASE side.store = "memory"
        BY <1>2, <3>1, FreshInMemory DEF Wrote
      <3>2. CASE side.store = "postgres"
        BY <1>2, <3>2, FreshInTables DEF Wrote, Keeps
      <3> QED
        BY <3>1, <3>2 DEF SideOK
    <2>4. \A id \in Stored(side) \ {rec.id} :
            /\ Apart(Load(out, id), Load(out, rec.id))
            /\ Apart(Load(out, rec.id), Load(out, id))
      BY <2>1, <2>2, <2>3 DEF Apart
    <2>5. \A a, b \in Stored(side) \ {rec.id} :
            a # b => Apart(Load(out, a), Load(out, b))
      BY <2>1 DEF Disjoint
    <2> QED
      BY <2>1, <2>4, <2>5 DEF Disjoint
  <1> QED
    BY <1>1, <1>2, StepShape
-----------------------------------------------------------------------------
(***************************************************************************)
(* The rows of the tables.                                                 *)
(***************************************************************************)
EvaluationsOK(db) ==
    \A id \in DOMAIN db.evaluations :
      LET rows == db.evaluations[id]
      IN  \A i \in DOMAIN rows :
            rows[i] = [LastOf(rows) EXCEPT !.created = rows[i].created]

LEMMA EvaluationsSaved ==
    ASSUME NEW db, TablesOK(db), EvaluationsOK(db),
           NEW rec, Savable(db, rec)
    PROVE  EvaluationsOK(SaveRows(db, rec))
  <1> DEFINE new == SaveRows(db, rec)
             Agree(rows) ==
               \A i \in DOMAIN rows :
                 rows[i] = [LastOf(rows) EXCEPT !.created = rows[i].created]
  <1>1. CASE rec.evaluation = Nil
    <2>1. new.evaluations = db.evaluations
      BY <1>1, SavedRows
    <2> QED
      BY <2>1 DEF EvaluationsOK
  <1>2. CASE rec.evaluation # Nil
    <2>1. /\ DOMAIN new.evaluations = DOMAIN db.evaluations \cup {rec.id}
          /\ new.evaluations[rec.id] = EvaluationRows(db, rec)
      BY <1>2, SavedRows
    <2>2. \A id \in DOMAIN db.evaluations \ {rec.id} :
            new.evaluations[id] = db.evaluations[id]
      BY OtherRows
    <2>3. rec.evaluation \in EvaluationValues
      BY <1>2 DEF Savable, Whole, Historied
    <2>4. At(db.evaluations, rec.id, <<>>) \in Seq(EvaluationValues)
      BY DEF At, TablesOK
    <2>5. Agree(EvaluationRows(db, rec))
      BY <2>3, <2>4, SavedEvaluations
    <2>6. \A id \in DOMAIN db.evaluations : Agree(db.evaluations[id])
      BY DEF EvaluationsOK
    <2> HIDE DEF Agree, new
    <2>7. \A id \in DOMAIN new.evaluations : Agree(new.evaluations[id])
      BY <2>1, <2>2, <2>5, <2>6
    <2> QED
      BY <2>7 DEF EvaluationsOK, Agree, new
  <1> QED
    BY <1>1, <1>2

LEMMA TablesKept ==
    ASSUME ClockOK, NEW side, SideOK(side), side.store = "postgres",
           NEW out, Step(side, out), EvaluationsOK(side.tables)
    PROVE  EvaluationsOK(out.tables)
  <1>1. CASE Unmoved(side, out)
    BY <1>1 DEF Unmoved
  <1>2. ASSUME NEW rec, Wrote(side, out, rec)
        PROVE  EvaluationsOK(out.tables)
    <2>1. /\ Writes(side, rec, out.counter)
          /\ TablesOK(side.tables)
          /\ Savable(side.tables, rec)
          /\ out.tables = SaveRows(side.tables, rec)
      BY <1>2 DEF Wrote, Keeps, SideOK
    <2> QED
      BY <2>1, EvaluationsSaved
  <1> QED
    BY <1>1, <1>2, StepShape

(***************************************************************************)
(* The version a rollback restores.                                        *)
(***************************************************************************)

\* It is the request's where both are there, so a retry names the same one.
BaseOK(side) ==
    \A id \in Stored(side) :
      LET rec == Load(side, id)
      IN  rec.request # Nil /\ rec.recommendation.version # Empty =>
            rec.recommendation.version = rec.request.base

VersionKept(side, out) ==
    \A id \in Stored(side) :
      /\ id \in Stored(out)
      /\ Load(side, id).recommendation.version # Empty =>
           Load(out, id).recommendation.version =
             Load(side, id).recommendation.version

\* A retry takes the version from the request, or from the plan it replaces.
LEMMA RenewedVersion ==
    ASSUME NEW side, NEW rec, NEW n, Renews(side, rec, n), BaseOK(side)
    PROVE  LET old == Load(side, rec.id)
           IN  /\ rec.request # Nil =>
                    rec.recommendation.version = rec.request.base
               /\ old.recommendation.version # Empty =>
                    rec.recommendation.version = old.recommendation.version
  <1> DEFINE old == Load(side, rec.id)
             req == RequestFromRecord(old)
  <1>1. /\ rec.id \in Stored(side)
        /\ rec.request = old.request
        /\ rec.recommendation.version = req.base
    BY RenewedFields
  <1>2. /\ old.request # Nil => req = old.request
        /\ old.request = Nil => req.base = old.recommendation.version
    BY DEF RequestFromRecord
  <1>3. old.request # Nil /\ old.recommendation.version # Empty =>
          old.recommendation.version = old.request.base
    BY <1>1 DEF BaseOK
  <1> HIDE DEF old, req
  <1> QED
    BY <1>1, <1>2, <1>3 DEF old

LEMMA BaseKept ==
    ASSUME ClockOK, NEW side, SideOK(side), NEW out, Step(side, out),
           BaseOK(side)
    PROVE  BaseOK(out)
  <1>1. CASE Unmoved(side, out)
    BY <1>1 DEF Unmoved, BaseOK
  <1>2. ASSUME NEW rec, Wrote(side, out, rec)
        PROVE  BaseOK(out)
    <2> DEFINE n == out.counter
    <2>1. /\ Stored(out) = Stored(side) \cup {rec.id}
          /\ \A id \in Stored(side) \ {rec.id} : Load(out, id) = Load(side, id)
      BY <1>2 DEF Wrote, Keeps
    <2>2. /\ Load(out, rec.id).request = rec.request
          /\ Load(out, rec.id).recommendation = rec.recommendation
      BY <1>2, WroteFields
    <2>3. rec.request # Nil /\ rec.recommendation.version # Empty =>
            rec.recommendation.version = rec.request.base
      <3>1. CASE Annotates(side, rec)
        <4>1. /\ rec.id \in Stored(side)
              /\ rec.request = Load(side, rec.id).request
              /\ rec.recommendation = Load(side, rec.id).recommendation
          BY <3>1, AnnotatedFields
        <4> QED
          BY <4>1 DEF BaseOK
      <3>2. CASE Renews(side, rec, n)
        BY <3>2, RenewedVersion
      <3>3. CASE CreatesFor(side, rec, n)
        <4>1. PICK req \in ReviewRequests :
                CreatedFrom(rec, req, side.counter, clock)
          BY <3>3, CreatesFacts
        <4>2. /\ rec.request = req
              /\ rec.recommendation =
                   [reviewers |-> Assess(ChangeOf(req)).reviewers,
                    version   |-> req.base]
          BY <4>1 DEF CreatedFrom
        <4> QED
          BY <4>2
      <3> QED
        BY <1>2, <3>1, <3>2, <3>3, WritesFacts DEF Wrote
    <2> QED
      BY <2>1, <2>2, <2>3 DEF BaseOK
  <1> QED
    BY <1>1, <1>2, StepShape

\* A create has a number no stored review has.
LEMMA VersionsKept ==
    ASSUME ClockOK, NEW side, SideOK(side), NEW out, Step(side, out),
           BaseOK(side), Numbered(side)
    PROVE  VersionKept(side, out)
  <1>1. CASE Unmoved(side, out)
    BY <1>1 DEF Unmoved, VersionKept
  <1>2. ASSUME NEW rec, Wrote(side, out, rec)
        PROVE  VersionKept(side, out)
    <2> DEFINE n == out.counter
    <2>1. /\ Stored(out) = Stored(side) \cup {rec.id}
          /\ \A id \in Stored(side) \ {rec.id} : Load(out, id) = Load(side, id)
      BY <1>2 DEF Wrote, Keeps
    <2>2. Load(out, rec.id).recommendation = rec.recommendation
      BY <1>2, WroteFields
    <2>3. CASE Annotates(side, rec)
      <3>1. rec.recommendation = Load(side, rec.id).recommendation
        BY <2>3, AnnotatedFields
      <3> QED
        BY <2>1, <2>2, <3>1 DEF VersionKept
    <2>4. CASE Renews(side, rec, n)
      <3>1. LET old == Load(side, rec.id)
            IN  old.recommendation.version # Empty =>
                  rec.recommendation.version = old.recommendation.version
        BY <2>4, RenewedVersion
      <3> QED
        BY <2>1, <2>2, <3>1 DEF VersionKept
    <2>5. CASE CreatesFor(side, rec, n)
      <3>1. rec.id = side.counter + 1
        BY <2>5, CreatesFacts
      <3>2. rec.id \notin Stored(side)
        BY <3>1, NumberTypes DEF Numbered
      <3> QED
        BY <2>1, <3>2 DEF VersionKept
    <2> QED
      BY <1>2, <2>3, <2>4, <2>5, WritesFacts DEF Wrote
  <1> QED
    BY <1>1, <1>2, StepShape
-----------------------------------------------------------------------------
(***************************************************************************)
(* The initial states.                                                     *)
(***************************************************************************)

\* A review of older data is whole, and the tables take it.
LEMMA SeedFacts ==
    ASSUME NEW seed \in Seeds
    PROVE  /\ Whole(seed)
           /\ seed.id < 0 /\ seed.task < 0
           /\ seed.evaluation = Nil
           /\ seed.understanding = Nil
           /\ seed.evidence.numbers = {} /\ seed.signals.numbers = {}
           /\ seed.request = Nil \/ seed.recommendation.version = Empty
           /\ Savable(EmptyTables, seed)
  <1>1. seed \in OldReviews
    BY SystemAssumption
  <1>2. IsRecord(seed)
    BY <1>1 DEF OldReviews, IsRecord, FieldNames
  <1>3. Identified(seed)
    BY <1>1 DEF OldReviews, Identified
  <1>4. /\ seed.result = NoResult
        /\ seed.understanding = Nil
        /\ seed.evidence = [numbers |-> {}]
        /\ seed.signals = [numbers |-> {}, raised |-> {}]
        /\ seed.recommendation \in [reviewers : {{}}, version : Text]
        /\ seed.status = "FAILED"
        /\ seed.decisions = <<>>
        /\ seed.evaluation = Nil
        /\ seed.timeline \in
             Seq([state : {"FAILED"}, by : {"service"}, at : Int])
        /\ Len(seed.timeline) = 1
        /\ seed.id < 0 /\ seed.task < 0
        /\ seed.request = Nil \/ seed.recommendation.version = Empty
    BY <1>1 DEF OldReviews
  <1>5. Assessed(seed)
    <2>1. /\ seed.result = [score      |-> seed.result.score,
                            level      |-> seed.result.level,
                            confidence |-> seed.result.confidence,
                            human      |-> seed.result.human]
          /\ seed.result.human \in BOOLEAN
      <3> DEFINE r == seed.result
      <3>1. r = [score |-> 0, level |-> "", confidence |-> 0, human |-> FALSE]
        BY <1>4 DEF NoResult
      <3> HIDE DEF r
      <3>2. /\ r = [score |-> r.score, level |-> r.level,
                    confidence |-> r.confidence, human |-> r.human]
            /\ r.human \in BOOLEAN
        BY <3>1
      <3> QED
        BY <3>2 DEF r
    <2>2. /\ seed.evidence = [numbers |-> seed.evidence.numbers]
          /\ seed.evidence.numbers = {}
          /\ seed.signals = [numbers |-> seed.signals.numbers,
                             raised  |-> seed.signals.raised]
          /\ seed.signals.numbers = {}
      BY <1>4
    <2>3. /\ seed.recommendation =
               [reviewers |-> seed.recommendation.reviewers,
                version   |-> seed.recommendation.version]
          /\ seed.recommendation.version \in Text
      BY <1>4
    <2> QED
      BY <1>4, <2>1, <2>2, <2>3 DEF Assessed
  <1> DEFINE T == [state : {"FAILED"}, by : {"service"}, at : Int]
             s == seed.timeline
  <1>6. s \in Seq(T) /\ Len(s) = 1
    BY <1>4
  <1>7. T \subseteq Events
    BY DEF Events, Statuses, Origins
  <1> HIDE DEF T, s
  <1>8. s \in Seq(Events) /\ s # <<>>
    <2>1. DOMAIN s = 1 .. 1 /\ \A i \in 1 .. 1 : s[i] \in T
      BY <1>6
    <2>2. s \in Seq(Events)
      BY <1>6, <1>7, <2>1
    <2>3. s[1] \in T
      BY <2>1
    <2>4. s # <<>>
      BY <1>6
    <2> QED
      BY <2>2, <2>4
  <1>9. Historied(seed)
    <2>1. <<>> \in Seq(DecisionRows)
      BY EmptySeq
    <2> QED
      BY <1>4, <1>8, <2>1 DEF Historied, Statuses, s
  <1>10. Whole(seed)
    BY <1>2, <1>3, <1>5, <1>9 DEF Whole
  <1>11. OwnTask(EmptyTables, seed)
    BY <1>3, <1>4 DEF OwnTask, EmptyTables, Identified
  <1>12. Savable(EmptyTables, seed)
    BY <1>10, <1>11 DEF Savable, EmptyTables
  <1> QED
    BY <1>4, <1>10, <1>12

LEMMA NoTables ==
    /\ TablesOK(EmptyTables)
    /\ EvaluationsOK(EmptyTables)
    /\ DOMAIN EmptyTables.reviews = {}
  BY DEF TablesOK, TasksOK, EmptyTables, EvaluationsOK

\* A deployment before its first request: it holds nothing, or one old review.
Fresh(side, held) ==
    /\ SideOK(side)
    /\ side.counter = 0
    /\ Stored(side) = {rec.id : rec \in held}
    /\ \A rec \in held :
         SameFields(Load(side, rec.id), rec,
           FieldNames \ {"timeline", "decisions", "error"})
    /\ side.store = "postgres" => EvaluationsOK(side.tables)

LEMMA InitFresh ==
    ASSUME Init
    PROVE  /\ memory.store = "memory" /\ postgres.store = "postgres"
           /\ \/ Fresh(memory, {}) /\ Fresh(postgres, {})
              \/ \E seed \in Seeds : Fresh(memory, {seed})
                                       /\ Fresh(postgres, {seed})
  <1>1. PICK seeded \in {{}} \cup {{seed} : seed \in Seeds} :
         /\ memory = [store   |-> "memory",
                      records |-> [id \in {rec.id : rec \in seeded} |->
                                     CHOOSE rec \in seeded : rec.id = id],
                      index   |-> [k \in {rec.key : rec \in seeded} \ {Empty} |->
                                     CHOOSE id \in {rec.id : rec \in seeded} :
                                       TRUE],
                      counter |-> 0]
         /\ postgres = [store   |-> "postgres",
                        tables  |-> IF seeded = {} THEN EmptyTables
                                    ELSE SaveRows(EmptyTables,
                                           CHOOSE rec \in seeded : TRUE),
                        counter |-> 0]
    BY DEF Init
  <1> DEFINE records == [id \in {rec.id : rec \in seeded} |->
                           CHOOSE rec \in seeded : rec.id = id]
             index == [k \in {rec.key : rec \in seeded} \ {Empty} |->
                         CHOOSE id \in {rec.id : rec \in seeded} : TRUE]
             tables == IF seeded = {} THEN EmptyTables
                       ELSE SaveRows(EmptyTables, CHOOSE rec \in seeded : TRUE)
  <1>2. /\ memory = [store |-> "memory", records |-> records,
                     index |-> index, counter |-> 0]
        /\ postgres = [store |-> "postgres", tables |-> tables, counter |-> 0]
    BY <1>1
  <1>3. CASE seeded = {}
    <2>1. DOMAIN records = {} /\ tables = EmptyTables
      BY <1>3
    <2> HIDE DEF records, index, tables
    <2>2. SideOK(memory)
      BY <1>2, <2>1 DEF SideOK
    <2>3. SideOK(postgres)
      BY <1>2, <2>1, NoTables DEF SideOK
    <2>4. Fresh(memory, {})
      BY <1>2, <2>1, <2>2 DEF Fresh, Stored
    <2>5. Fresh(postgres, {})
      BY <1>2, <2>1, <2>3, NoTables DEF Fresh, Stored
    <2> QED
      BY <1>2, <2>4, <2>5
  <1>4. ASSUME NEW seed \in Seeds, seeded = {seed}
        PROVE  Fresh(memory, {seed}) /\ Fresh(postgres, {seed})
    <2>1. DOMAIN records = {seed.id} /\ records[seed.id] = seed
      BY <1>4
    <2>2. tables = SaveRows(EmptyTables, seed)
      BY <1>4
    <2> HIDE DEF records, index, tables
    <2>3. /\ Whole(seed)
          /\ seed.evaluation = Nil
          /\ seed.understanding = Nil
          /\ Savable(EmptyTables, seed)
      BY SeedFacts
    <2>4. TablesOK(tables)
      BY <2>2, <2>3, NoTables, SavedTables
    <2>5. SideOK(memory)
      BY <1>2, <2>1, <2>3 DEF SideOK
    <2>6. SideOK(postgres)
      BY <1>2, <2>4 DEF SideOK
    <2>7. EvaluationsOK(tables)
      BY <2>2, <2>3, NoTables, EvaluationsSaved
    <2>8. DOMAIN tables.reviews = {seed.id}
      BY <2>2, NoTables, SavedRows
    <2>9. /\ SameFields(Get(tables, seed.id), Written(tables, seed.id),
                        FieldNames \ {"timeline", "decisions"})
          /\ SameFields(Written(tables, seed.id), seed,
                        FieldNames \ {"understanding", "error", "created"})
          /\ Written(tables, seed.id).understanding = Nil
          /\ Written(tables, seed.id).created = seed.created
      <3>1. SameFields(Get(tables, seed.id), Written(tables, seed.id),
                       FieldNames \ {"timeline", "decisions"})
        BY <2>4, <2>8, GotIsWhole
      <3>2. LET out == Written(SaveRows(EmptyTables, seed), seed.id)
            IN  /\ SameFields(out, seed,
                     FieldNames \ {"understanding", "error", "created"})
                /\ out.understanding = Nil
                /\ out.created = IF seed.id \in DOMAIN EmptyTables.reviews
                                   THEN EmptyTables.reviews[seed.id].created
                                   ELSE seed.created
        BY <2>3, NoTables, SavedIsWritten
      <3> QED
        BY <2>2, <3>1, <3>2, NoTables
    <2>10. SameFields(Get(tables, seed.id), seed,
                      FieldNames \ {"timeline", "decisions", "error"})
      BY <2>3, <2>9 DEF SameFields, FieldNames
    <2>11. Fresh(memory, {seed})
      BY <1>2, <2>1, <2>5 DEF Fresh, Stored, Load, SameFields
    <2>12. /\ postgres.counter = 0
           /\ postgres.tables = tables
           /\ Stored(postgres) = {seed.id}
           /\ Load(postgres, seed.id) = Get(tables, seed.id)
      BY <1>2, <2>8 DEF Stored, Load
    <2>13. Fresh(postgres, {seed})
      BY <2>6, <2>7, <2>10, <2>12 DEF Fresh
    <2> QED
      BY <2>11, <2>13
  <1>5. seeded = {} \/ \E seed \in Seeds : seeded = {seed}
    OBVIOUS
  <1> HIDE DEF records, index, tables
  <1>6. memory.store = "memory" /\ postgres.store = "postgres"
    BY <1>2
  <1> QED
    BY <1>3, <1>4, <1>5, <1>6

\* What holds of a deployment before its first request.
LEMMA FreshFacts ==
    ASSUME NEW side, NEW held, held = {} \/ \E seed \in Seeds : held = {seed},
           Fresh(side, held)
    PROVE  /\ SideOK(side)
           /\ Numbered(side)
           /\ Disjoint(side)
           /\ BaseOK(side)
  <1>1. CASE held = {}
    BY <1>1 DEF Fresh, Numbered, Disjoint, BaseOK
  <1>2. ASSUME NEW seed \in Seeds, held = {seed}
        PROVE  /\ SideOK(side) /\ Numbered(side)
               /\ Disjoint(side) /\ BaseOK(side)
    <2> DEFINE rec == Load(side, seed.id)
    <2>1. /\ SideOK(side) /\ side.counter = 0
          /\ Stored(side) = {seed.id}
          /\ SameFields(rec, seed,
                        FieldNames \ {"timeline", "decisions", "error"})
      BY <1>2 DEF Fresh
    <2>2. /\ rec.task = seed.task /\ rec.evidence = seed.evidence
          /\ rec.signals = seed.signals /\ rec.request = seed.request
          /\ rec.recommendation = seed.recommendation
      BY <2>1 DEF SameFields, FieldNames
    <2>3. /\ seed.id < 0 /\ seed.task < 0
          /\ seed.id \in Int /\ seed.task \in Int
          /\ seed.evidence.numbers = {} /\ seed.signals.numbers = {}
          /\ seed.request = Nil \/ seed.recommendation.version = Empty
      BY SeedFacts DEF Whole, Identified
    <2> HIDE DEF rec
    <2>4. Numbered(side)
      BY <2>1, <2>2, <2>3 DEF Numbered, rec
    <2>5. Disjoint(side)
      BY <2>1 DEF Disjoint
    <2>6. BaseOK(side)
      BY <2>1, <2>2, <2>3 DEF BaseOK, rec
    <2> QED
      BY <2>1, <2>4, <2>5, <2>6
  <1> QED
    BY <1>1, <1>2
-----------------------------------------------------------------------------
(***************************************************************************)
(* The inductive invariant.  A process that starts again counts from zero, *)
(* so of the numbers of Postgres only that the tables take no number twice *)
(* is certain after it.                                                    *)
(***************************************************************************)
SystemInvariant ==
    /\ SystemOK
    /\ Numbered(memory)
    /\ restarts = 0 => Numbered(postgres)
    /\ Disjoint(memory) /\ Disjoint(postgres)
    /\ BaseOK(memory) /\ BaseOK(postgres)
    /\ EvaluationsOK(postgres.tables)

LEMMA InvariantInit == Init => SystemInvariant
  <1> SUFFICES ASSUME Init PROVE SystemInvariant
    OBVIOUS
  <1>1. ClockOK /\ restarts \in Nat
    BY DEF Init, ClockOK
  <1>2. /\ memory.store = "memory" /\ postgres.store = "postgres"
        /\ \E held : /\ held = {} \/ \E seed \in Seeds : held = {seed}
                     /\ Fresh(memory, held) /\ Fresh(postgres, held)
    BY InitFresh
  <1>3. PICK held : /\ held = {} \/ \E seed \in Seeds : held = {seed}
                    /\ Fresh(memory, held) /\ Fresh(postgres, held)
    BY <1>2
  <1>4. /\ SideOK(memory) /\ Numbered(memory) /\ Disjoint(memory)
        /\ BaseOK(memory)
    BY <1>3, FreshFacts
  <1>5. /\ SideOK(postgres) /\ Numbered(postgres) /\ Disjoint(postgres)
        /\ BaseOK(postgres)
    BY <1>3, FreshFacts
  <1>6. EvaluationsOK(postgres.tables)
    BY <1>2, <1>3 DEF Fresh
  <1> QED
    BY <1>1, <1>2, <1>4, <1>5, <1>6 DEF SystemInvariant, SystemOK

\* A restart leaves what is stored.
LEMMA UnmovedKeeps ==
    ASSUME NEW side, NEW out, Unmoved(side, out)
    PROVE  /\ SideOK(out)
           /\ Disjoint(side) => Disjoint(out)
           /\ BaseOK(side) => BaseOK(out)
           /\ VersionKept(side, out)
  BY DEF Unmoved, Disjoint, BaseOK, VersionKept

LEMMA InvariantNext ==
    ASSUME SystemInvariant, [Next]_vars
    PROVE  SystemInvariant'
  <1>1. CASE UNCHANGED vars
    BY <1>1 DEF vars, SystemInvariant, SystemOK, ClockOK
  <1>2. CASE Next
    <2>1. /\ ClockOK /\ restarts \in Nat
          /\ SideOK(memory) /\ memory.store = "memory"
          /\ SideOK(postgres) /\ postgres.store = "postgres"
          /\ Numbered(memory) /\ (restarts = 0 => Numbered(postgres))
          /\ Disjoint(memory) /\ Disjoint(postgres)
          /\ BaseOK(memory) /\ BaseOK(postgres)
          /\ EvaluationsOK(postgres.tables)
      BY DEF SystemInvariant, SystemOK
    <2>2. SidesStep /\ ClockOK'
      BY <1>2, ServeSteps DEF SystemInvariant
    <2>3. /\ SideOK(memory') /\ memory'.store = "memory"
          /\ Numbered(memory') /\ Disjoint(memory') /\ BaseOK(memory')
      BY <2>1, <2>2, StepKeepsSide, NumberedKept, DisjointKept, BaseKept
         DEF SidesStep
    <2>4. /\ SideOK(postgres') /\ postgres'.store = "postgres"
          /\ restarts' = 0 => Numbered(postgres')
          /\ Disjoint(postgres') /\ BaseOK(postgres')
          /\ EvaluationsOK(postgres'.tables)
      <3>1. CASE Step(postgres, postgres') /\ restarts' = restarts
        BY <2>1, <3>1, StepKeepsSide, NumberedKept, DisjointKept, BaseKept,
           TablesKept
      <3>2. CASE Restarted(postgres') /\ restarts' = restarts + 1
        <4>1. Unmoved(postgres, postgres')
          BY <2>1, <3>2, RestartUnmoved
        <4>2. restarts' # 0
          BY <2>1, <3>2
        <4>3. /\ postgres'.store = "postgres"
              /\ postgres'.tables = postgres.tables
          BY <2>1, <4>1 DEF Unmoved
        <4> QED
          BY <2>1, <4>1, <4>2, <4>3, UnmovedKeeps
      <3> QED
        BY <2>2, <3>1, <3>2 DEF SidesStep
    <2>5. restarts' \in Nat
      BY <2>2 DEF SidesStep
    <2> QED
      BY <2>2, <2>3, <2>4, <2>5 DEF SystemInvariant, SystemOK
  <1> QED
    BY <1>1, <1>2

\* The inductive invariant holds in every state, so each conjunct does.
THEOREM InvariantHolds == Spec => []SystemInvariant
  <1>1. Init => SystemInvariant
    BY InvariantInit
  <1>2. SystemInvariant /\ [Next]_vars => SystemInvariant'
    BY InvariantNext
  <1> QED
    BY <1>1, <1>2, PTL DEF Spec
-----------------------------------------------------------------------------
(***************************************************************************)
(* The properties.                                                         *)
(***************************************************************************)

\* The evaluation rows of a review never disagree in more than when they were
\* created: the insert that meets no conflict (postgres.go, replaceEvaluation)
\* adds rows, but the update that follows it gives every row the same values,
\* for any requests and restarts.
THEOREM RowsAgree == Spec => []EvaluationRowsAgree
  <1>1. SystemInvariant => EvaluationRowsAgree
    BY DEF SystemInvariant, EvaluationsOK, EvaluationRowsAgree
  <1> QED
    BY <1>1, InvariantHolds, PTL

\* Every review in Postgres has a task, and its state is the review's status,
\* although the upsert of a task never changes the review it belongs to: no two
\* reviews ever save under one task, whatever numbers a restarted process draws.
THEOREM TaskFollows == Spec => []TaskFollowsReview
  <1>1. ASSUME SystemInvariant
        PROVE  TaskFollowsReview
    <2> DEFINE db == postgres.tables
    <2>1. /\ TablesOK(db)
          /\ Stored(postgres) = DOMAIN db.reviews
      BY <1>1 DEF SystemInvariant, SystemOK, SideOK, Stored
    <2>2. ASSUME NEW id \in DOMAIN db.reviews
          PROVE  LET task == TaskOf(db, id)
                 IN  /\ task # NoTask
                     /\ db.tasks[task].state = db.reviews[id].status
      <3>1. TasksOK(db)
        BY <2>1 DEF TablesOK
      <3>2. /\ TaskOf(db, id) \in DOMAIN db.tasks
            /\ db.tasks[TaskOf(db, id)].review = id
            /\ TaskOf(db, id) # NoTask
        BY <3>1, OnlyTask
      <3> QED
        BY <3>1, <3>2 DEF TasksOK
    <2> QED
      BY <2>1, <2>2 DEF TaskFollowsReview
  <1> QED
    BY <1>1, InvariantHolds, PTL

\* No two reviews of a deployment ever share a task, a piece of evidence or a
\* signal: in memory since the counter only grows, in Postgres since the tables
\* refuse the numbers a restarted counter gives out again.
THEOREM IdentifiersStayUnique == Spec => []IdentifiersUnique
  <1>1. ASSUME SystemInvariant
        PROVE  IdentifiersUnique
    <2>1. ASSUME NEW side, SideOK(side), Disjoint(side),
                 NEW a \in List(side), NEW b \in List(side), a.id # b.id
          PROVE  Apart(a, b)
      <3>1. PICK i \in Stored(side), j \in Stored(side) :
              a = Load(side, i) /\ b = Load(side, j)
        BY DEF List
      <3>2. a.id = i /\ b.id = j
        BY <2>1, <3>1, LoadedIsWhole
      <3> QED
        BY <2>1, <3>1, <3>2 DEF Disjoint
    <2>2. /\ SideOK(memory) /\ Disjoint(memory)
          /\ SideOK(postgres) /\ Disjoint(postgres)
      BY <1>1 DEF SystemInvariant, SystemOK
    <2> QED
      BY <2>1, <2>2 DEF IdentifiersUnique, Apart
  <1> QED
    BY <1>1, InvariantHolds, PTL

LEMMA TargetIsLoaded ==
    ASSUME NEW side, SideOK(side), NEW id \in Stored(side)
    PROVE  Targets(side)[id] = Load(side, id).recommendation.version
  <1>1. CASE side.store = "memory"
    BY <1>1 DEF Targets, Stored, Load
  <1>2. CASE side.store = "postgres"
    <2> DEFINE db == side.tables
    <2>1. /\ TablesOK(db)
          /\ id \in DOMAIN db.reviews
          /\ Load(side, id) = Get(db, id)
          /\ Targets(side) = [i \in DOMAIN db.recommendations |->
                                db.recommendations[i].version]
      BY <1>2 DEF SideOK, Stored, Load, Targets
    <2>2. Get(db, id).recommendation = db.recommendations[id]
      <3>1. IsWritten(Written(db, id), db, id)
        BY WrittenFields
      <3> QED
        BY <3>1 DEF IsWritten, SameFields, FieldNames
    <2>3. id \in DOMAIN db.recommendations
      BY <2>1 DEF TablesOK
    <2> QED
      BY <2>1, <2>2, <2>3
  <1> QED
    BY <1>1, <1>2 DEF SideOK

\* Once a rollback plan names the version to restore, no request changes it, in
\* either store: a decision and an evaluation carry the plan along, a retry takes
\* the version from the stored request or, for a review without one, from the
\* plan before it clears it, and no create takes a stored review's number.
THEOREM RollbackTargetStays == Spec => RollbackTargetKept
  <1> DEFINE Lasting(side, out) ==
        \A id \in Stored(side) : Targets(side)[id] # Empty =>
          Targets(out)[id] = Targets(side)[id]
  <1>1. ASSUME NEW side, NEW out, SideOK(side), SideOK(out),
               VersionKept(side, out)
        PROVE  Lasting(side, out)
    BY <1>1, TargetIsLoaded DEF VersionKept
  <1>2. ASSUME SystemInvariant, Next, restarts = 0
        PROVE  Lasting(memory, memory') /\ Lasting(postgres, postgres')
    <2>1. /\ ClockOK
          /\ SideOK(memory) /\ SideOK(postgres)
          /\ Numbered(memory) /\ Numbered(postgres)
          /\ BaseOK(memory) /\ BaseOK(postgres)
      BY <1>2 DEF SystemInvariant, SystemOK
    <2>2. SidesStep
      BY <1>2, ServeSteps DEF SystemInvariant
    <2>3. SideOK(memory') /\ VersionKept(memory, memory')
      BY <2>1, <2>2, StepKeepsSide, VersionsKept DEF SidesStep
    <2>4. SideOK(postgres') /\ VersionKept(postgres, postgres')
      <3>1. CASE Step(postgres, postgres')
        BY <2>1, <3>1, StepKeepsSide, VersionsKept
      <3>2. CASE Restarted(postgres')
        BY <2>1, <3>2, RestartUnmoved, UnmovedKeeps
      <3> QED
        BY <2>2, <3>1, <3>2 DEF SidesStep
    <2> HIDE DEF Lasting
    <2> QED
      BY <1>1, <2>1, <2>3, <2>4
  <1> DEFINE TargetsLast ==
        restarts = 0 =>
         /\ \A id \in Stored(memory) : Targets(memory)[id] # Empty =>
              Targets(memory)'[id] = Targets(memory)[id]
         /\ \A id \in Stored(postgres) : Targets(postgres)[id] # Empty =>
              Targets(postgres)'[id] = Targets(postgres)[id]
  <1>3. ASSUME SystemInvariant, [Next]_vars
        PROVE  [TargetsLast]_vars
    <2>1. CASE UNCHANGED vars
      BY <2>1
    <2>2. CASE Next
      <3>1. Targets(memory)' = Targets(memory')
            /\ Targets(postgres)' = Targets(postgres')
        BY DEF Targets
      <3>2. TargetsLast
        BY <1>2, <1>3, <2>2, <3>1
      <3> QED
        BY <3>2
    <2> QED
      BY <1>3, <2>1, <2>2
  <1>4. [][TargetsLast]_vars => RollbackTargetKept
    BY DEF RollbackTargetKept
  <1> QED
    BY <1>3, <1>4, InvariantHolds, PTL DEF Spec
-----------------------------------------------------------------------------
(***************************************************************************)
(* Keys.                                                                   *)
(***************************************************************************)

\* No two reviews of a deployment have one key.
KeysUnique(side) ==
    \A a, b \in Stored(side) :
      Load(side, a).key # Empty /\ Load(side, a).key = Load(side, b).key
        => a = b

\* A lookup finds what is stored.
FindOK(side) ==
    \A key : key # Empty =>
      Find(side, key) = {id \in Stored(side) : Load(side, id).key = key}

KeysKept(side, out) ==
    \A id \in Stored(side) :
      id \in Stored(out) /\ Load(out, id).key = Load(side, id).key

\* Postgres looks a key up in the rows it reads.
LEMMA TablesFind ==
    ASSUME NEW side, SideOK(side), side.store = "postgres"
    PROVE  FindOK(side)
  <1> DEFINE db == side.tables
  <1>1. Stored(side) = DOMAIN db.reviews
    BY DEF Stored
  <1>2. \A id : Load(side, id).key = db.reviews[id].key
    BY DEF Load, Get
  <1>3. \A key : Find(side, key) = {id \in DOMAIN db.reviews :
                                      db.reviews[id].key = key}
    BY DEF Find, FindByDedupeKey
  <1> HIDE DEF db
  <1> QED
    BY <1>1, <1>2, <1>3 DEF FindOK

\* A record is written with its own key, or with one no review has.
LEMMA KeyFree ==
    ASSUME ClockOK, NEW side, SideOK(side), KeysUnique(side), FindOK(side),
           NEW rec, NEW n, Writes(side, rec, n), rec.key # Empty,
           NEW id \in Stored(side) \ {rec.id}
    PROVE  Load(side, id).key # rec.key
  <1>1. CASE Annotates(side, rec) \/ Renews(side, rec, n)
    <2>1. /\ rec.id \in Stored(side)
          /\ rec.key = Load(side, rec.id).key
      BY <1>1, AnnotatedFields, RenewedFields
    <2> QED
      BY <2>1 DEF KeysUnique
  <1>2. CASE CreatesFor(side, rec, n)
    <2>1. Find(side, rec.key) = {}
      BY <1>2, CreatesFacts
    <2> QED
      BY <2>1 DEF FindOK
  <1> QED
    BY <1>1, <1>2, WritesFacts

LEMMA UniqueKept ==
    ASSUME ClockOK, NEW side, SideOK(side), NEW out, Step(side, out),
           KeysUnique(side), FindOK(side)
    PROVE  KeysUnique(out)
  <1>1. CASE Unmoved(side, out)
    BY <1>1 DEF Unmoved, KeysUnique
  <1>2. ASSUME NEW rec, Wrote(side, out, rec)
        PROVE  KeysUnique(out)
    <2>1. /\ Writes(side, rec, out.counter)
          /\ Stored(out) = Stored(side) \cup {rec.id}
          /\ \A id \in Stored(side) \ {rec.id} : Load(out, id) = Load(side, id)
      BY <1>2 DEF Wrote, Keeps
    <2>2. Load(out, rec.id).key = rec.key
      BY <1>2, WroteFields
    <2>3. rec.key # Empty =>
            \A id \in Stored(side) \ {rec.id} : Load(side, id).key # rec.key
      BY <2>1, KeyFree
    <2> QED
      BY <2>1, <2>2, <2>3 DEF KeysUnique
  <1> QED
    BY <1>1, <1>2, StepShape

\* A create has a number no stored review has, and nothing else writes a key.
LEMMA KeyStays ==
    ASSUME ClockOK, NEW side, SideOK(side), Numbered(side),
           NEW rec, NEW n, Writes(side, rec, n)
    PROVE  rec.id \in Stored(side) => rec.key = Load(side, rec.id).key
  <1>1. CASE Annotates(side, rec) \/ Renews(side, rec, n)
    BY <1>1, AnnotatedFields, RenewedFields
  <1>2. CASE CreatesFor(side, rec, n)
    <2>1. rec.id = side.counter + 1
      BY <1>2, CreatesFacts
    <2> QED
      BY <2>1, NumberTypes DEF Numbered
  <1> QED
    BY <1>1, <1>2, WritesFacts

LEMMA KeysStay ==
    ASSUME ClockOK, NEW side, SideOK(side), NEW out, Step(side, out),
           Numbered(side)
    PROVE  KeysKept(side, out)
  <1>1. CASE Unmoved(side, out)
    BY <1>1 DEF Unmoved, KeysKept
  <1>2. ASSUME NEW rec, Wrote(side, out, rec)
        PROVE  KeysKept(side, out)
    <2>1. /\ Writes(side, rec, out.counter)
          /\ Stored(out) = Stored(side) \cup {rec.id}
          /\ \A id \in Stored(side) \ {rec.id} : Load(out, id) = Load(side, id)
      BY <1>2 DEF Wrote, Keeps
    <2>2. Load(out, rec.id).key = rec.key
      BY <1>2, WroteFields
    <2>3. rec.id \in Stored(side) => rec.key = Load(side, rec.id).key
      BY <2>1, KeyStays
    <2> QED
      BY <2>1, <2>2, <2>3 DEF KeysKept
  <1> QED
    BY <1>1, <1>2, StepShape

LEMMA FindKept ==
    ASSUME ClockOK, NEW side, SideOK(side), NEW out, Step(side, out),
           Numbered(side), KeysUnique(side), FindOK(side)
    PROVE  FindOK(out)
  <1>0. SideOK(out) /\ out.store = side.store
    BY StepShape
  <1>1. CASE side.store = "postgres"
    BY <1>0, <1>1, TablesFind
  <1>2. CASE side.store = "memory" /\ Unmoved(side, out)
    <2>1. /\ out.store = "memory" /\ out.index = side.index
          /\ Stored(out) = Stored(side)
          /\ \A id : Load(out, id) = Load(side, id)
      BY <1>2 DEF Unmoved
    <2>2. \A key : Find(out, key) = Find(side, key)
      BY <1>2, <2>1 DEF Find
    <2> QED
      BY <2>1, <2>2 DEF FindOK
  <1>3. ASSUME NEW rec, Wrote(side, out, rec), side.store = "memory"
        PROVE  FindOK(out)
    <2>1. /\ Writes(side, rec, out.counter)
          /\ Stored(out) = Stored(side) \cup {rec.id}
          /\ \A id \in Stored(side) \ {rec.id} : Load(out, id) = Load(side, id)
          /\ Load(out, rec.id) = rec
          /\ out.index = IF rec.key = Empty THEN side.index
                         ELSE Put(side.index, rec.key, rec.id)
      BY <1>3 DEF Wrote, Keeps
    <2>2. rec.key # Empty =>
            \A id \in Stored(side) \ {rec.id} : Load(side, id).key # rec.key
      BY <2>1, KeyFree
    <2>3. rec.id \in Stored(side) => rec.key = Load(side, rec.id).key
      BY <2>1, KeyStays
    <2>4. \A key : Find(out, key) =
                     {out.index[k] : k \in {key} \cap DOMAIN out.index}
      BY <1>0, <1>3 DEF Find
    <2>5. \A key : Find(side, key) =
                     {side.index[k] : k \in {key} \cap DOMAIN side.index}
      BY <1>3 DEF Find
    <2> SUFFICES ASSUME NEW key, key # Empty
                 PROVE  Find(out, key) =
                          {id \in Stored(out) : Load(out, id).key = key}
      BY DEF FindOK
    <2>6. CASE key = rec.key
      <3>1. key \in DOMAIN out.index /\ out.index[key] = rec.id
        BY <2>1, <2>6 DEF Put
      <3>2. Find(out, key) = {rec.id}
        BY <2>4, <3>1
      <3>3. {id \in Stored(out) : Load(out, id).key = key} = {rec.id}
        BY <2>1, <2>2, <2>6
      <3> QED
        BY <3>2, <3>3
    <2>7. CASE key # rec.key
      <3>1. /\ key \in DOMAIN out.index <=> key \in DOMAIN side.index
            /\ key \in DOMAIN side.index => out.index[key] = side.index[key]
        BY <2>1, <2>7 DEF Put
      <3>2. Find(out, key) = Find(side, key)
        BY <2>4, <2>5, <3>1
      <3>3. {id \in Stored(out) : Load(out, id).key = key} =
            {id \in Stored(side) : Load(side, id).key = key}
        BY <2>1, <2>3, <2>7
      <3> QED
        BY <3>2, <3>3 DEF FindOK
    <2> QED
      BY <2>6, <2>7
  <1> QED
    BY <1>1, <1>2, <1>3, StepShape DEF SideOK

(***************************************************************************)
(* The answer to a create names a review with the key of its request.      *)
(***************************************************************************)
Held(side, id, req) ==
    id \in Stored(side) /\ Load(side, id).key = dedupeKeyFor(req)

LEMMA CommitAnswers ==
    ASSUME ClockOK, NEW side, SideOK(side), NEW rec, NEW n,
           Writes(side, rec, n)
    PROVE  LET done == Commit([side EXCEPT !.counter = n], rec)
           IN  done.answer.code = "accepted" =>
                 /\ done.answer.id = rec.id
                 /\ Keeps(side, done.side, rec, n)
  <1> DEFINE drawn == [side EXCEPT !.counter = n]
             done == Commit(drawn, rec)
  <1>1. \/ SaveResult(drawn, rec) = "ok"
        \/ SaveResult(drawn, rec) = "conflict"
        \/ SaveResult(drawn, rec) = "error"
    BY DEF SaveResult, SaveAnswer
  <1> HIDE DEF drawn
  <1>2. CASE SaveResult(drawn, rec) = "ok"
    <2>1. done = Answer(Saved(drawn, rec), "accepted", rec.id)
      BY <1>2 DEF Commit
    <2>2. Keeps(side, Saved(drawn, rec), rec, n)
      BY SavedKeeps DEF drawn
    <2> QED
      BY <2>1, <2>2 DEF Answer, drawn
  <1>3. CASE SaveResult(drawn, rec) # "ok"
    <2>1. done.answer.code # "accepted"
      BY <1>1, <1>3 DEF Commit, Answer
    <2> QED
      BY <2>1 DEF drawn
  <1> QED
    BY <1>2, <1>3

LEMMA CreateAnswers ==
    ASSUME ClockOK, NEW side, SideOK(side), FindOK(side),
           NEW req \in ReviewRequests, dedupeKeyFor(req) # Empty,
           CreateReview(side, req, clock).answer.code = "accepted"
    PROVE  Held(CreateReview(side, req, clock).side,
                CreateReview(side, req, clock).answer.id, req)
  <1> DEFINE key == dedupeKeyFor(req)
             existing == Find(side, key)
             rec == CreatedDraft(req, side.counter, clock)
             n == side.counter + 2 + Drawn(req)
             done == CreateReview(side, req, clock)
             found == CHOOSE id \in existing : TRUE
  <1>1. done = IF existing # {} THEN Answer(side, "accepted", found)
               ELSE Commit([side EXCEPT !.counter = n], rec)
    BY DEF CreateReview, CreatedDraft
  <1>2. existing = {} => Writes(side, rec, n)
    BY DEF Writes, CreatesFor
  <1>3. rec.key = key
    <2>1. CreatedFrom(rec, req, side.counter, clock)
      BY CreatedFields DEF ClockOK, SideOK
    <2> HIDE DEF rec
    <2> QED
      BY <2>1 DEF CreatedFrom
  <1>4. existing = {id \in Stored(side) : Load(side, id).key = key}
    BY DEF FindOK
  <1> HIDE DEF existing, rec, n, key
  <1>5. CASE existing # {}
    <2>1. found \in existing
      BY <1>5
    <2>2. done.side = side /\ done.answer.id = found
      BY <1>1, <1>5 DEF Answer
    <2> QED
      BY <1>4, <2>1, <2>2 DEF Held, key
  <1>6. CASE existing = {}
    <2>1. /\ done.answer.id = rec.id
          /\ Keeps(side, done.side, rec, n)
      BY <1>1, <1>2, <1>6, CommitAnswers
    <2> HIDE DEF done
    <2>2. /\ rec.id \in Stored(done.side)
          /\ Load(done.side, rec.id).key = rec.key
      BY <2>1 DEF Keeps, SameFields, FieldNames
    <2>3. Held(done.side, done.answer.id, req)
      BY <1>3, <2>1, <2>2 DEF Held, key
    <2> QED
      BY <2>3 DEF done
  <1> QED
    BY <1>5, <1>6
-----------------------------------------------------------------------------
(***************************************************************************)
(* What two creates have in common.                                        *)
(***************************************************************************)

\* The texts keys are made of hold none of the marks that join them.
PlainRequests ==
    /\ \A req \in Creates :
         IF req.key = Empty THEN Plain(req) ELSE ColonFree(req.key)
    /\ \A delivery \in Delivered :
         Outcome(delivery) = "create" =>
           Deliverable(delivery.event) /\ Unmarked(delivery.event.number)
    /\ \A p \in Pieces : LowerCase[p] = "#" <=> p = "#"

\* Where a create came from.
Asked(create) ==
    \/ /\ create.origin = "api"
       /\ create.request \in Creates
       /\ create.request.change # Empty
       /\ create.request.environment # Empty
    \/ /\ create.origin = "webhook"
       /\ \E delivery \in Delivered :
            /\ Outcome(delivery) = "create"
            /\ create.request = ReviewRequest(delivery.event)

OwnKeyed(create) ==
    /\ create.origin = "api"
    /\ create.request.key \in Text
    /\ create.request.key # Empty
    /\ ColonFree(create.request.key)

Computed(create) ==
    /\ create.origin = "api"
    /\ Keyless(create.request)
    /\ Plain(create.request)

\* The request of an event, with the environment of its branch.
Hooks(req, event, environment) ==
    /\ Deliverable(event) /\ Unmarked(event.number)
    /\ environment \in Text
    /\ req.source = <<"pull_request">>
    /\ req.change = Change(event.repo, event.number)
    /\ req.head = event.sha
    /\ req.environment = environment
    /\ req.key = WebhookKey(event, environment)
    /\ req.key \in Text
    /\ ~ColonFree(req.key)
    /\ req.key # Empty

Hooked(create) ==
    /\ create.origin = "webhook"
    /\ \E event, environment : Hooks(create.request, event, environment)

\* The key of a delivery is joined text.
LEMMA WebhookKeyJoined ==
    ASSUME NEW event \in PullRequestEvents
    PROVE  LET req == ReviewRequest(event)
           IN  /\ req.key \in Text
               /\ ~ColonFree(req.key)
               /\ req.key # Empty
               /\ req.environment \in Text
  <1> DEFINE environment == inferEnvironmentFromBaseRef(event.base)
             number == <<"pr-">> \o event.number
             tail == Join4(event.repo, number, event.sha, environment)
             joined == Join2(<<"github">>, tail)
  <1>1. /\ event.repo \in Text /\ event.number \in Text /\ event.sha \in Text
    BY DEF PullRequestEvents
  <1>2. /\ <<"github">> \in Text /\ <<"pr-">> \in Text
        /\ <<"prod">> \in Text /\ <<"staging">> \in Text
        /\ <<"unknown">> \in Text
    BY LiteralsAssumption DEF Text
  <1>3. environment \in Text
    BY <1>2 DEF inferEnvironmentFromBaseRef
  <1>4. number \in Text
    BY <1>1, <1>2, Concatenation
  <1> HIDE DEF environment, number
  <1>5. tail \in Text
    BY <1>1, <1>3, <1>4, LowerFour
  <1>6. WebhookKey(event, environment) = Lower(joined)
    BY DEF WebhookKey, Join5, number
  <1> HIDE DEF tail
  <1>7. joined \in Text /\ ~ColonFree(joined)
    BY <1>2, <1>5, JoinType, JoinedHoldsColon
  <1> HIDE DEF joined
  <1>8. Lower(joined) \in Text /\ ~ColonFree(Lower(joined))
    BY <1>7, LowerType
  <1>9. ColonFree(Empty)
    BY DEF ColonFree, Empty
  <1>10. /\ ReviewRequest(event).key = WebhookKey(event, environment)
         /\ ReviewRequest(event).environment = environment
    BY DEF ReviewRequest, environment
  <1> QED
    BY <1>3, <1>6, <1>8, <1>9, <1>10

\* Every create has a key.
LEMMA AskedKey ==
    ASSUME NEW create, Asked(create)
    PROVE  /\ create.request \in ReviewRequests
           /\ dedupeKeyFor(create.request) # Empty
  <1> DEFINE req == create.request
  <1>1. CASE create.origin = "api"
    <2>1. /\ req \in ReviewRequests
          /\ req.change # Empty
          /\ req.environment # Empty
      BY <1>1, SystemAssumption DEF Asked
    <2>2. /\ req.source \in Text /\ req.change \in Text /\ req.head \in Text
          /\ req.environment \in Text /\ req.key \in Text
      BY <2>1 DEF ReviewRequests
    <2> HIDE DEF req
    <2>3. CASE req.key # Empty
      BY <2>1, <2>3 DEF dedupeKeyFor, req
    <2>4. CASE req.key = Empty
      <3>1. Keyless(req)
        BY <2>1, <2>2, <2>4 DEF Keyless
      <3>2. dedupeKeyFor(req) =
              Join4(Lower(req.source), Lower(req.change), Lower(req.head),
                    Lower(req.environment))
        BY <3>1, ComputedKey
      <3>3. /\ Lower(req.source) \in Text /\ Lower(req.change) \in Text
            /\ Lower(req.head) \in Text /\ Lower(req.environment) \in Text
        BY <2>2, LowerType
      <3>4. Join2(Lower(req.change),
                  Join2(Lower(req.head), Lower(req.environment))) \in Text
        BY <3>3, JoinType
      <3>5. dedupeKeyFor(req) # Empty
        BY <3>2, <3>3, <3>4, JoinedHoldsColon DEF Join4
      <3> QED
        BY <2>1, <3>5 DEF req
    <2> QED
      BY <2>3, <2>4
  <1>2. CASE create.origin = "webhook"
    <2>1. PICK delivery \in Delivered : req = ReviewRequest(delivery.event)
      BY <1>2 DEF Asked
    <2>2. req \in ReviewRequests
      BY <2>1, WebhookRequestType
    <2>3. delivery.event \in PullRequestEvents
      BY SystemAssumption DEF Deliveries
    <2>4. req.key # Empty
      BY <2>1, <2>3, WebhookKeyJoined
    <2> HIDE DEF req
    <2> QED
      BY <2>2, <2>4 DEF dedupeKeyFor, req
  <1> QED
    BY <1>1, <1>2 DEF Asked

LEMMA AskedKinds ==
    ASSUME PlainRequests, NEW create, Asked(create)
    PROVE  OwnKeyed(create) \/ Computed(create) \/ Hooked(create)
  <1> DEFINE req == create.request
  <1>1. CASE create.origin = "api"
    <2>1. /\ req \in Creates
          /\ req \in ReviewRequests
          /\ req.change # Empty
          /\ req.environment # Empty
      BY <1>1, SystemAssumption DEF Asked
    <2>2. /\ req.source \in Text /\ req.change \in Text /\ req.head \in Text
          /\ req.environment \in Text /\ req.key \in Text
      BY <2>1 DEF ReviewRequests
    <2>3. IF req.key = Empty THEN Plain(req) ELSE ColonFree(req.key)
      BY <2>1 DEF PlainRequests
    <2> QED
      BY <1>1, <2>1, <2>2, <2>3 DEF OwnKeyed, Computed, Keyless
  <1>2. CASE create.origin = "webhook"
    <2>1. PICK delivery \in Delivered :
            /\ Outcome(delivery) = "create"
            /\ req = ReviewRequest(delivery.event)
      BY <1>2 DEF Asked
    <2> DEFINE event == delivery.event
               environment == inferEnvironmentFromBaseRef(event.base)
    <2>2. event \in PullRequestEvents
      BY SystemAssumption DEF Deliveries
    <2>3. Deliverable(event) /\ Unmarked(event.number)
      BY <2>1 DEF PlainRequests
    <2>4. /\ req.key \in Text /\ ~ColonFree(req.key) /\ req.key # Empty
          /\ req.environment \in Text
      BY <2>1, <2>2, WebhookKeyJoined
    <2>5. /\ req.source = <<"pull_request">>
          /\ req.change = Change(event.repo, event.number)
          /\ req.head = event.sha
          /\ req.environment = environment
          /\ req.key = WebhookKey(event, environment)
      <3>1. ReviewRequest(event) =
              [source |-> <<"pull_request">>,
               change |-> Change(event.repo, event.number),
               head |-> event.sha, base |-> event.baseSha,
               environment |-> environment,
               key |-> WebhookKey(event, environment), names |-> event.names,
               content |-> event.title, contexts |-> 1]
        BY DEF ReviewRequest, Change
      <3> HIDE DEF event, environment
      <3>2. req = ReviewRequest(event)
        BY <2>1 DEF event
      <3> HIDE DEF req
      <3> QED
        BY <3>1, <3>2
    <2> HIDE DEF req, event, environment
    <2>6. Hooks(req, event, environment)
      BY <2>3, <2>4, <2>5 DEF Hooks
    <2> QED
      BY <1>2, <2>6 DEF Hooked, req
  <1> QED
    BY <1>1, <1>2 DEF Asked

\* The key of each kind of create.
LEMMA ComputedHoldsColon ==
    ASSUME NEW req, Keyless(req)
    PROVE  ~ColonFree(dedupeKeyFor(req))
  <1>1. /\ req.source \in Text /\ req.change \in Text /\ req.head \in Text
        /\ req.environment \in Text
    BY DEF Keyless
  <1>2. dedupeKeyFor(req) =
          Join4(Lower(req.source), Lower(req.change), Lower(req.head),
                Lower(req.environment))
    BY ComputedKey
  <1>3. /\ Lower(req.source) \in Text /\ Lower(req.change) \in Text
        /\ Lower(req.head) \in Text /\ Lower(req.environment) \in Text
    BY <1>1, LowerType
  <1>4. Join2(Lower(req.change),
              Join2(Lower(req.head), Lower(req.environment))) \in Text
    BY <1>3, JoinType
  <1> QED
    BY <1>2, <1>3, <1>4, JoinedHoldsColon DEF Join4

\* Two deliveries have one key exactly when they are for one head of one pull
\* request and one environment.
LEMMA HookedTogether ==
    ASSUME \A p \in Pieces : LowerCase[p] = "#" <=> p = "#",
           NEW r, NEW one, NEW here, Hooks(r, one, here),
           NEW s, NEW other, NEW there, Hooks(s, other, there)
    PROVE  r.key = s.key <=> /\ Lower(r.change) = Lower(s.change)
                             /\ Lower(r.head) = Lower(s.head)
                             /\ Lower(r.environment) = Lower(s.environment)
  <1>1. /\ Deliverable(one) /\ Unmarked(one.number) /\ here \in Text
        /\ r.change = Change(one.repo, one.number)
        /\ r.head = one.sha /\ r.environment = here
        /\ r.key = WebhookKey(one, here)
    BY DEF Hooks
  <1>2. /\ Deliverable(other) /\ Unmarked(other.number) /\ there \in Text
        /\ s.change = Change(other.repo, other.number)
        /\ s.head = other.sha /\ s.environment = there
        /\ s.key = WebhookKey(other, there)
    BY DEF Hooks
  <1>3. /\ one.repo \in Text /\ one.number \in Text /\ one.sha \in Text
        /\ other.repo \in Text /\ other.number \in Text /\ other.sha \in Text
    BY <1>1, <1>2 DEF Deliverable
  <1>4. /\ "#" \in Pieces /\ "github" \in Pieces /\ "pr-" \in Pieces
        /\ LowerCase["#"] = "#"
        /\ <<"pr-">> \in Text
    BY LiteralsAssumption DEF Text
  <1>5. /\ Lower(<<"pr-">> \o one.number) = Lower(<<"pr-">>) \o Lower(one.number)
        /\ Lower(<<"pr-">> \o other.number) =
             Lower(<<"pr-">>) \o Lower(other.number)
        /\ Lower(<<"pr-">>) \in Text
        /\ Lower(one.number) \in Text /\ Lower(other.number) \in Text
        /\ Lower(one.repo) \in Text /\ Lower(other.repo) \in Text
    BY <1>3, <1>4, LowerConcatenation, LowerType
  <1>6. /\ Lower(r.change) = Change(Lower(one.repo), Lower(one.number))
        /\ Lower(s.change) = Change(Lower(other.repo), Lower(other.number))
    BY <1>1, <1>2, <1>3, <1>4, LowerChange
  <1>7. ASSUME NEW text \in Text, Unmarked(text)
        PROVE  Unmarked(Lower(text))
    <2>1. /\ DOMAIN Lower(text) = 1 .. Len(text)
          /\ \A i \in 1 .. Len(text) : Lower(text)[i] = LowerCase[text[i]]
      BY LowerType
    <2>2. /\ DOMAIN text = 1 .. Len(text)
          /\ \A i \in 1 .. Len(text) : text[i] \in Pieces
      BY LenProperties DEF Text
    <2> QED
      BY <1>7, <2>1, <2>2 DEF Unmarked
  <1>8. Unmarked(Lower(one.number)) /\ Unmarked(Lower(other.number))
    BY <1>1, <1>2, <1>3, <1>7
  <1>9. Lower(r.change) = Lower(s.change) <=>
          /\ Lower(one.repo) = Lower(other.repo)
          /\ Lower(one.number) = Lower(other.number)
    BY <1>4, <1>5, <1>6, <1>8, ChangeInjective
  <1>10. ASSUME r.key = s.key
         PROVE  /\ Lower(r.change) = Lower(s.change)
                /\ Lower(r.head) = Lower(s.head)
                /\ Lower(r.environment) = Lower(s.environment)
    <2>1. /\ Lower(one.repo) = Lower(other.repo)
          /\ Lower(<<"pr-">> \o one.number) = Lower(<<"pr-">> \o other.number)
          /\ Lower(one.sha) = Lower(other.sha)
          /\ Lower(here) = Lower(there)
      <3>1. WebhookKey(one, here) = WebhookKey(other, there)
        BY <1>1, <1>2, <1>10
      <3>2. /\ Deliverable(one) /\ here \in Text
            /\ Deliverable(other) /\ there \in Text
            /\ "github" \in Pieces /\ "pr-" \in Pieces
        BY <1>1, <1>2, <1>4
      <3> QED
        BY <3>1, <3>2, WebhookKeysTellApart
    <2>2. Lower(one.number) = Lower(other.number)
      BY <1>5, <2>1, Cancelled
    <2> QED
      BY <1>1, <1>2, <1>9, <2>1, <2>2
  <1>11. ASSUME /\ Lower(r.change) = Lower(s.change)
                /\ Lower(r.head) = Lower(s.head)
                /\ Lower(r.environment) = Lower(s.environment)
         PROVE  r.key = s.key
    <2>1. /\ Lower(one.repo) = Lower(other.repo)
          /\ Lower(<<"pr-">> \o one.number) = Lower(<<"pr-">> \o other.number)
          /\ Lower(one.sha) = Lower(other.sha)
          /\ Lower(here) = Lower(there)
      BY <1>1, <1>2, <1>5, <1>9, <1>11
    <2>2. WebhookKey(one, here) =
            Join5(Lower(<<"github">>), Lower(one.repo),
                  Lower(<<"pr-">> \o one.number), Lower(one.sha), Lower(here))
      BY <1>1, <1>4, WebhookFields
    <2>3. WebhookKey(other, there) =
            Join5(Lower(<<"github">>), Lower(other.repo),
                  Lower(<<"pr-">> \o other.number), Lower(other.sha),
                  Lower(there))
      BY <1>2, <1>4, WebhookFields
    <2> QED
      BY <1>1, <1>2, <2>1, <2>2, <2>3
  <1> QED
    BY <1>10, <1>11

\* Two requests without a key of their own have one key exactly when they are
\* for one head of one change and one environment.
LEMMA ComputedTogether ==
    ASSUME NEW r, NEW s, Keyless(r), Keyless(s), Plain(r), Plain(s)
    PROVE  dedupeKeyFor(r) = dedupeKeyFor(s) <=>
             /\ Lower(r.source) = Lower(s.source)
             /\ Lower(r.change) = Lower(s.change)
             /\ Lower(r.head) = Lower(s.head)
             /\ Lower(r.environment) = Lower(s.environment)
  <1>1. /\ dedupeKeyFor(r) = Join4(Lower(r.source), Lower(r.change),
                                   Lower(r.head), Lower(r.environment))
        /\ dedupeKeyFor(s) = Join4(Lower(s.source), Lower(s.change),
                                   Lower(s.head), Lower(s.environment))
    BY ComputedKey
  <1> QED
    BY <1>1, ComputedKeysTellApart

SameReview(a, b) ==
    Identity(a) = Identity(b) <=>
      dedupeKeyFor(a.request) = dedupeKeyFor(b.request)

LEMMA KindsKeys ==
    ASSUME NEW create
    PROVE  /\ OwnKeyed(create) =>
                /\ Identity(create) = <<"key", create.request.key>>
                /\ dedupeKeyFor(create.request) = create.request.key
           /\ Computed(create) =>
                Identity(create) = <<"api", Lower(create.request.source),
                                     Lower(create.request.change),
                                     Lower(create.request.head),
                                     Lower(create.request.environment)>>
           /\ Hooked(create) =>
                /\ Identity(create) = <<"webhook", Lower(create.request.source),
                                        Lower(create.request.change),
                                        Lower(create.request.head),
                                        Lower(create.request.environment)>>
                /\ dedupeKeyFor(create.request) = create.request.key
                /\ ~ColonFree(create.request.key)
                /\ create.request.source = <<"pull_request">>
  BY DEF OwnKeyed, Computed, Hooked, Hooks, Keyless, Identity, dedupeKeyFor

LEMMA KeysTellReviews ==
    ASSUME PlainRequests, NEW a, NEW b, Asked(a), Asked(b)
    PROVE  SameReview(a, b)
  <1> DEFINE r == a.request
             s == b.request
             Fields(kind, req) == <<kind, Lower(req.source), Lower(req.change),
                                    Lower(req.head), Lower(req.environment)>>
  <1>1. /\ OwnKeyed(a) \/ Computed(a) \/ Hooked(a)
        /\ OwnKeyed(b) \/ Computed(b) \/ Hooked(b)
    BY AskedKinds
  <1>2. /\ \A p \in Pieces : LowerCase[p] = "#" <=> p = "#"
        /\ "github" \in Pieces /\ "pr-" \in Pieces
    BY LiteralsAssumption DEF PlainRequests
  <1>3. ASSUME NEW key, NEW kind \in {"api", "webhook"}, NEW req
        PROVE  <<"key", key>> # Fields(kind, req)
    <2>1. <<"key", key>>[1] = "key" /\ Fields(kind, req)[1] = kind
      OBVIOUS
    <2> QED
      BY <2>1
  <1>4. ASSUME NEW req, NEW other
        PROVE  Fields("api", req) # Fields("webhook", other)
    <2>1. /\ Fields("api", req)[1] = "api"
          /\ Fields("webhook", other)[1] = "webhook"
      OBVIOUS
    <2> QED
      BY <2>1
  <1>5. ASSUME NEW kind, NEW req, NEW other
        PROVE  Fields(kind, req) = Fields(kind, other) <=>
                 /\ Lower(req.source) = Lower(other.source)
                 /\ Lower(req.change) = Lower(other.change)
                 /\ Lower(req.head) = Lower(other.head)
                 /\ Lower(req.environment) = Lower(other.environment)
    OBVIOUS
  <1>6. ASSUME NEW c, OwnKeyed(c)
        PROVE  /\ Identity(c) = <<"key", c.request.key>>
               /\ dedupeKeyFor(c.request) = c.request.key
               /\ ColonFree(c.request.key)
    BY <1>6, KindsKeys DEF OwnKeyed
  <1>7. ASSUME NEW c, Computed(c)
        PROVE  /\ Identity(c) = Fields("api", c.request)
               /\ Keyless(c.request) /\ Plain(c.request)
               /\ ~ColonFree(dedupeKeyFor(c.request))
    BY <1>7, KindsKeys, ComputedHoldsColon DEF Computed
  <1>8. ASSUME NEW c, Hooked(c)
        PROVE  /\ Identity(c) = Fields("webhook", c.request)
               /\ dedupeKeyFor(c.request) = c.request.key
               /\ ~ColonFree(dedupeKeyFor(c.request))
               /\ c.request.source = <<"pull_request">>
    BY <1>8, KindsKeys
  <1> HIDE DEF Fields
  <1>9. CASE OwnKeyed(a) /\ OwnKeyed(b)
    <2>1. \A k, l : <<"key", k>> = <<"key", l>> <=> k = l
      OBVIOUS
    <2> QED
      BY <1>6, <1>9, <2>1 DEF SameReview
  <1>10. CASE OwnKeyed(a) /\ (Computed(b) \/ Hooked(b))
    BY <1>3, <1>6, <1>7, <1>8, <1>10 DEF SameReview
  <1>11. CASE (Computed(a) \/ Hooked(a)) /\ OwnKeyed(b)
    BY <1>3, <1>6, <1>7, <1>8, <1>11 DEF SameReview
  <1>12. CASE Computed(a) /\ Computed(b)
    BY <1>5, <1>7, <1>12, ComputedTogether DEF SameReview
  <1>13. ASSUME NEW c, NEW d, Computed(c), Hooked(d)
         PROVE  dedupeKeyFor(c.request) # dedupeKeyFor(d.request)
    <2>1. PICK event, environment : Hooks(d.request, event, environment)
      BY <1>13 DEF Hooked
    <2>2. /\ Deliverable(event) /\ environment \in Text
          /\ d.request.key = WebhookKey(event, environment)
      BY <2>1 DEF Hooks
    <2>3. Keyless(c.request) /\ Plain(c.request)
      BY <1>7, <1>13
    <2> QED
      BY <1>2, <1>8, <1>13, <2>2, <2>3, WebhookKeysApartFromComputed
  <1>14. CASE \/ Computed(a) /\ Hooked(b)
              \/ Hooked(a) /\ Computed(b)
    BY <1>4, <1>7, <1>8, <1>13, <1>14 DEF SameReview
  <1>15. CASE Hooked(a) /\ Hooked(b)
    <2>1. PICK one, here : Hooks(r, one, here)
      BY <1>15 DEF Hooked
    <2>2. PICK other, there : Hooks(s, other, there)
      BY <1>15 DEF Hooked
    <2>3. r.key = s.key <=> /\ Lower(r.change) = Lower(s.change)
                            /\ Lower(r.head) = Lower(s.head)
                            /\ Lower(r.environment) = Lower(s.environment)
      BY <1>2, <2>1, <2>2, HookedTogether
    <2>4. r.source = s.source
      BY <1>8, <1>15
    <2>5. /\ Identity(a) = Fields("webhook", r)
          /\ Identity(b) = Fields("webhook", s)
          /\ dedupeKeyFor(r) = r.key /\ dedupeKeyFor(s) = s.key
      BY <1>8, <1>15
    <2> HIDE DEF r, s
    <2>6. Fields("webhook", r) = Fields("webhook", s) <=> r.key = s.key
      BY <1>5, <2>3, <2>4
    <2> QED
      BY <2>5, <2>6 DEF SameReview, r, s
  <1> QED
    BY <1>1, <1>9, <1>10, <1>11, <1>12, <1>14, <1>15
-----------------------------------------------------------------------------
(***************************************************************************)
(* The creates that were accepted.  After a restart a create may take the  *)
(* number of a stored review, and with it the review's place.              *)
(***************************************************************************)
CreatedOK ==
    \A create \in created :
      /\ Asked(create)
      /\ Held(memory, create.ids["memory"], create.request)
      /\ Held(postgres, create.ids["postgres"], create.request)

CreatesInvariant ==
    /\ SystemInvariant
    /\ DOMAIN answers = {"memory", "postgres"}
    /\ KeysUnique(memory) /\ KeysUnique(postgres)
    /\ FindOK(memory)
    /\ restarts = 0 => CreatedOK

\* Both deployments accepted a create.
Accepted(create) ==
    LET m == CreateReview(memory, create.request, clock)
        p == CreateReview(postgres, create.request, clock)
    IN  /\ Asked(create)
        /\ memory' = m.side /\ postgres' = p.side
        /\ m.answer.code = "accepted" /\ p.answer.code = "accepted"
        /\ create.ids["memory"] = m.answer.id
        /\ create.ids["postgres"] = p.answer.id

LEMMA CreateRemembers ==
    ASSUME DOMAIN answers = {"memory", "postgres"}, NEW origin, NEW req,
           Create(origin, req),
           \A create : create.origin = origin /\ create.request = req
                         => Asked(create)
    PROVE  /\ \A create \in created' : create \in created \/ Accepted(create)
           /\ DOMAIN answers' = {"memory", "postgres"}
  <1> DEFINE m == CreateReview(memory, req, clock)
             p == CreateReview(postgres, req, clock)
             new == [origin |-> origin, request |-> req,
                     ids |-> [store \in DOMAIN answers |->
                                answers'[store].id]]
  <1>1. /\ memory' = m.side /\ postgres' = p.side
        /\ answers' = [memory |-> m.answer, postgres |-> p.answer]
    BY DEF Create, Serve
  <1>2. created' = IF \A store \in DOMAIN answers :
                        answers'[store].code = "accepted"
                     THEN created \cup {new} ELSE created
    BY DEF Create
  <1>3. /\ new.origin = origin /\ new.request = req
        /\ new.ids["memory"] = answers'["memory"].id
        /\ new.ids["postgres"] = answers'["postgres"].id
    OBVIOUS
  <1>4. /\ answers'["memory"] = m.answer
        /\ answers'["postgres"] = p.answer
        /\ DOMAIN answers' = {"memory", "postgres"}
    <2> HIDE DEF m, p
    <2> QED
      BY <1>1
  <1>5. Asked(new)
    BY <1>3
  <1> HIDE DEF new
  <1>6. (\A store \in DOMAIN answers : answers'[store].code = "accepted")
          => Accepted(new)
    <2> SUFFICES ASSUME \A store \in {"memory", "postgres"} :
                          answers'[store].code = "accepted"
                 PROVE  Accepted(new)
      OBVIOUS
    <2>1. m.answer.code = "accepted" /\ p.answer.code = "accepted"
      BY <1>4
    <2>2. /\ m = CreateReview(memory, new.request, clock)
          /\ p = CreateReview(postgres, new.request, clock)
      BY <1>3
    <2> HIDE DEF m, p
    <2> QED
      BY <1>1, <1>3, <1>4, <1>5, <2>1, <2>2 DEF Accepted
  <1> QED
    BY <1>2, <1>4, <1>6

LEMMA NextRemembers ==
    ASSUME DOMAIN answers = {"memory", "postgres"}, Next
    PROVE  /\ \A create \in created' : create \in created \/ Accepted(create)
           /\ DOMAIN answers' = {"memory", "postgres"}
  <1> DEFINE Goal ==
               /\ \A create \in created' :
                    create \in created \/ Accepted(create)
               /\ DOMAIN answers' = {"memory", "postgres"}
  <1>1. ASSUME NEW code, Turn(code)
        PROVE  Goal
    BY <1>1 DEF Turn, Serve
  <1>2. CASE Deliver
    <2>1. PICK delivery \in Delivered :
            IF Outcome(delivery) = "create"
              THEN Create("webhook", ReviewRequest(delivery.event))
              ELSE Turn(Outcome(delivery))
      BY <1>2 DEF Deliver
    <2>2. CASE Outcome(delivery) = "create"
      <3>1. \A create :
              create.origin = "webhook"
                /\ create.request = ReviewRequest(delivery.event)
                => Asked(create)
        BY <2>2 DEF Asked
      <3> QED
        BY <2>1, <2>2, <3>1, CreateRemembers
    <2> QED
      BY <1>1, <2>1, <2>2
  <1>3. CASE PostReview
    <2>1. PICK req \in Creates :
            IF req.source = Empty \/ req.change = Empty
                 \/ req.environment = Empty
              THEN Turn("bad_request") ELSE Create("api", req)
      BY <1>3 DEF PostReview
    <2>2. CASE ~(req.source = Empty \/ req.change = Empty
                   \/ req.environment = Empty)
      <3>1. \A create : create.origin = "api" /\ create.request = req
                          => Asked(create)
        BY <2>2 DEF Asked
      <3> QED
        BY <2>1, <2>2, <3>1, CreateRemembers
    <2> QED
      BY <1>1, <2>1, <2>2
  <1>4. CASE PostDecision \/ PostEvaluation \/ PostRetry
    BY <1>4 DEF PostDecision, PostEvaluation, PostRetry, Serve
  <1>5. CASE Restart \/ StepBack
    BY <1>5 DEF Restart, StepBack
  <1> QED
    BY <1>2, <1>3, <1>4, <1>5 DEF Next

LEMMA HeldKept ==
    ASSUME NEW side, NEW out, KeysKept(side, out), NEW id, NEW req,
           Held(side, id, req)
    PROVE  Held(out, id, req)
  BY DEF KeysKept, Held

\* The index of a memory store that starts with an old review has its key.
LEMMA FreshFind == Init => FindOK(memory)
  <1> SUFFICES ASSUME Init PROVE FindOK(memory)
    OBVIOUS
  <1>1. PICK seeded \in {{}} \cup {{seed} : seed \in Seeds} :
          memory = [store   |-> "memory",
                    records |-> [id \in {rec.id : rec \in seeded} |->
                                   CHOOSE rec \in seeded : rec.id = id],
                    index   |-> [k \in {rec.key : rec \in seeded} \ {Empty} |->
                                   CHOOSE id \in {rec.id : rec \in seeded} :
                                     TRUE],
                    counter |-> 0]
    BY DEF Init
  <1> DEFINE ids == {rec.id : rec \in seeded}
             keys == {rec.key : rec \in seeded} \ {Empty}
             records == [id \in ids |-> CHOOSE rec \in seeded : rec.id = id]
             index == [k \in keys |-> CHOOSE id \in ids : TRUE]
  <1>2. memory = [store |-> "memory", records |-> records,
                  index |-> index, counter |-> 0]
    BY <1>1
  <1>3. /\ DOMAIN index = keys /\ DOMAIN records = ids
        /\ \A k \in keys : index[k] = CHOOSE id \in ids : TRUE
        /\ \A id \in ids : records[id] = CHOOSE rec \in seeded : rec.id = id
    OBVIOUS
  <1> HIDE DEF records, index
  <1>4. /\ memory.store = "memory"
        /\ memory.records = records /\ memory.index = index
    BY <1>2
  <1>5. /\ Stored(memory) = ids
        /\ \A id : Load(memory, id) = records[id]
        /\ \A key : Find(memory, key) = {index[k] : k \in {key} \cap keys}
    BY <1>3, <1>4 DEF Stored, Load, Find
  <1>6. CASE seeded = {}
    <2>1. ids = {} /\ keys = {}
      BY <1>6
    <2> HIDE DEF ids, keys
    <2> QED
      BY <1>5, <2>1 DEF FindOK
  <1>7. ASSUME NEW seed \in Seeds, seeded = {seed}
        PROVE  FindOK(memory)
    <2>1. ids = {seed.id} /\ keys = {seed.key} \ {Empty}
      BY <1>7
    <2>2. /\ records[seed.id] = seed
          /\ \A k \in keys : index[k] = seed.id
      BY <1>3, <1>7, <2>1
    <2> HIDE DEF ids, keys
    <2> SUFFICES ASSUME NEW key, key # Empty
                 PROVE  Find(memory, key) =
                          {id \in Stored(memory) : Load(memory, id).key = key}
      BY DEF FindOK
    <2>3. CASE key = seed.key
      BY <1>5, <2>1, <2>2, <2>3
    <2>4. CASE key # seed.key
      BY <1>5, <2>1, <2>2, <2>4
    <2> QED
      BY <2>3, <2>4
  <1>8. seeded = {} \/ \E seed \in Seeds : seeded = {seed}
    OBVIOUS
  <1> QED
    BY <1>6, <1>7, <1>8

LEMMA CreatesInit == Init => CreatesInvariant
  <1> SUFFICES ASSUME Init PROVE CreatesInvariant
    OBVIOUS
  <1>1. /\ DOMAIN answers = {"memory", "postgres"}
        /\ CreatedOK
    BY DEF Init, CreatedOK
  <1>2. SystemInvariant
    BY InvariantInit
  <1>3. PICK held : /\ held = {} \/ \E seed \in Seeds : held = {seed}
                    /\ Fresh(memory, held) /\ Fresh(postgres, held)
    BY InitFresh
  <1>4. ASSUME NEW side, Fresh(side, held)
        PROVE  KeysUnique(side)
    <2>1. \A a, b \in Stored(side) : a = b
      BY <1>3, <1>4 DEF Fresh
    <2> QED
      BY <2>1 DEF KeysUnique
  <1>5. FindOK(memory)
    BY FreshFind
  <1> QED
    BY <1>1, <1>2, <1>3, <1>4, <1>5 DEF CreatesInvariant

LEMMA CreatesNext ==
    ASSUME CreatesInvariant, [Next]_vars
    PROVE  CreatesInvariant'
  <1>1. CASE UNCHANGED vars
    <2>1. SystemInvariant'
      BY InvariantNext DEF CreatesInvariant
    <2>2. /\ memory' = memory /\ postgres' = postgres
          /\ restarts' = restarts /\ created' = created /\ answers' = answers
      BY <1>1 DEF vars
    <2>3. CreatedOK' <=> CreatedOK
      BY <2>2 DEF CreatedOK
    <2> QED
      BY <2>1, <2>2, <2>3 DEF CreatesInvariant
  <1>2. CASE Next
    <2>1. /\ ClockOK /\ restarts \in Nat
          /\ SideOK(memory) /\ SideOK(postgres)
          /\ postgres.store = "postgres"
          /\ Numbered(memory) /\ (restarts = 0 => Numbered(postgres))
          /\ KeysUnique(memory) /\ KeysUnique(postgres)
          /\ FindOK(memory) /\ FindOK(postgres)
          /\ DOMAIN answers = {"memory", "postgres"}
          /\ restarts = 0 => CreatedOK
      BY TablesFind DEF CreatesInvariant, SystemInvariant, SystemOK
    <2>2. SidesStep
      BY <1>2, ServeSteps DEF CreatesInvariant, SystemInvariant
    <2>3. SystemInvariant'
      BY InvariantNext DEF CreatesInvariant
    <2>4. KeysUnique(memory') /\ FindOK(memory')
      BY <2>1, <2>2, UniqueKept, FindKept DEF SidesStep
    <2>5. KeysUnique(postgres')
      <3>1. CASE Step(postgres, postgres')
        BY <2>1, <3>1, UniqueKept
      <3>2. CASE Restarted(postgres')
        <4>1. Unmoved(postgres, postgres')
          BY <2>1, <3>2, RestartUnmoved
        <4> QED
          BY <2>1, <4>1 DEF Unmoved, KeysUnique
      <3> QED
        BY <2>2, <3>1, <3>2 DEF SidesStep
    <2>6. /\ \A create \in created' : create \in created \/ Accepted(create)
          /\ DOMAIN answers' = {"memory", "postgres"}
      BY <1>2, <2>1, NextRemembers
    <2>7. ASSUME restarts' = 0
          PROVE  CreatedOK'
      <3>1. /\ restarts = 0
            /\ Step(memory, memory') /\ Step(postgres, postgres')
        BY <2>1, <2>2, <2>7 DEF SidesStep
      <3>2. KeysKept(memory, memory') /\ KeysKept(postgres, postgres')
        BY <2>1, <3>1, KeysStay
      <3>3. ASSUME NEW create \in created'
            PROVE  /\ Asked(create)
                   /\ Held(memory', create.ids["memory"], create.request)
                   /\ Held(postgres', create.ids["postgres"], create.request)
        <4>1. CASE create \in created
          BY <2>1, <3>1, <3>2, <4>1, HeldKept DEF CreatedOK
        <4>2. CASE Accepted(create)
          <5> DEFINE req == create.request
                     m == CreateReview(memory, req, clock)
                     p == CreateReview(postgres, req, clock)
          <5>1. /\ Asked(create)
                /\ memory' = m.side /\ postgres' = p.side
                /\ m.answer.code = "accepted" /\ p.answer.code = "accepted"
                /\ create.ids["memory"] = m.answer.id
                /\ create.ids["postgres"] = p.answer.id
            BY <4>2 DEF Accepted
          <5>2. req \in ReviewRequests /\ dedupeKeyFor(req) # Empty
            BY <5>1, AskedKey
          <5>3. Held(m.side, m.answer.id, req)
            BY <2>1, <5>1, <5>2, CreateAnswers
          <5>4. Held(p.side, p.answer.id, req)
            BY <2>1, <5>1, <5>2, CreateAnswers
          <5> HIDE DEF m, p
          <5> QED
            BY <5>1, <5>3, <5>4
        <4> QED
          BY <2>6, <4>1, <4>2
      <3>4. \A create : Asked(create)' <=> Asked(create)
        BY DEF Asked
      <3> QED
        BY <3>3, <3>4 DEF CreatedOK
    <2> QED
      BY <2>3, <2>4, <2>5, <2>6, <2>7 DEF CreatesInvariant
  <1> QED
    BY <1>1, <1>2

\* Until a restart, and as long as the texts keys are made of hold none of the
\* marks that join them, each head of a pull request has one review for an
\* environment, however often and in whatever order its events are delivered and
\* clients repeat their requests, and no two heads, nor a head and a request of
\* the API, share a review, in either store (dedupeKeyFor).
THEOREM OneReviewForEachHead ==
    ASSUME PlainRequests
    PROVE  Spec => []OneReviewPerHead
  <1>1. ASSUME CreatesInvariant
        PROVE  OneReviewPerHead
    <2> SUFFICES ASSUME restarts = 0, NEW a \in created, NEW b \in created,
                        NEW store \in DOMAIN answers
                 PROVE  Identity(a) = Identity(b) <=>
                          a.ids[store] = b.ids[store]
      BY DEF OneReviewPerHead
    <2>1. /\ CreatedOK
          /\ KeysUnique(memory) /\ KeysUnique(postgres)
          /\ store \in {"memory", "postgres"}
      BY <1>1 DEF CreatesInvariant
    <2>2. SameReview(a, b)
      BY <2>1, KeysTellReviews DEF CreatedOK
    <2>3. dedupeKeyFor(a.request) # Empty
      BY <2>1, AskedKey DEF CreatedOK
    <2>4. ASSUME NEW side, KeysUnique(side), NEW i, NEW j,
                 Held(side, i, a.request), Held(side, j, b.request)
          PROVE  dedupeKeyFor(a.request) = dedupeKeyFor(b.request) <=> i = j
      BY <2>3, <2>4 DEF Held, KeysUnique
    <2>5. dedupeKeyFor(a.request) = dedupeKeyFor(b.request) <=>
            a.ids[store] = b.ids[store]
      BY <2>1, <2>4 DEF CreatedOK
    <2> QED
      BY <2>2, <2>5 DEF SameReview
  <1>2. Init => CreatesInvariant
    BY CreatesInit
  <1>3. CreatesInvariant /\ [Next]_vars => CreatesInvariant'
    BY CreatesNext
  <1> QED
    BY <1>1, <1>2, <1>3, PTL DEF Spec

(***************************************************************************)
(* The two deployments side by side.                                       *)
(***************************************************************************)

\* Two deployments that hold the same reviews and count alike.
Agree(m, p, sure, now) ==
    /\ Stored(m) = Stored(p)
    /\ m.counter = p.counter
    /\ \A id \in Stored(m) : Same(Load(m, id), Load(p, id), sure, now)

\* No column is too narrow for what is stored.
Narrow(side) == \A id \in Stored(side) : ~TooWide(Load(side, id))

LEMMA EquallyWide ==
    ASSUME NEW a, NEW b,
           a.change = b.change, a.key = b.key, a.source = b.source,
           a.environment = b.environment
    PROVE  TooWide(a) <=> TooWide(b)
  BY WidthAssumption DEF TooWide

\* A deployment in which whatever is numbered was drawn and found by its key.
Sound(side) ==
    /\ SideOK(side)
    /\ Numbered(side)
    /\ Disjoint(side)
    /\ KeysUnique(side)
    /\ FindOK(side)

\* Until a restart the tables refuse nothing their columns can hold: keys are
\* free at a create, and numbers are new or the review's own.
LEMMA NothingRefused ==
    ASSUME ClockOK, NEW side, Sound(side), NEW rec, NEW n,
           Writes(side, rec, n), ~TooWide(rec)
    PROVE  SaveResult(side, rec) = "ok"
  <1>1. CASE side.store = "memory"
    BY <1>1 DEF SaveResult
  <1>2. CASE side.store = "postgres"
    <2> DEFINE db == side.tables
    <2>1. TablesOK(db) /\ Stored(side) = DOMAIN db.reviews
      BY <1>2 DEF Sound, SideOK, Stored
    <2>2. \A id : /\ Load(side, id).key = db.reviews[id].key
                  /\ Load(side, id).evidence = db.evidence[id]
                  /\ Load(side, id).signals = db.signals[id]
      BY <1>2 DEF Load, Get
    <2>3. ~DedupeConflict(db, rec)
      <3>1. rec.key # Empty =>
              \A id \in Stored(side) \ {rec.id} : Load(side, id).key # rec.key
        BY KeyFree DEF Sound
      <3> HIDE DEF db
      <3> QED
        BY <2>1, <2>2, <3>1 DEF DedupeConflict, Empty
    <2>4. \A id \in Stored(side) \ {rec.id} : Apart(Load(side, id), rec)
      BY FreshInMemory DEF Sound
    <2>5. /\ ~Clashes(db.evidence, rec.id, rec.evidence.numbers)
          /\ ~Clashes(db.signals, rec.id, rec.signals.numbers)
      <3>1. DOMAIN db.evidence = Stored(side) /\ DOMAIN db.signals = Stored(side)
        BY <2>1 DEF TablesOK
      <3> HIDE DEF db
      <3> QED
        BY <2>2, <2>4, <3>1 DEF Clashes, Apart
    <2> HIDE DEF db
    <2>6. SaveAnswer(db, rec) = "ok"
      BY <2>3, <2>5 DEF SaveAnswer
    <2> QED
      BY <1>2, <2>6 DEF SaveResult, db
  <1> QED
    BY <1>1, <1>2 DEF Sound, SideOK

\* What an operation writes under an identifier in use has that review's
\* creation time and texts.
LEMMA WrittenStays ==
    ASSUME ClockOK, NEW side, Sound(side), NEW rec, NEW n,
           Writes(side, rec, n), rec.id \in Stored(side)
    PROVE  /\ rec.created = Load(side, rec.id).created
           /\ rec.change = Load(side, rec.id).change
           /\ rec.key = Load(side, rec.id).key
           /\ rec.source = Load(side, rec.id).source
           /\ rec.environment = Load(side, rec.id).environment
  <1>1. CASE Annotates(side, rec) \/ Renews(side, rec, n)
    <2>1. SameFields(rec, Load(side, rec.id), IdentityNames)
      BY <1>1 DEF Annotates, Renews, Revises
    <2> QED
      BY <2>1 DEF SameFields, IdentityNames
  <1>2. CASE CreatesFor(side, rec, n)
    <2>1. rec.id = side.counter + 1
      BY <1>2, CreatesFacts DEF Sound
    <2> QED
      BY <2>1, NumberTypes DEF Numbered, Sound
  <1> QED
    BY <1>1, <1>2, WritesFacts DEF Sound

LEMMA WroteIsRead ==
    ASSUME ClockOK, NEW side, Sound(side), NEW rec, NEW n,
           Writes(side, rec, n)
    PROVE  LET out == Saved([side EXCEPT !.counter = n], rec)
           IN  /\ Keeps(side, out, rec, n)
               /\ ReadFrom(Load(out, rec.id), rec)
  <1> DEFINE out == Saved([side EXCEPT !.counter = n], rec)
  <1>1. Keeps(side, out, rec, n)
    BY SavedKeeps DEF Sound
  <1> HIDE DEF out
  <1>2. CASE side.store = "memory"
    <2>1. Load(out, rec.id) = rec
      BY <1>1, <1>2 DEF Keeps
    <2> QED
      BY <1>1, <2>1 DEF ReadFrom, SameFields, SameRows, out
  <1>3. CASE side.store = "postgres"
    <2> DEFINE db == side.tables
    <2>1. /\ TablesOK(db) /\ Savable(db, rec)
          /\ Stored(side) = DOMAIN db.reviews
          /\ \A id : Load(side, id).created = db.reviews[id].created
      BY <1>1, <1>3 DEF Sound, SideOK, Keeps, Stored, Load, Get
    <2>2. Load(out, rec.id) = Get(SaveRows(db, rec), rec.id)
      BY <1>1, <1>3 DEF Keeps, Load
    <2>3. rec.id \in DOMAIN db.reviews => rec.created = db.reviews[rec.id].created
      BY <2>1, WrittenStays
    <2> HIDE DEF db
    <2>4. ReadFrom(Get(SaveRows(db, rec), rec.id), rec)
      BY <2>1, <2>3, SaveIsReadBack
    <2> QED
      BY <1>1, <2>2, <2>4 DEF out
  <1> QED
    BY <1>2, <1>3 DEF Sound, SideOK

\* A review never changes its texts, so that once one is stored that the columns
\* cannot hold the deployments stay apart.
LEMMA NarrowBefore ==
    ASSUME ClockOK, NEW side, Sound(side), NEW out, Step(side, out), Narrow(out)
    PROVE  Narrow(side)
  <1>1. CASE Unmoved(side, out)
    BY <1>1 DEF Unmoved, Narrow
  <1>2. ASSUME NEW rec, Wrote(side, out, rec)
        PROVE  Narrow(side)
    <2>1. /\ Writes(side, rec, out.counter)
          /\ Stored(out) = Stored(side) \cup {rec.id}
          /\ \A id \in Stored(side) \ {rec.id} : Load(out, id) = Load(side, id)
      BY <1>2 DEF Wrote, Keeps
    <2>2. TooWide(Load(out, rec.id)) <=> TooWide(rec)
      BY <1>2, WroteFields, EquallyWide
    <2>3. rec.id \in Stored(side) =>
            (TooWide(rec) <=> TooWide(Load(side, rec.id)))
      BY <2>1, WrittenStays, EquallyWide
    <2> QED
      BY <2>1, <2>2, <2>3 DEF Narrow
  <1> QED
    BY <1>1, <1>2, StepShape DEF Sound
-----------------------------------------------------------------------------
\* What a request makes of the two deployments.
Together(mo, po) ==
    /\ mo.answer = po.answer
    /\ Agree(mo.side, po.side, steady, clock)

Ready(m, p) ==
    /\ ClockOK /\ steady \in BOOLEAN
    /\ Sound(m) /\ m.store = "memory"
    /\ Sound(p) /\ p.store = "postgres"
    /\ Agree(m, p, steady, clock)

LEMMA CommitsTogether ==
    ASSUME NEW m, NEW p, Ready(m, p), NEW x, NEW y, NEW n,
           Writes(m, x, n), Writes(p, y, n), Same(x, y, steady, clock),
           Narrow(Commit([m EXCEPT !.counter = n], x).side)
    PROVE  Together(Commit([m EXCEPT !.counter = n], x),
                    Commit([p EXCEPT !.counter = n], y))
  <1> DEFINE md == [m EXCEPT !.counter = n]
             pd == [p EXCEPT !.counter = n]
             mo == Saved(md, x)
             po == Saved(pd, y)
  <1>1. /\ ClockOK /\ steady \in BOOLEAN /\ clock \in Int
        /\ Sound(m) /\ m.store = "memory"
        /\ Sound(p) /\ p.store = "postgres"
        /\ SideOK(m) /\ SideOK(p)
        /\ Agree(m, p, steady, clock)
    BY DEF Ready, Sound, ClockOK
  <1>2. n \in Nat
    BY <1>1, WritesFacts
  <1>3. /\ md.store = "memory" /\ pd.store = "postgres"
        /\ pd.tables = p.tables
    BY <1>1, <1>2, CounterDrawn
  <1>4. Keeps(m, mo, x, n) /\ ReadFrom(Load(mo, x.id), x)
    BY <1>1, WroteIsRead
  <1>5. Keeps(p, po, y, n) /\ ReadFrom(Load(po, y.id), y)
    BY <1>1, WroteIsRead
  <1>6. x.id = y.id /\ (TooWide(x) <=> TooWide(y))
    BY SameParts, EquallyWide DEF Same
  <1>7. Commit(md, x) = Answer(mo, "accepted", x.id)
    <2>1. SaveResult(md, x) = "ok"
      BY <1>3 DEF SaveResult
    <2> QED
      BY <2>1 DEF Commit
  <1> HIDE DEF md, pd, mo, po
  <1>8. ~TooWide(y)
    <2>1. Narrow(mo)
      BY <1>7 DEF Answer, md
    <2>2. x.id \in Stored(mo) /\ Load(mo, x.id) = x
      BY <1>1, <1>4 DEF Keeps
    <2> QED
      BY <1>6, <2>1, <2>2 DEF Narrow
  <1>9. Commit(pd, y) = Answer(po, "accepted", y.id)
    <2>1. SaveResult(p, y) = "ok"
      BY <1>1, <1>8, NothingRefused
    <2>2. SaveResult(pd, y) = "ok"
      BY <1>1, <1>3, <2>1 DEF SaveResult
    <2> QED
      BY <2>2 DEF Commit, po
  <1>10. Agree(mo, po, steady, clock)
    <2>1. /\ Stored(mo) = Stored(m) \cup {x.id} /\ mo.counter = n
          /\ Stored(po) = Stored(p) \cup {y.id} /\ po.counter = n
          /\ \A id \in Stored(m) \ {x.id} : Load(mo, id) = Load(m, id)
          /\ \A id \in Stored(p) \ {y.id} : Load(po, id) = Load(p, id)
          /\ Load(mo, x.id) = x
      BY <1>1, <1>4, <1>5 DEF Keeps
    <2>2. Same(Load(mo, x.id), Load(po, x.id), steady, clock)
      BY <1>1, <1>5, <1>6, <2>1, ReadAlike
    <2> QED
      BY <1>1, <1>6, <2>1, <2>2 DEF Agree
  <1>11. Together(Commit(md, x), Commit(pd, y))
    BY <1>6, <1>7, <1>9, <1>10 DEF Together, Answer
  <1> QED
    BY <1>11 DEF md, pd

\* A request that is refused at once, or answered with what is stored.
LEMMA AnswersTogether ==
    ASSUME NEW m, NEW p, Ready(m, p), NEW code, NEW id
    PROVE  Together(Answer(m, code, id), Answer(p, code, id))
  BY DEF Ready, Together, Answer

\* The two load the same.
LEMMA LoadedAlike ==
    ASSUME NEW m, NEW p, Ready(m, p), NEW id \in Stored(m)
    PROVE  /\ id \in Stored(p)
           /\ Whole(Load(m, id)) /\ Whole(Load(p, id))
           /\ Same(Load(m, id), Load(p, id), steady, clock)
           /\ Load(m, id).status = Load(p, id).status
           /\ RequestFromRecord(Load(m, id)) = RequestFromRecord(Load(p, id))
  <1>1. /\ id \in Stored(p)
        /\ Same(Load(m, id), Load(p, id), steady, clock)
    BY DEF Ready, Agree
  <1>2. Whole(Load(m, id)) /\ Whole(Load(p, id))
    BY <1>1, LoadedIsWhole DEF Ready, Sound
  <1> QED
    BY <1>1, <1>2, SameParts DEF Same

LEMMA CreatesTogether ==
    ASSUME NEW m, NEW p, Ready(m, p), NEW req \in ReviewRequests,
           Narrow(CreateReview(m, req, clock).side)
    PROVE  Together(CreateReview(m, req, clock), CreateReview(p, req, clock))
  <1> DEFINE key == dedupeKeyFor(req)
             found == IF key = Empty THEN {} ELSE Find(m, key)
             rec == CreatedDraft(req, m.counter, clock)
             n == m.counter + 2 + Drawn(req)
  <1>1. Find(m, key) = Find(p, key) \/ key = Empty
    <2> SUFFICES ASSUME key # Empty PROVE Find(m, key) = Find(p, key)
      OBVIOUS
    <2>1. /\ Find(m, key) = {id \in Stored(m) : Load(m, id).key = key}
          /\ Find(p, key) = {id \in Stored(p) : Load(p, id).key = key}
      BY DEF Ready, Sound, FindOK
    <2>2. /\ Stored(m) = Stored(p)
          /\ \A id \in Stored(m) : Load(m, id).key = Load(p, id).key
      <3>1. \A id \in Stored(m) :
              SameFields(Load(m, id), Load(p, id), PlainNames)
        BY DEF Ready, Agree, Same
      <3>2. \A id \in Stored(m) : Load(m, id).key = Load(p, id).key
        BY <3>1 DEF SameFields, PlainNames, FieldNames
      <3> QED
        BY <3>2 DEF Ready, Agree
    <2> QED
      BY <2>1, <2>2
  <1>2. m.counter = p.counter /\ m.counter \in Nat /\ clock \in Int
    BY DEF Ready, Agree, Sound, SideOK, ClockOK
  <1>3. /\ CreateReview(m, req, clock) =
             IF found # {}
               THEN Answer(m, "accepted", CHOOSE id \in found : TRUE)
               ELSE Commit([m EXCEPT !.counter = n], rec)
        /\ CreateReview(p, req, clock) =
             IF found # {}
               THEN Answer(p, "accepted", CHOOSE id \in found : TRUE)
               ELSE Commit([p EXCEPT !.counter = n], rec)
    <2>1. CreateReview(m, req, clock) =
            IF found # {}
              THEN Answer(m, "accepted", CHOOSE id \in found : TRUE)
              ELSE Commit([m EXCEPT !.counter = n], rec)
      BY DEF CreateReview, CreatedDraft
    <2> DEFINE other == IF key = Empty THEN {} ELSE Find(p, key)
    <2>2. CreateReview(p, req, clock) =
            IF other # {}
              THEN Answer(p, "accepted", CHOOSE id \in other : TRUE)
              ELSE Commit([p EXCEPT !.counter = p.counter + 2 + Drawn(req)],
                          CreatedDraft(req, p.counter, clock))
      BY DEF CreateReview, CreatedDraft
    <2>3. other = found
      BY <1>1
    <2> HIDE DEF other, found
    <2> QED
      BY <1>2, <2>1, <2>2, <2>3
  <1>4. CASE found # {}
    BY <1>3, <1>4, AnswersTogether
  <1>5. CASE found = {}
    <2>1. key = Empty \/ Find(m, key) = {}
      BY <1>5
    <2>2. Writes(m, rec, n) /\ Writes(p, rec, n)
      BY <1>1, <1>2, <2>1 DEF Writes, CreatesFor
    <2>3. Same(rec, rec, steady, clock)
      BY <1>2, CreatedAlike DEF Ready
    <2> HIDE DEF found, rec, n
    <2> QED
      BY <1>3, <1>5, <2>2, <2>3, CommitsTogether
  <1> QED
    BY <1>4, <1>5

LEMMA DecisionsTogether ==
    ASSUME NEW m, NEW p, Ready(m, p), NEW id, NEW verdict,
           Narrow(SubmitHumanDecision(m, id, verdict, clock).side)
    PROVE  Together(SubmitHumanDecision(m, id, verdict, clock),
                    SubmitHumanDecision(p, id, verdict, clock))
  <1> DEFINE x == DecidedDraft(Load(m, id), verdict, served + 1, clock)
             y == DecidedDraft(Load(p, id), verdict, served + 1, clock)
  <1>1. /\ SubmitHumanDecision(m, id, verdict, clock) =
             IF id \notin Stored(m) THEN Answer(m, "not_found", Unknown)
             ELSE IF verdict \notin Verdicts
               THEN Answer(m, "internal_error", Unknown)
             ELSE Commit(m, x)
        /\ SubmitHumanDecision(p, id, verdict, clock) =
             IF id \notin Stored(p) THEN Answer(p, "not_found", Unknown)
             ELSE IF verdict \notin Verdicts
               THEN Answer(p, "internal_error", Unknown)
             ELSE Commit(p, y)
    BY DEF SubmitHumanDecision, DecidedDraft
  <1>2. Stored(m) = Stored(p)
    BY DEF Ready, Agree
  <1>3. CASE id \in Stored(m) /\ verdict \in Verdicts
    <2>1. Writes(m, x, m.counter) /\ Writes(p, y, p.counter)
      BY <1>2, <1>3 DEF Writes, Decides
    <2>2. Same(x, y, steady, clock)
      BY <1>3, LoadedAlike, DecidedAlike DEF Ready, ClockOK
    <2>3. /\ [m EXCEPT !.counter = m.counter] = m
          /\ [p EXCEPT !.counter = m.counter] = p
          /\ m.counter = p.counter
      BY NoDrawing DEF Ready, Sound, Agree
    <2> HIDE DEF x, y
    <2>4. Together(Commit([m EXCEPT !.counter = m.counter], x),
                   Commit([p EXCEPT !.counter = m.counter], y))
      BY <1>1, <1>3, <2>1, <2>2, <2>3, CommitsTogether
    <2> QED
      BY <1>1, <1>2, <1>3, <2>3, <2>4
  <1>4. CASE ~(id \in Stored(m) /\ verdict \in Verdicts)
    BY <1>1, <1>2, <1>4, AnswersTogether
  <1> QED
    BY <1>3, <1>4

LEMMA EvaluationsTogether ==
    ASSUME NEW m, NEW p, Ready(m, p), NEW id, NEW update \in Updates,
           Narrow(UpdateEvaluation(m, id, update, clock).side)
    PROVE  Together(UpdateEvaluation(m, id, update, clock),
                    UpdateEvaluation(p, id, update, clock))
  <1> DEFINE x == EvaluatedDraft(Load(m, id), update, clock)
             y == EvaluatedDraft(Load(p, id), update, clock)
  <1>1. /\ UpdateEvaluation(m, id, update, clock) =
             IF id \notin Stored(m) THEN Answer(m, "not_found", Unknown)
             ELSE Commit(m, x)
        /\ UpdateEvaluation(p, id, update, clock) =
             IF id \notin Stored(p) THEN Answer(p, "not_found", Unknown)
             ELSE Commit(p, y)
    BY DEF UpdateEvaluation, EvaluatedDraft
  <1>2. Stored(m) = Stored(p)
    BY DEF Ready, Agree
  <1>3. CASE id \in Stored(m)
    <2>1. Writes(m, x, m.counter) /\ Writes(p, y, p.counter)
      BY <1>2, <1>3 DEF Writes, Evaluates
    <2>2. Same(x, y, steady, clock)
      BY <1>3, LoadedAlike, EvaluatedAlike DEF Ready, ClockOK
    <2>3. /\ [m EXCEPT !.counter = m.counter] = m
          /\ [p EXCEPT !.counter = m.counter] = p
          /\ m.counter = p.counter
      BY NoDrawing DEF Ready, Sound, Agree
    <2> HIDE DEF x, y
    <2>4. Together(Commit([m EXCEPT !.counter = m.counter], x),
                   Commit([p EXCEPT !.counter = m.counter], y))
      BY <1>1, <1>3, <2>1, <2>2, <2>3, CommitsTogether
    <2> QED
      BY <1>1, <1>2, <1>3, <2>3, <2>4
  <1>4. CASE id \notin Stored(m)
    BY <1>1, <1>2, <1>4, AnswersTogether
  <1> QED
    BY <1>3, <1>4

LEMMA RetriesTogether ==
    ASSUME NEW m, NEW p, Ready(m, p), NEW id,
           Narrow(RetryReview(m, id, clock).side)
    PROVE  Together(RetryReview(m, id, clock), RetryReview(p, id, clock))
  <1> DEFINE a == Load(m, id)
             b == Load(p, id)
             x == RetriedDraft(a, m.counter, clock)
             y == RetriedDraft(b, p.counter, clock)
             n == m.counter + Drawn(RequestFromRecord(a))
             k == p.counter + Drawn(RequestFromRecord(b))
  <1>1. /\ RetryReview(m, id, clock) =
             IF id \notin Stored(m) THEN Answer(m, "not_found", Unknown)
             ELSE IF a.status # "FAILED" THEN Answer(m, "conflict", Unknown)
             ELSE Commit([m EXCEPT !.counter = n], x)
        /\ RetryReview(p, id, clock) =
             IF id \notin Stored(p) THEN Answer(p, "not_found", Unknown)
             ELSE IF b.status # "FAILED" THEN Answer(p, "conflict", Unknown)
             ELSE Commit([p EXCEPT !.counter = k], y)
    BY DEF RetryReview, RetriedDraft
  <1>2. Stored(m) = Stored(p) /\ m.counter = p.counter /\ m.counter \in Nat
    BY DEF Ready, Agree, Sound, SideOK
  <1>3. CASE id \in Stored(m) /\ a.status = "FAILED"
    <2>0. /\ Whole(a) /\ Whole(b) /\ Same(a, b, steady, clock)
          /\ a.status = b.status
          /\ RequestFromRecord(a) = RequestFromRecord(b)
      BY <1>3, LoadedAlike
    <2>1. n = k
      BY <1>2, <2>0
    <2>2. Writes(m, x, n) /\ Writes(p, y, k)
      BY <1>2, <1>3, <2>0 DEF Writes, Retries
    <2> HIDE DEF a, b, n, k
    <2>3. Same(x, y, steady, clock)
      BY <1>2, <2>0, RetriedAlike DEF Ready, ClockOK
    <2> HIDE DEF x, y
    <2> QED
      BY <1>1, <1>2, <1>3, <2>0, <2>1, <2>2, <2>3, CommitsTogether
  <1>4. CASE id \in Stored(m) /\ a.status # "FAILED"
    <2>1. a.status = b.status
      BY <1>4, LoadedAlike
    <2> HIDE DEF a, b
    <2> QED
      BY <1>1, <1>2, <1>4, <2>1, AnswersTogether
  <1>5. CASE id \notin Stored(m)
    BY <1>1, <1>2, <1>5, AnswersTogether
  <1> QED
    BY <1>3, <1>4, <1>5

(***************************************************************************)
(* The two deployments as long as they are comparable.                     *)
(***************************************************************************)
Agreement ==
    /\ CreatesInvariant
    /\ steady \in BOOLEAN
    /\ Comparable =>
         /\ Agree(memory, postgres, steady, clock)
         /\ answers.memory = answers.postgres

LEMMA AgreementInit == Init => Agreement
  <1> SUFFICES ASSUME Init PROVE Agreement
    OBVIOUS
  <1>1. CreatesInvariant
    BY CreatesInit
  <1>2. PICK seeded \in {{}} \cup {{seed} : seed \in Seeds} :
         /\ memory = [store   |-> "memory",
                      records |-> [id \in {rec.id : rec \in seeded} |->
                                     CHOOSE rec \in seeded : rec.id = id],
                      index   |-> [k \in {rec.key : rec \in seeded} \ {Empty} |->
                                     CHOOSE id \in {rec.id : rec \in seeded} :
                                       TRUE],
                      counter |-> 0]
         /\ postgres = [store   |-> "postgres",
                        tables  |-> IF seeded = {} THEN EmptyTables
                                    ELSE SaveRows(EmptyTables,
                                           CHOOSE rec \in seeded : TRUE),
                        counter |-> 0]
    BY DEF Init
  <1>3. clock = 1 /\ steady = TRUE /\ answers.memory = answers.postgres
    BY DEF Init
  <1> DEFINE records == [id \in {rec.id : rec \in seeded} |->
                           CHOOSE rec \in seeded : rec.id = id]
             index == [k \in {rec.key : rec \in seeded} \ {Empty} |->
                         CHOOSE id \in {rec.id : rec \in seeded} : TRUE]
             tables == IF seeded = {} THEN EmptyTables
                       ELSE SaveRows(EmptyTables, CHOOSE rec \in seeded : TRUE)
  <1>4. /\ memory = [store |-> "memory", records |-> records,
                     index |-> index, counter |-> 0]
        /\ postgres = [store |-> "postgres", tables |-> tables, counter |-> 0]
    BY <1>2
  <1>5. CASE seeded = {}
    <2>1. DOMAIN records = {} /\ tables = EmptyTables
      BY <1>5
    <2> HIDE DEF records, index, tables
    <2> QED
      BY <1>1, <1>3, <1>4, <2>1, NoTables DEF Agreement, Agree, Stored
  <1>6. ASSUME NEW seed \in Seeds, seeded = {seed}
        PROVE  Agreement
    <2>1. DOMAIN records = {seed.id} /\ records[seed.id] = seed
      BY <1>6
    <2>2. tables = SaveRows(EmptyTables, seed)
      BY <1>6
    <2> HIDE DEF records, index, tables
    <2>3. Whole(seed) /\ Savable(EmptyTables, seed)
      BY SeedFacts
    <2>4. ReadFrom(Get(tables, seed.id), seed)
      BY <2>2, <2>3, NoTables, SaveIsReadBack
    <2>5. Same(seed, seed, TRUE, 1)
      <3>1. /\ Len(seed.timeline) = 1
            /\ seed.timeline[1].at = seed.created
            /\ seed.created <= 0 /\ seed.created \in Int
            /\ seed.decisions = <<>>
        BY SystemAssumption DEF OldReviews
      <3>2. DOMAIN seed.timeline = {1}
        BY <2>3, <3>1, WholeIsTimed, LenProperties
      <3>3. Timely(seed.timeline, 1)
        BY <3>1, <3>2 DEF Timely, Ascending
      <3>4. Timely(seed.decisions, 1)
        BY <3>1 DEF Timely, Ascending
      <3> QED
        BY <3>3, <3>4 DEF Same, SameFields, SameRows
    <2>6. Same(seed, Get(tables, seed.id), TRUE, 1)
      BY <2>4, <2>5, ReadAlike
    <2>7. DOMAIN tables.reviews = {seed.id}
      BY <2>2, NoTables, SavedRows
    <2>8. /\ Stored(memory) = {seed.id} /\ Stored(postgres) = {seed.id}
          /\ memory.counter = postgres.counter
          /\ Load(memory, seed.id) = seed
          /\ Load(postgres, seed.id) = Get(tables, seed.id)
      BY <1>4, <2>1, <2>7 DEF Stored, Load
    <2> QED
      BY <1>1, <1>3, <2>6, <2>8 DEF Agreement, Agree
  <1> QED
    BY <1>2, <1>5, <1>6

\* Both deployments serve one request.
Served(mo, po) ==
    /\ memory' = mo.side /\ postgres' = po.side
    /\ answers' = [memory |-> mo.answer, postgres |-> po.answer]
    /\ clock' = clock + 1 /\ steady' = steady /\ restarts' = restarts

\* What a request that both serve alike leaves.
LEMMA ServedAlike ==
    ASSUME Ready(memory, postgres), CreatesInvariant', NEW mo, NEW po,
           Served(mo, po), Together(mo, po)
    PROVE  Agreement'
  <1>1. /\ memory' = mo.side /\ postgres' = po.side
        /\ answers' = [memory |-> mo.answer, postgres |-> po.answer]
        /\ clock' = clock + 1 /\ steady' = steady
    BY DEF Served
  <1>2. mo.answer = po.answer /\ Agree(mo.side, po.side, steady, clock)
    BY DEF Together
  <1>3. clock \in Int /\ steady \in BOOLEAN
    BY DEF Ready, ClockOK
  <1>4. answers'.memory = answers'.postgres
    BY <1>1, <1>2
  <1>5. \A id \in Stored(memory') : Whole(Load(memory', id))
    <2>1. SideOK(memory')
      BY DEF CreatesInvariant, SystemInvariant, SystemOK
    <2> QED
      BY <2>1, LoadedIsWhole
  <1>6. Agree(memory', postgres', steady, clock + 1)
    <2>1. \A id \in Stored(memory') :
            Same(Load(memory', id), Load(postgres', id), steady, clock)
      BY <1>1, <1>2 DEF Agree
    <2>2. ASSUME NEW id \in Stored(memory')
          PROVE  Same(Load(memory', id), Load(postgres', id), steady, clock + 1)
      <3>1. clock + 1 \in Int /\ clock <= clock + 1
        BY <1>3
      <3>2. /\ Whole(Load(memory', id))
            /\ Same(Load(memory', id), Load(postgres', id), steady, clock)
        BY <1>5, <2>1
      <3> QED
        BY <1>3, <3>1, <3>2, SameLater
    <2>3. Stored(memory') = Stored(postgres') /\ memory'.counter = postgres'.counter
      BY <1>1, <1>2 DEF Agree
    <2> QED
      BY <2>2, <2>3 DEF Agree
  <1> QED
    BY <1>1, <1>3, <1>4, <1>6 DEF Agreement

LEMMA AgreementNext ==
    ASSUME Agreement, [Next]_vars
    PROVE  Agreement'
  <1>1. CreatesInvariant'
    BY CreatesNext DEF Agreement
  <1>2. CASE UNCHANGED vars
    <2>1. /\ memory' = memory /\ postgres' = postgres /\ steady' = steady
          /\ clock' = clock /\ answers' = answers /\ restarts' = restarts
      BY <1>2 DEF vars
    <2>2. Comparable' <=> Comparable
      BY <2>1 DEF Comparable
    <2> QED
      BY <1>1, <2>1, <2>2 DEF Agreement
  <1>3. CASE Next
    <2>1. /\ ClockOK /\ steady \in BOOLEAN /\ restarts \in Nat
          /\ SideOK(memory) /\ memory.store = "memory"
          /\ SideOK(postgres) /\ postgres.store = "postgres"
          /\ Numbered(memory) /\ (restarts = 0 => Numbered(postgres))
          /\ Disjoint(memory) /\ Disjoint(postgres)
          /\ KeysUnique(memory) /\ KeysUnique(postgres)
          /\ FindOK(memory) /\ FindOK(postgres)
      BY TablesFind DEF Agreement, CreatesInvariant, SystemInvariant, SystemOK
    <2>2. SidesStep
      BY <1>3, ServeSteps DEF Agreement, CreatesInvariant, SystemInvariant
    <2>3. SideOK(memory') /\ memory'.store = "memory"
      BY <1>1 DEF CreatesInvariant, SystemInvariant, SystemOK
    <2>4. steady' \in BOOLEAN
      <3>1. CASE Deliver \/ PostReview
        BY <2>1, <3>1 DEF Deliver, PostReview, Create, Turn, Serve
      <3>2. CASE PostDecision \/ PostEvaluation \/ PostRetry
        BY <2>1, <3>2 DEF PostDecision, PostEvaluation, PostRetry, Serve
      <3>3. CASE Restart \/ StepBack
        BY <2>1, <3>3 DEF Restart, StepBack
      <3> QED
        BY <1>3, <3>1, <3>2, <3>3 DEF Next
    <2>5. CASE ~Comparable'
      BY <1>1, <2>4, <2>5 DEF Agreement
    <2>6. CASE Comparable'
      <3>1. Narrow(memory') /\ restarts' = 0
        BY <2>3, <2>6 DEF Comparable, Narrow, Load
      <3>2. restarts = 0 /\ Sound(memory) /\ Sound(postgres)
        BY <2>1, <2>2, <3>1 DEF SidesStep, Sound
      <3>3. Narrow(memory)
        BY <2>1, <2>2, <3>1, <3>2, NarrowBefore DEF SidesStep
      <3>4. Comparable
        BY <2>1, <3>2, <3>3 DEF Comparable, Narrow, Load
      <3>5. /\ Agree(memory, postgres, steady, clock)
            /\ answers.memory = answers.postgres
        BY <3>4 DEF Agreement
      <3>6. Ready(memory, postgres)
        BY <2>1, <3>2, <3>5 DEF Ready
      <3>7. ASSUME NEW code, Turn(code)
            PROVE  Agreement'
        <4>1. Served(Answer(memory, code, Unknown),
                     Answer(postgres, code, Unknown))
          BY <3>7 DEF Turn, Serve, Served
        <4>2. Together(Answer(memory, code, Unknown),
                       Answer(postgres, code, Unknown))
          BY <3>6, AnswersTogether
        <4> QED
          BY <1>1, <3>6, <4>1, <4>2, ServedAlike
      <3>8. ASSUME NEW origin, NEW req \in ReviewRequests, Create(origin, req)
            PROVE  Agreement'
        <4>1. Served(CreateReview(memory, req, clock),
                     CreateReview(postgres, req, clock))
          BY <3>8 DEF Create, Serve, Served
        <4>2. Narrow(CreateReview(memory, req, clock).side)
          BY <3>1, <4>1 DEF Served
        <4>3. Together(CreateReview(memory, req, clock),
                       CreateReview(postgres, req, clock))
          BY <3>6, <4>2, CreatesTogether
        <4> QED
          BY <1>1, <3>6, <4>1, <4>3, ServedAlike
      <3>9. CASE Deliver
        BY <3>7, <3>8, <3>9, WebhookRequestType DEF Deliver
      <3>10. CASE PostReview
        <4>1. \A req \in Creates : req \in ReviewRequests
          BY SystemAssumption
        <4> QED
          BY <3>7, <3>8, <3>10, <4>1 DEF PostReview
      <3>11. CASE PostDecision
        <4>1. PICK id \in Named, verdict \in Submitted :
                Serve(LAMBDA side :
                        SubmitHumanDecision(side, id, verdict, clock))
          BY <3>11 DEF PostDecision
        <4>2. Served(SubmitHumanDecision(memory, id, verdict, clock),
                     SubmitHumanDecision(postgres, id, verdict, clock))
          BY <4>1 DEF Serve, Served
        <4>3. Narrow(SubmitHumanDecision(memory, id, verdict, clock).side)
          BY <3>1, <4>2 DEF Served
        <4>4. Together(SubmitHumanDecision(memory, id, verdict, clock),
                       SubmitHumanDecision(postgres, id, verdict, clock))
          BY <3>6, <4>3, DecisionsTogether
        <4> QED
          BY <1>1, <3>6, <4>2, <4>4, ServedAlike
      <3>12. CASE PostEvaluation
        <4>1. PICK id \in Named, update \in Updates :
                Serve(LAMBDA side : UpdateEvaluation(side, id, update, clock))
          BY <3>12 DEF PostEvaluation
        <4>2. Served(UpdateEvaluation(memory, id, update, clock),
                     UpdateEvaluation(postgres, id, update, clock))
          BY <4>1 DEF Serve, Served
        <4>3. Narrow(UpdateEvaluation(memory, id, update, clock).side)
          BY <3>1, <4>2 DEF Served
        <4>4. Together(UpdateEvaluation(memory, id, update, clock),
                       UpdateEvaluation(postgres, id, update, clock))
          BY <3>6, <4>3, EvaluationsTogether
        <4> QED
          BY <1>1, <3>6, <4>2, <4>4, ServedAlike
      <3>13. CASE PostRetry
        <4>1. PICK id \in Named :
                Serve(LAMBDA side : RetryReview(side, id, clock))
          BY <3>13 DEF PostRetry
        <4>2. Served(RetryReview(memory, id, clock),
                     RetryReview(postgres, id, clock))
          BY <4>1 DEF Serve, Served
        <4>3. Narrow(RetryReview(memory, id, clock).side)
          BY <3>1, <4>2 DEF Served
        <4>4. Together(RetryReview(memory, id, clock),
                       RetryReview(postgres, id, clock))
          BY <3>6, <4>3, RetriesTogether
        <4> QED
          BY <1>1, <3>6, <4>2, <4>4, ServedAlike
      <3>14. CASE Restart
        BY <2>1, <3>1, <3>14 DEF Restart
      <3>15. CASE StepBack
        <4>1. /\ memory' = memory /\ postgres' = postgres
              /\ answers' = answers /\ steady' = FALSE
          BY <3>15 DEF StepBack
        <4>2. Agree(memory', postgres', FALSE, clock')
          BY <3>5, <4>1 DEF Agree, Same
        <4> QED
          BY <1>1, <3>5, <4>1, <4>2 DEF Agreement
      <3> QED
        BY <1>3, <3>9, <3>10, <3>11, <3>12, <3>13, <3>14, <3>15 DEF Next
    <2> QED
      BY <2>5, <2>6
  <1> QED
    BY <1>2, <1>3

THEOREM AgreementHolds == Spec => []Agreement
  <1>1. Init => Agreement
    BY AgreementInit
  <1>2. Agreement /\ [Next]_vars => Agreement'
    BY AgreementNext
  <1> QED
    BY <1>1, <1>2, PTL DEF Spec

\* For any requests and deliveries, until a restart and as long as the columns of
\* Postgres hold every change, both stores keep the same reviews with the same
\* contents; where the clock stepped back, in any order (store.go:12, "switch
\* between in-memory and PostgreSQL implementations without changing the
\* business flow").
THEOREM StoresStayAlike == Spec => []StoresAgree
  <1>1. ASSUME Agreement
        PROVE  StoresAgree
    <2> SUFFICES ASSUME Comparable
                 PROVE  /\ Stored(memory) = Stored(postgres)
                        /\ \A id \in Stored(memory) :
                             LET m == Load(memory, id)
                                 p == Load(postgres, id)
                             IN  IF steady THEN Kept(m) = Kept(p)
                                 ELSE Unordered(m) = Unordered(p)
      BY DEF StoresAgree
    <2>1. Agree(memory, postgres, steady, clock) /\ steady \in BOOLEAN
      BY <1>1 DEF Agreement
    <2>2. SideOK(memory) /\ SideOK(postgres)
      BY <1>1 DEF Agreement, CreatesInvariant, SystemInvariant, SystemOK
    <2>3. Stored(memory) = Stored(postgres)
      BY <2>1 DEF Agree
    <2>4. ASSUME NEW id \in Stored(memory)
          PROVE  IF steady THEN Kept(Load(memory, id)) = Kept(Load(postgres, id))
                 ELSE Unordered(Load(memory, id)) = Unordered(Load(postgres, id))
      <3>1. IsRecord(Load(memory, id)) /\ IsRecord(Load(postgres, id))
        BY <2>2, <2>3, <2>4, LoadedIsWhole DEF Whole
      <3>2. Same(Load(memory, id), Load(postgres, id), steady, clock)
        BY <2>1, <2>4 DEF Agree
      <3> QED
        BY <2>1, <3>1, <3>2, SameIsKept
    <2> QED
      BY <2>3, <2>4
  <1> QED
    BY <1>1, AgreementHolds, PTL

\* For as long, every request is answered alike by both, with the same code and
\* the same identifier: what one recognises as a duplicate, a conflict or a
\* missing review the other does too (ReviewHandler.writeServiceError).
THEOREM AnswersStayAlike == Spec => []AnswersAgree
  <1>1. Agreement => AnswersAgree
    BY DEF Agreement, AnswersAgree
  <1> QED
    BY <1>1, AgreementHolds, PTL

(***************************************************************************)
(* What the metrics count.                                                 *)
(***************************************************************************)

\* A review is overridden by its last decision alone, and its evaluation has
\* the last incident flag that was reported of it.
Accounted(rec, flags) ==
    /\ rec.status = "OVERRIDDEN" <=>
         rec.decisions # <<>> /\ LastOf(rec.decisions).verdict = "override"
    /\ rec.evaluation = Nil => rec.id \notin DOMAIN flags
    /\ rec.evaluation # Nil =>
         rec.evaluation.incident = IF rec.id \in DOMAIN flags
                                     THEN flags[rec.id] ELSE Nil

AllAccounted(side, flags) ==
    /\ \A id \in Stored(side) : Accounted(Load(side, id), flags)
    /\ DOMAIN flags \subseteq Stored(side)

\* In memory every save is accepted.
LEMMA MemoryCommits ==
    ASSUME ClockOK, NEW m, SideOK(m), m.store = "memory",
           NEW rec, NEW n, Writes(m, rec, n)
    PROVE  LET out == Commit([m EXCEPT !.counter = n], rec).side
           IN  /\ Keeps(m, out, rec, n)
               /\ Stored(out) = Stored(m) \cup {rec.id}
               /\ \A id \in Stored(m) \ {rec.id} : Load(out, id) = Load(m, id)
               /\ Load(out, rec.id) = rec
  <1> DEFINE md == [m EXCEPT !.counter = n]
             out == Commit(md, rec).side
  <1>1. n \in Nat
    BY WritesFacts
  <1>2. md.store = "memory"
    BY <1>1, CounterDrawn
  <1>3. Keeps(m, Saved(md, rec), rec, n)
    BY SavedKeeps
  <1> HIDE DEF md
  <1>4. out = Saved(md, rec)
    BY <1>2 DEF Commit, SaveResult, Answer
  <1> HIDE DEF out
  <1> QED
    BY <1>3, <1>4 DEF Keeps, out, md

LEMMA SaveAccounted ==
    ASSUME ClockOK, NEW m, SideOK(m), m.store = "memory",
           NEW rec, NEW n, Writes(m, rec, n),
           NEW flags, NEW new, AllAccounted(m, flags),
           \A id \in Stored(m) \ {rec.id} :
             /\ id \in DOMAIN new <=> id \in DOMAIN flags
             /\ id \in DOMAIN new => new[id] = flags[id],
           DOMAIN new \subseteq Stored(m) \cup {rec.id},
           Accounted(rec, new)
    PROVE  AllAccounted(Commit([m EXCEPT !.counter = n], rec).side, new)
  <1> DEFINE out == Commit([m EXCEPT !.counter = n], rec).side
  <1>1. /\ Stored(out) = Stored(m) \cup {rec.id}
        /\ \A id \in Stored(m) \ {rec.id} : Load(out, id) = Load(m, id)
        /\ Load(out, rec.id) = rec
    BY MemoryCommits
  <1>2. \A id \in Stored(m) : Load(m, id).id = id
    BY LoadedIsWhole
  <1> HIDE DEF out
  <1>3. ASSUME NEW id \in Stored(m) \ {rec.id}
        PROVE  Accounted(Load(m, id), new)
    <2>1. Accounted(Load(m, id), flags) /\ Load(m, id).id = id
      BY <1>2 DEF AllAccounted
    <2> QED
      BY <2>1 DEF Accounted
  <1>4. AllAccounted(out, new)
    BY <1>1, <1>3 DEF AllAccounted
  <1> QED
    BY <1>4 DEF out

LEMMA DecisionAccounted ==
    ASSUME ClockOK, NEW m, SideOK(m), m.store = "memory",
           NEW flags, AllAccounted(m, flags), NEW id, NEW verdict
    PROVE  AllAccounted(SubmitHumanDecision(m, id, verdict, clock).side, flags)
  <1> DEFINE old == Load(m, id)
             rec == DecidedDraft(old, verdict, served + 1, clock)
  <1>1. SubmitHumanDecision(m, id, verdict, clock) =
          IF id \notin Stored(m) THEN Answer(m, "not_found", Unknown)
          ELSE IF verdict \notin Verdicts
            THEN Answer(m, "internal_error", Unknown)
          ELSE Commit(m, rec)
    BY DEF SubmitHumanDecision, DecidedDraft
  <1>2. CASE id \in Stored(m) /\ verdict \in Verdicts
    <2>1. Writes(m, rec, m.counter)
      BY <1>2 DEF Writes, Decides
    <2>2. Whole(old) /\ old.id = id
      BY <1>2, LoadedIsWhole
    <2>3. DecidedFrom(rec, old, verdict, served + 1, clock)
      BY <1>2, <2>2, DecidedFields DEF ClockOK
    <2>4. Accounted(old, flags)
      BY <1>2 DEF AllAccounted
    <2> HIDE DEF old, rec
    <2>5. Accounted(rec, flags)
      <3> DEFINE row == [verdict |-> verdict, request |-> served + 1,
                         at |-> clock]
      <3>1. rec.id = id
        BY <2>2, <2>3 DEF DecidedFrom, SameFields, FieldNames
      <3>2. /\ rec.status = StatusOf(verdict)
            /\ rec.decisions = Append(old.decisions, row)
            /\ rec.evaluation = [EvaluationFor(old, clock) EXCEPT
                                   !.final = verdict]
            /\ rec.evaluation \in EvaluationValues
        BY <2>3 DEF DecidedFrom
      <3>3. /\ row \in DecisionRows /\ row.verdict = verdict
            /\ old.decisions \in Seq(DecisionRows)
        BY <1>2, <2>2 DEF ClockOK, DecisionRows, Whole, Historied
      <3> HIDE DEF row
      <3>4. rec.decisions # <<>> /\ LastOf(rec.decisions) = row
        BY <3>2, <3>3, Appending
      <3>5. StatusOf(verdict) = "OVERRIDDEN" <=> verdict = "override"
        BY <1>2 DEF StatusOf, Verdicts
      <3>6. rec.evaluation.incident = EvaluationFor(old, clock).incident
        BY <2>2, <3>2 DEF Whole, Historied, EvaluationFor, NewEvaluation,
                          EvaluationValues
      <3>7. EvaluationFor(old, clock).incident =
              IF id \in DOMAIN flags THEN flags[id] ELSE Nil
        BY <2>2, <2>4 DEF EvaluationFor, NewEvaluation, Accounted
      <3>8. rec.evaluation # Nil
        BY <3>2, NilApart
      <3> QED
        BY <3>1, <3>2, <3>3, <3>4, <3>5, <3>6, <3>7, <3>8 DEF Accounted
    <2>6. rec.id = id
      BY <2>2, <2>3 DEF DecidedFrom, SameFields, FieldNames
    <2>7. AllAccounted(Commit([m EXCEPT !.counter = m.counter], rec).side, flags)
      BY <1>2, <2>1, <2>5, <2>6, SaveAccounted DEF AllAccounted
    <2> QED
      BY <1>1, <1>2, <2>7, NoDrawing
  <1>3. CASE ~(id \in Stored(m) /\ verdict \in Verdicts)
    BY <1>1, <1>3 DEF Answer
  <1> QED
    BY <1>2, <1>3

LEMMA EvaluationAccounted ==
    ASSUME ClockOK, NEW m, SideOK(m), m.store = "memory",
           NEW flags, AllAccounted(m, flags), NEW id, NEW update \in Updates
    PROVE  AllAccounted(UpdateEvaluation(m, id, update, clock).side,
                        IF id \in Stored(m) /\ update.incident # Nil
                          THEN Put(flags, id, update.incident) ELSE flags)
  <1> DEFINE old == Load(m, id)
             rec == EvaluatedDraft(old, update, clock)
             new == IF id \in Stored(m) /\ update.incident # Nil
                      THEN Put(flags, id, update.incident) ELSE flags
  <1>1. UpdateEvaluation(m, id, update, clock) =
          IF id \notin Stored(m) THEN Answer(m, "not_found", Unknown)
          ELSE Commit(m, rec)
    BY DEF UpdateEvaluation, EvaluatedDraft
  <1>2. CASE id \in Stored(m)
    <2>1. Writes(m, rec, m.counter)
      BY <1>2 DEF Writes, Evaluates
    <2>2. Whole(old) /\ old.id = id
      BY <1>2, LoadedIsWhole
    <2>3. EvaluatedFrom(rec, old, update, clock)
      BY <2>2, EvaluatedFields DEF ClockOK
    <2>4. Accounted(old, flags)
      BY <1>2 DEF AllAccounted
    <2>5. /\ DOMAIN new = IF update.incident = Nil THEN DOMAIN flags
                          ELSE DOMAIN flags \cup {id}
          /\ \A x \in DOMAIN flags \ {id} : new[x] = flags[x]
          /\ IF update.incident = Nil THEN new = flags
             ELSE new[id] = update.incident
      <3>1. CASE update.incident = Nil
        <4>1. new = flags
          BY <3>1
        <4> QED
          BY <3>1, <4>1
      <3>2. CASE update.incident # Nil
        <4> DEFINE flag == update.incident
        <4>1. new = Put(flags, id, flag)
          BY <1>2, <3>2
        <4> HIDE DEF flag
        <4>2. /\ DOMAIN Put(flags, id, flag) = DOMAIN flags \cup {id}
              /\ Put(flags, id, flag)[id] = flag
              /\ \A x \in DOMAIN flags \ {id} :
                    Put(flags, id, flag)[x] = flags[x]
          BY DEF Put
        <4> HIDE DEF new
        <4> QED
          BY <3>2, <4>1, <4>2 DEF flag
      <3> QED
        BY <3>1, <3>2
    <2> HIDE DEF old, rec, new
    <2>6. /\ rec.id = id
          /\ rec.status = old.status
          /\ rec.decisions = old.decisions
          /\ rec.evaluation \in EvaluationValues
          /\ rec.evaluation.incident =
               IF update.incident = Nil
                 THEN EvaluationFor(old, clock).incident ELSE update.incident
      BY <2>2, <2>3 DEF EvaluatedFrom, SameFields, FieldNames
    <2>7. EvaluationFor(old, clock).incident =
            IF id \in DOMAIN flags THEN flags[id] ELSE Nil
      BY <2>2, <2>4 DEF EvaluationFor, NewEvaluation, Accounted
    <2>8. rec.evaluation # Nil
      BY <2>6, NilApart
    <2>9. rec.evaluation.incident = IF id \in DOMAIN new THEN new[id] ELSE Nil
      BY <2>5, <2>6, <2>7
    <2>10. Accounted(rec, new)
      BY <2>4, <2>6, <2>8, <2>9 DEF Accounted
    <2>11. /\ \A x \in Stored(m) \ {rec.id} :
                /\ x \in DOMAIN new <=> x \in DOMAIN flags
                /\ x \in DOMAIN new => new[x] = flags[x]
           /\ DOMAIN new \subseteq Stored(m) \cup {rec.id}
      BY <1>2, <2>5, <2>6 DEF AllAccounted
    <2>12. AllAccounted(Commit([m EXCEPT !.counter = m.counter], rec).side, new)
      BY <2>1, <2>10, <2>11, SaveAccounted
    <2>13. AllAccounted(Commit(m, rec).side, new)
      BY <2>12, NoDrawing
    <2>14. AllAccounted(UpdateEvaluation(m, id, update, clock).side, new)
      BY <1>1, <1>2, <2>13
    <2> QED
      BY <2>14 DEF new
  <1>3. CASE id \notin Stored(m)
    BY <1>1, <1>3 DEF Answer
  <1> QED
    BY <1>2, <1>3

LEMMA RetryAccounted ==
    ASSUME ClockOK, NEW m, SideOK(m), m.store = "memory",
           NEW flags, AllAccounted(m, flags), NEW id
    PROVE  AllAccounted(RetryReview(m, id, clock).side, flags)
  <1> DEFINE old == Load(m, id)
             rec == RetriedDraft(old, m.counter, clock)
             n == m.counter + Drawn(RequestFromRecord(old))
  <1>1. RetryReview(m, id, clock) =
          IF id \notin Stored(m) THEN Answer(m, "not_found", Unknown)
          ELSE IF old.status # "FAILED" THEN Answer(m, "conflict", Unknown)
          ELSE Commit([m EXCEPT !.counter = n], rec)
    BY DEF RetryReview, RetriedDraft
  <1>2. CASE id \in Stored(m) /\ old.status = "FAILED"
    <2>1. Writes(m, rec, n)
      BY <1>2 DEF Writes, Retries
    <2>2. Whole(old) /\ old.id = id
      BY <1>2, LoadedIsWhole
    <2>3. RetriedFrom(rec, old, m.counter, clock)
      BY <2>2, RetriedFields DEF ClockOK, SideOK
    <2>4. Accounted(old, flags)
      BY <1>2 DEF AllAccounted
    <2> HIDE DEF old, rec, n
    <2>5. /\ rec.id = id
          /\ rec.decisions = old.decisions /\ rec.evaluation = old.evaluation
          /\ rec.status \in {"WAITING_HUMAN_REVIEW", "RECOMMENDED"}
      BY <2>2, <2>3 DEF RetriedFrom, SameFields, IdentityNames
    <2>6. Accounted(rec, flags)
      BY <1>2, <2>2, <2>4, <2>5 DEF Accounted
    <2>7. AllAccounted(Commit([m EXCEPT !.counter = n], rec).side, flags)
      BY <1>2, <2>1, <2>5, <2>6, SaveAccounted DEF AllAccounted
    <2> QED
      BY <1>1, <1>2, <2>7
  <1>3. CASE ~(id \in Stored(m) /\ old.status = "FAILED")
    BY <1>1, <1>3 DEF Answer
  <1> QED
    BY <1>2, <1>3

LEMMA CreateAccounted ==
    ASSUME ClockOK, NEW m, SideOK(m), m.store = "memory", Numbered(m),
           NEW flags, AllAccounted(m, flags), NEW req \in ReviewRequests
    PROVE  AllAccounted(CreateReview(m, req, clock).side, flags)
  <1> DEFINE key == dedupeKeyFor(req)
             found == IF key = Empty THEN {} ELSE Find(m, key)
             rec == CreatedDraft(req, m.counter, clock)
             n == m.counter + 2 + Drawn(req)
  <1>1. CreateReview(m, req, clock) =
          IF found # {} THEN Answer(m, "accepted", CHOOSE id \in found : TRUE)
          ELSE Commit([m EXCEPT !.counter = n], rec)
    BY DEF CreateReview, CreatedDraft
  <1>2. CASE found = {}
    <2>1. key = Empty \/ Find(m, key) = {}
      BY <1>2
    <2>2. Writes(m, rec, n)
      BY <2>1 DEF Writes, CreatesFor
    <2>3. CreatedFrom(rec, req, m.counter, clock)
      BY CreatedFields DEF ClockOK, SideOK
    <2> HIDE DEF rec, n
    <2>4. /\ rec.id = m.counter + 1
          /\ rec.decisions = <<>>
          /\ rec.evaluation = NewEvaluation(clock)
          /\ rec.evaluation \in EvaluationValues
          /\ rec.status \in {"WAITING_HUMAN_REVIEW", "RECOMMENDED"}
      BY <2>3 DEF CreatedFrom
    <2>5. rec.id \notin Stored(m)
      BY <2>4, NumberTypes DEF Numbered
    <2>6. rec.evaluation # Nil /\ rec.evaluation.incident = Nil
      BY <2>4, NilApart DEF NewEvaluation
    <2>7. Accounted(rec, flags)
      BY <2>4, <2>5, <2>6 DEF Accounted, AllAccounted
    <2>8. AllAccounted(Commit([m EXCEPT !.counter = n], rec).side, flags)
      BY <2>2, <2>7, SaveAccounted DEF AllAccounted
    <2> QED
      BY <1>1, <1>2, <2>8
  <1>3. CASE found # {}
    BY <1>1, <1>3 DEF Answer
  <1> QED
    BY <1>2, <1>3

LEMMA AccountInit == Init => AllAccounted(memory, reported)
  <1> SUFFICES ASSUME Init PROVE AllAccounted(memory, reported)
    OBVIOUS
  <1>1. PICK seeded \in {{}} \cup {{seed} : seed \in Seeds} :
         memory = [store   |-> "memory",
                   records |-> [id \in {rec.id : rec \in seeded} |->
                                  CHOOSE rec \in seeded : rec.id = id],
                   index   |-> [k \in {rec.key : rec \in seeded} \ {Empty} |->
                                  CHOOSE id \in {rec.id : rec \in seeded} : TRUE],
                   counter |-> 0]
    BY DEF Init
  <1>2. DOMAIN reported = {}
    BY DEF Init
  <1>3. \A seed \in Seeds :
          /\ seed.status = "FAILED" /\ seed.decisions = <<>>
          /\ seed.evaluation = Nil
    BY SystemAssumption DEF OldReviews
  <1> DEFINE records == [id \in {rec.id : rec \in seeded} |->
                           CHOOSE rec \in seeded : rec.id = id]
             index == [k \in {rec.key : rec \in seeded} \ {Empty} |->
                         CHOOSE id \in {rec.id : rec \in seeded} : TRUE]
  <1>4. memory = [store |-> "memory", records |-> records,
                  index |-> index, counter |-> 0]
    BY <1>1
  <1>5. \A id \in DOMAIN records : records[id] \in Seeds
    BY <1>1
  <1> HIDE DEF records, index
  <1>6. \A id \in Stored(memory) : Load(memory, id) \in Seeds
    BY <1>4, <1>5 DEF Stored, Load
  <1>7. \A id \in Stored(memory) : Accounted(Load(memory, id), reported)
    BY <1>2, <1>3, <1>6 DEF Accounted
  <1> QED
    BY <1>2, <1>7 DEF AllAccounted

LEMMA AccountNext ==
    ASSUME SystemInvariant, AllAccounted(memory, reported), [Next]_vars
    PROVE  AllAccounted(memory, reported)'
  <1>1. ClockOK /\ SideOK(memory) /\ memory.store = "memory" /\ Numbered(memory)
    BY DEF SystemInvariant, SystemOK
  <1>2. ASSUME memory' = memory, reported' = reported
        PROVE  AllAccounted(memory, reported)'
    BY <1>2 DEF AllAccounted, Load, Stored
  <1>3. ASSUME NEW out, memory' = out, reported' = reported,
               AllAccounted(out, reported)
        PROVE  AllAccounted(memory, reported)'
    BY <1>3 DEF AllAccounted, Load, Stored
  <1>4. ASSUME NEW code, Turn(code)
        PROVE  AllAccounted(memory, reported)'
    BY <1>2, <1>4 DEF Turn, Serve, Answer
  <1>5. ASSUME NEW origin, NEW req \in ReviewRequests, Create(origin, req)
        PROVE  AllAccounted(memory, reported)'
    <2>1. memory' = CreateReview(memory, req, clock).side /\ reported' = reported
      BY <1>5 DEF Create, Serve
    <2>2. AllAccounted(CreateReview(memory, req, clock).side, reported)
      BY <1>1, CreateAccounted
    <2> QED
      BY <1>3, <2>1, <2>2
  <1>6. CASE UNCHANGED vars
    BY <1>2, <1>6 DEF vars
  <1>7. CASE Deliver
    BY <1>4, <1>5, <1>7, WebhookRequestType DEF Deliver
  <1>8. CASE PostReview
    <2>1. \A req \in Creates : req \in ReviewRequests
      BY SystemAssumption
    <2> QED
      BY <1>4, <1>5, <1>8, <2>1 DEF PostReview
  <1>9. CASE PostDecision
    <2>1. PICK id \in Named, verdict \in Submitted :
            /\ memory' = SubmitHumanDecision(memory, id, verdict, clock).side
            /\ reported' = reported
      BY <1>9 DEF PostDecision, Serve
    <2>2. AllAccounted(SubmitHumanDecision(memory, id, verdict, clock).side,
                       reported)
      BY <1>1, DecisionAccounted
    <2> QED
      BY <1>3, <2>1, <2>2
  <1>10. CASE PostEvaluation
    <2>1. PICK id \in Named, update \in Updates :
            /\ memory' = UpdateEvaluation(memory, id, update, clock).side
            /\ reported' = IF id \in Stored(memory) /\ update.incident # Nil
                             THEN Put(reported, id, update.incident)
                             ELSE reported
      BY <1>10 DEF PostEvaluation, Serve
    <2>2. AllAccounted(UpdateEvaluation(memory, id, update, clock).side,
                       IF id \in Stored(memory) /\ update.incident # Nil
                         THEN Put(reported, id, update.incident)
                         ELSE reported)
      BY <1>1, EvaluationAccounted
    <2> DEFINE out == UpdateEvaluation(memory, id, update, clock).side
               new == IF id \in Stored(memory) /\ update.incident # Nil
                        THEN Put(reported, id, update.incident) ELSE reported
    <2>3. memory' = out /\ reported' = new /\ AllAccounted(out, new)
      BY <2>1, <2>2
    <2> HIDE DEF out, new
    <2> QED
      BY <2>3 DEF AllAccounted, Load, Stored
  <1>11. CASE PostRetry
    <2>1. PICK id \in Named :
            /\ memory' = RetryReview(memory, id, clock).side
            /\ reported' = reported
      BY <1>11 DEF PostRetry, Serve
    <2>2. AllAccounted(RetryReview(memory, id, clock).side, reported)
      BY <1>1, RetryAccounted
    <2> QED
      BY <1>3, <2>1, <2>2
  <1>12. CASE Restart \/ StepBack
    BY <1>2, <1>12 DEF Restart, StepBack
  <1> QED
    BY <1>6, <1>7, <1>8, <1>9, <1>10, <1>11, <1>12 DEF Next

THEOREM AccountHolds == Spec => []AllAccounted(memory, reported)
  <1>1. Init => AllAccounted(memory, reported)
    BY AccountInit
  <1>2. SystemInvariant /\ AllAccounted(memory, reported) /\ [Next]_vars
          => AllAccounted(memory, reported)'
    BY AccountNext
  <1> QED
    BY <1>1, <1>2, InvariantHolds, PTL DEF Spec

\* What of a record the metrics count.
LEMMA CountedRight ==
    ASSUME NEW rec, NEW flags, Accounted(rec, flags), NEW flag \in BOOLEAN
    PROVE  /\ rec.status = "OVERRIDDEN" <=>
                rec.decisions # <<>> /\ LastOf(rec.decisions).verdict = "override"
           /\ rec.evaluation # Nil /\ rec.evaluation.incident = flag <=>
                rec.id \in DOMAIN flags /\ flags[rec.id] = flag
  <1>1. flag # Nil
    BY NilApart
  <1> QED
    BY <1>1 DEF Accounted

CountedRightly(all, from, to) ==
    LET metrics == Metrics(all, from, to)
        window == {rec \in all : from <= rec.created /\ rec.created <= to}
        Flagged(flag) ==
          {rec \in window :
             /\ rec.result.level \in {"HIGH", "CRITICAL"}
             /\ rec.id \in DOMAIN reported
             /\ reported[rec.id] = flag}
    IN  /\ metrics.overrides =
             Cardinality({rec \in window :
                /\ rec.decisions # <<>>
                /\ LastOf(rec.decisions).verdict = "override"})
        /\ metrics.incident = Cardinality(Flagged(TRUE))
        /\ metrics.harmless = Cardinality(Flagged(FALSE))

LEMMA MetricsCount ==
    ASSUME NEW all, \A rec \in all : Accounted(rec, reported),
           NEW from, NEW to
    PROVE  CountedRightly(all, from, to)
  <1> DEFINE window == {rec \in all : from <= rec.created /\ rec.created <= to}
             high == {rec \in window : rec.result.level \in {"HIGH", "CRITICAL"}}
             WithFlag(flag) == {rec \in high : rec.evaluation # Nil
                                                 /\ rec.evaluation.incident = flag}
             Flagged(flag) == {rec \in window :
                                 /\ rec.result.level \in {"HIGH", "CRITICAL"}
                                 /\ rec.id \in DOMAIN reported
                                 /\ reported[rec.id] = flag}
             marked == {rec \in window : rec.status = "OVERRIDDEN"}
             overridden == {rec \in window :
                              /\ rec.decisions # <<>>
                              /\ LastOf(rec.decisions).verdict = "override"}
  <1>1. /\ Metrics(all, from, to).overrides = Cardinality(marked)
        /\ Metrics(all, from, to).incident = Cardinality(WithFlag(TRUE))
        /\ Metrics(all, from, to).harmless = Cardinality(WithFlag(FALSE))
    BY DEF Metrics
  <1>2. \A rec \in window : Accounted(rec, reported)
    OBVIOUS
  <1> HIDE DEF window
  <1>3. marked = overridden
    BY <1>2 DEF Accounted
  <1>4. ASSUME NEW flag \in BOOLEAN
        PROVE  WithFlag(flag) = Flagged(flag)
    <2>1. ASSUME NEW rec \in window
          PROVE  rec.evaluation # Nil /\ rec.evaluation.incident = flag <=>
                   rec.id \in DOMAIN reported /\ reported[rec.id] = flag
      BY <1>2, <1>4, CountedRight
    <2> QED
      BY <2>1
  <1>5. WithFlag(TRUE) = Flagged(TRUE) /\ WithFlag(FALSE) = Flagged(FALSE)
    BY <1>4
  <1> HIDE DEF marked, overridden, WithFlag, Flagged
  <1>6. /\ Metrics(all, from, to).overrides = Cardinality(overridden)
        /\ Metrics(all, from, to).incident = Cardinality(Flagged(TRUE))
        /\ Metrics(all, from, to).harmless = Cardinality(Flagged(FALSE))
    BY <1>1, <1>3, <1>5
  <1> QED
    BY <1>6 DEF window, overridden, Flagged, CountedRightly

\* As long as both stores hold the same history, the metrics of any window count
\* each review once, as overridden by its last decision alone and among the
\* high-risk ones by the last incident flag reported of it
\* (Service.GetEvaluationMetrics).
THEOREM MetricsStayTrue == Spec => []MetricsAccount
  <1>1. ASSUME Agreement, AllAccounted(memory, reported)
        PROVE  MetricsAccount
    <2>1. CASE Comparable /\ steady
      <3>1. Agree(memory, postgres, TRUE, clock)
        BY <1>1, <2>1 DEF Agreement
      <3>2. \A rec \in List(memory) : Accounted(rec, reported)
        BY <1>1 DEF AllAccounted, List
      <3>3. ASSUME NEW id \in Stored(postgres)
            PROVE  Accounted(Load(postgres, id), reported)
        <4>1. /\ Accounted(Load(memory, id), reported)
              /\ Same(Load(memory, id), Load(postgres, id), TRUE, clock)
          BY <1>1, <3>1, <3>3 DEF AllAccounted, Agree
        <4> DEFINE a == Load(memory, id)
                   b == Load(postgres, id)
        <4>2. SameFields(a, b, PlainNames) /\ a.decisions = b.decisions
          BY <4>1 DEF Same
        <4>3. Accounted(a, reported)
          BY <4>1
        <4> HIDE DEF a, b
        <4>4. /\ a.id = b.id /\ a.status = b.status
              /\ a.evaluation = b.evaluation
          BY <4>2, SameParts
        <4>5. Accounted(b, reported)
          BY <4>2, <4>3, <4>4 DEF Accounted
        <4> QED
          BY <4>5 DEF b
      <3>4. \A rec \in List(postgres) : Accounted(rec, reported)
        BY <3>3 DEF List
      <3>5. \A side \in {memory, postgres} :
              \A rec \in List(side) : Accounted(rec, reported)
        BY <3>2, <3>4
      <3>6. \A side \in {memory, postgres} :
              \A from, to \in {rec.created : rec \in List(side)} :
                CountedRightly(List(side), from, to)
        BY <3>5, MetricsCount
      <3> QED
        BY <3>6 DEF MetricsAccount, CountedRightly
    <2>2. CASE ~(Comparable /\ steady)
      BY <2>2 DEF MetricsAccount
    <2> QED
      BY <2>1, <2>2
  <1> QED
    BY <1>1, AgreementHolds, AccountHolds, PTL

(***************************************************************************)
(* The refinement: the records of MemoryStore are the lifecycle's current  *)
(* ones.                                                                   *)
(***************************************************************************)

\* What the lifecycle sees of a history, and of a deployment.
States(events) == [i \in DOMAIN events |-> events[i].state]

Submissions(rows) ==
    [i \in DOMAIN rows |-> [verdict |-> rows[i].verdict,
                            request |-> rows[i].request]]

Outlined(evaluation) ==
    IF evaluation = Nil THEN NoEvaluation
    ELSE [final |-> evaluation.final, outcome |-> evaluation.outcome]

Shown(records) == [id \in DOMAIN records |-> Abstract(records[id])]

OutlineNames ==
    {"key", "status", "gated", "timeline", "decisions", "evaluation"}

IsOutline(r) == r = [f \in OutlineNames |-> r[f]]

LEMMA SameOutline ==
    ASSUME NEW a, NEW b, IsOutline(a), IsOutline(b),
           a.key = b.key, a.status = b.status, a.gated = b.gated,
           a.timeline = b.timeline, a.decisions = b.decisions,
           a.evaluation = b.evaluation
    PROVE  a = b
  <1>1. \A f \in OutlineNames : a[f] = b[f]
    BY DEF OutlineNames
  <1> QED
    BY <1>1 DEF IsOutline

LEMMA DecidedParts ==
    ASSUME NEW base, IsOutline(base), NEW verdict, NEW number
    PROVE  LET out == Decided(base, verdict, number)
           IN  /\ IsOutline(out)
               /\ out.key = base.key
               /\ out.status = StatusOf(verdict)
               /\ out.gated = base.gated
               /\ out.timeline = Append(base.timeline, StatusOf(verdict))
               /\ out.decisions = Append(base.decisions,
                                         [verdict |-> verdict,
                                          request |-> number])
               /\ out.evaluation = [base.evaluation EXCEPT !.final = verdict]
  <1> DEFINE s == StatusOf(verdict)
             t == Append(base.timeline, s)
             d == Append(base.decisions, [verdict |-> verdict,
                                          request |-> number])
             e == [base.evaluation EXCEPT !.final = verdict]
             out == [base EXCEPT !.status = s, !.decisions = d,
                                 !.evaluation = e, !.timeline = t]
  <1>1. Decided(base, verdict, number) = out
    BY DEF Decided
  <1> HIDE DEF s, t, d, e
  <1>2. /\ IsOutline(out)
        /\ out.key = base.key /\ out.status = s /\ out.gated = base.gated
        /\ out.timeline = t /\ out.decisions = d /\ out.evaluation = e
    BY DEF IsOutline, OutlineNames
  <1> QED
    BY <1>1, <1>2 DEF s, t, d, e

LEMMA EvaluatedParts ==
    ASSUME NEW base, IsOutline(base), NEW outcome
    PROVE  LET out == Evaluated(base, outcome)
           IN  /\ IsOutline(out)
               /\ out.key = base.key
               /\ out.status = base.status
               /\ out.gated = base.gated
               /\ out.timeline = Append(base.timeline, base.status)
               /\ out.decisions = base.decisions
               /\ out.evaluation = [base.evaluation EXCEPT !.outcome =
                                      IF outcome = Nil THEN @ ELSE outcome]
  <1> DEFINE t == Append(base.timeline, base.status)
             e == [base.evaluation EXCEPT !.outcome =
                     IF outcome = Nil THEN @ ELSE outcome]
             out == [base EXCEPT !.evaluation = e, !.timeline = t]
  <1>1. Evaluated(base, outcome) = out
    BY DEF Evaluated
  <1> HIDE DEF t, e
  <1>2. /\ IsOutline(out)
        /\ out.key = base.key /\ out.status = base.status
        /\ out.gated = base.gated /\ out.timeline = t
        /\ out.decisions = base.decisions /\ out.evaluation = e
    BY DEF IsOutline, OutlineNames
  <1> QED
    BY <1>1, <1>2 DEF t, e

LEMMA RunParts ==
    ASSUME NEW base, IsOutline(base), NEW gated
    PROVE  LET out == RunPipeline(base, gated)
           IN  /\ IsOutline(out)
               /\ out.key = base.key
               /\ out.status = LastOf(PipelinePath(gated))
               /\ out.gated = gated
               /\ out.timeline = base.timeline \o PipelinePath(gated)
               /\ out.decisions = base.decisions
               /\ out.evaluation = base.evaluation
  <1> DEFINE path == PipelinePath(gated)
             s == LastOf(path)
             t == base.timeline \o path
             out == [base EXCEPT !.gated = gated, !.status = s, !.timeline = t]
  <1>1. RunPipeline(base, gated) = out
    BY DEF RunPipeline
  <1> HIDE DEF path, s, t
  <1>2. /\ IsOutline(out)
        /\ out.key = base.key /\ out.status = s /\ out.gated = gated
        /\ out.timeline = t /\ out.decisions = base.decisions
        /\ out.evaluation = base.evaluation
    BY DEF IsOutline, OutlineNames
  <1> QED
    BY <1>1, <1>2 DEF path, s, t

LEMMA RetriedParts ==
    ASSUME NEW base, IsOutline(base), NEW gated
    PROVE  LET out == Retried(base, gated)
           IN  /\ IsOutline(out)
               /\ out.key = base.key
               /\ out.status = LastOf(PipelinePath(gated))
               /\ out.gated = gated
               /\ out.timeline = Append(base.timeline, "CREATED")
                                   \o PipelinePath(gated)
               /\ out.decisions = base.decisions
               /\ out.evaluation = base.evaluation
  <1> DEFINE t == Append(base.timeline, "CREATED")
             reset == [base EXCEPT !.status = "CREATED", !.timeline = t]
  <1>1. Retried(base, gated) = RunPipeline(reset, gated)
    BY DEF Retried
  <1> HIDE DEF t
  <1>2. /\ IsOutline(reset) /\ reset.key = base.key /\ reset.timeline = t
        /\ reset.decisions = base.decisions
        /\ reset.evaluation = base.evaluation
    BY DEF IsOutline, OutlineNames
  <1> HIDE DEF reset
  <1>a. IsOutline(reset)
    BY <1>2
  <1> DEFINE out == RunPipeline(reset, gated)
             path == PipelinePath(gated)
  <1>3. /\ IsOutline(out)
        /\ out.key = reset.key /\ out.status = LastOf(path)
        /\ out.gated = gated /\ out.timeline = reset.timeline \o path
        /\ out.decisions = reset.decisions
        /\ out.evaluation = reset.evaluation
    BY <1>a, RunParts
  <1> HIDE DEF out, path
  <1>4. /\ out.key = base.key /\ out.timeline = t \o path
        /\ out.decisions = base.decisions
        /\ out.evaluation = base.evaluation
    BY <1>2, <1>3
  <1> QED
    BY <1>1, <1>3, <1>4 DEF t, out, path

LEMMA NewParts ==
    ASSUME NEW key, NEW gated
    PROVE  LET out == NewRecord(key, gated)
           IN  /\ IsOutline(out)
               /\ out.key = key
               /\ out.status = LastOf(PipelinePath(gated))
               /\ out.gated = gated
               /\ out.timeline = <<"CREATED">> \o PipelinePath(gated)
               /\ out.decisions = <<>>
               /\ out.evaluation = NoEvaluation
  <1> DEFINE t == <<"CREATED">>
             new == [Blank EXCEPT !.key = key, !.timeline = t]
  <1>1. NewRecord(key, gated) = RunPipeline(new, gated)
    BY DEF NewRecord
  <1> HIDE DEF t
  <1>2. IsOutline(Blank)
    BY DEF Blank, IsOutline, OutlineNames
  <1>3. IsOutline(new)
    BY <1>2 DEF IsOutline, OutlineNames
  <1>4. /\ new.key = key /\ new.timeline = t
        /\ new.decisions = <<>> /\ new.evaluation = NoEvaluation
    BY DEF Blank
  <1> HIDE DEF new
  <1> DEFINE out == RunPipeline(new, gated)
             path == PipelinePath(gated)
  <1>5. /\ IsOutline(out)
        /\ out.key = new.key /\ out.status = LastOf(path)
        /\ out.gated = gated /\ out.timeline = new.timeline \o path
        /\ out.decisions = new.decisions
        /\ out.evaluation = new.evaluation
    BY <1>3, RunParts
  <1> HIDE DEF out, path
  <1>6. /\ out.key = key /\ out.timeline = t \o path
        /\ out.decisions = <<>> /\ out.evaluation = NoEvaluation
    BY <1>4, <1>5
  <1> QED
    BY <1>1, <1>5, <1>6 DEF t, out, path

LEMMA AbstractParts ==
    ASSUME NEW rec
    PROVE  /\ IsOutline(Abstract(rec))
           /\ Abstract(rec).key = IF rec.key = Empty THEN Nil ELSE rec.key
           /\ Abstract(rec).status = rec.status
           /\ Abstract(rec).gated = rec.result.human
           /\ Abstract(rec).timeline = States(rec.timeline)
           /\ Abstract(rec).decisions = Submissions(rec.decisions)
           /\ Abstract(rec).evaluation = Outlined(rec.evaluation)
  <1> DEFINE key == IF rec.key = Empty THEN Nil ELSE rec.key
             t == States(rec.timeline)
             d == Submissions(rec.decisions)
             e == Outlined(rec.evaluation)
  <1>1. Abstract(rec) = [key |-> key, status |-> rec.status,
                         gated |-> rec.result.human, timeline |-> t,
                         decisions |-> d, evaluation |-> e]
    BY DEF Abstract, States, Submissions, Outlined
  <1> HIDE DEF key, t, d, e
  <1> QED
    BY <1>1 DEF IsOutline, OutlineNames, key, t, d, e

\* Sequences as functions.
LEMMA JoinIsFunction ==
    ASSUME NEW S, NEW s \in Seq(S), NEW t \in Seq(S)
    PROVE  /\ Len(s) \in Nat /\ DOMAIN s = 1 .. Len(s)
           /\ Len(t) \in Nat /\ DOMAIN t = 1 .. Len(t)
           /\ s \o t = [i \in 1 .. Len(s) + Len(t) |->
                          IF i <= Len(s) THEN s[i] ELSE t[i - Len(s)]]
  <1>1. /\ Len(s) \in Nat /\ DOMAIN s = 1 .. Len(s)
        /\ Len(t) \in Nat /\ DOMAIN t = 1 .. Len(t)
    BY LenProperties
  <1>2. /\ s \o t \in Seq(S)
        /\ Len(s \o t) = Len(s) + Len(t)
        /\ \A i \in 1 .. Len(s) + Len(t) :
             (s \o t)[i] = IF i <= Len(s) THEN s[i] ELSE t[i - Len(s)]
    BY ConcatProperties
  <1> DEFINE st == s \o t
  <1>3. st \in [1 .. Len(st) -> S]
    BY <1>2, LenProperties
  <1>4. /\ Len(st) = Len(s) + Len(t)
        /\ \A i \in 1 .. Len(s) + Len(t) :
             st[i] = IF i <= Len(s) THEN s[i] ELSE t[i - Len(s)]
    BY <1>2
  <1> HIDE DEF st
  <1>5. st = [i \in 1 .. Len(s) + Len(t) |->
                IF i <= Len(s) THEN s[i] ELSE t[i - Len(s)]]
    BY <1>3, <1>4
  <1> QED
    BY <1>1, <1>5 DEF st

LEMMA FunctionIsSeq ==
    ASSUME NEW n \in Nat, NEW f, f = [i \in 1 .. n |-> f[i]]
    PROVE  f \in Seq({f[i] : i \in 1 .. n}) /\ Len(f) = n
  <1> DEFINE V == {f[i] : i \in 1 .. n}
  <1>1. f \in [1 .. n -> V]
    OBVIOUS
  <1> HIDE DEF V
  <1>2. f \in Seq(V) /\ DOMAIN f = 1 .. n
    BY <1>1, SeqDef
  <1>3. Len(f) = n
    BY <1>2, LenProperties
  <1> QED
    BY <1>2, <1>3 DEF V

LEMMA SeqWider ==
    ASSUME NEW S, NEW T, S \subseteq T, NEW s \in Seq(S)
    PROVE  s \in Seq(T)
  <1>1. Len(s) \in Nat /\ s \in [1 .. Len(s) -> S]
    BY LenProperties
  <1> DEFINE n == Len(s)
  <1> HIDE DEF n
  <1>2. n \in Nat /\ s \in [1 .. n -> T]
    BY <1>1 DEF n
  <1> QED
    BY <1>2, SeqDef

LEMMA StatesJoined ==
    ASSUME NEW S, NEW s \in Seq(S), NEW t \in Seq(S)
    PROVE  States(s \o t) = States(s) \o States(t)
  <1> DEFINE a == States(s)
             b == States(t)
             joint == s \o t
             n == Len(s)
             k == Len(t)
  <1>1. /\ n \in Nat /\ DOMAIN s = 1 .. n
        /\ k \in Nat /\ DOMAIN t = 1 .. k
        /\ joint = [i \in 1 .. n + k |-> IF i <= n THEN s[i] ELSE t[i - n]]
    BY JoinIsFunction
  <1> HIDE DEF n, k
  <1>2. /\ a = [i \in 1 .. n |-> a[i]] /\ \A i \in 1 .. n : a[i] = s[i].state
        /\ b = [i \in 1 .. k |-> b[i]] /\ \A i \in 1 .. k : b[i] = t[i].state
    BY <1>1 DEF States
  <1>3. States(joint) = [i \in DOMAIN joint |-> joint[i].state]
    BY DEF States
  <1> HIDE DEF a, b, joint
  <1>4. /\ DOMAIN joint = 1 .. n + k
        /\ \A i \in 1 .. n + k : joint[i] = IF i <= n THEN s[i] ELSE t[i - n]
    BY <1>1
  <1> DEFINE V == {a[i] : i \in 1 .. n}
             W == {b[i] : i \in 1 .. k}
  <1>5. a \in Seq(V) /\ Len(a) = n /\ b \in Seq(W) /\ Len(b) = k
    BY <1>1, <1>2, FunctionIsSeq
  <1> HIDE DEF V, W
  <1> DEFINE U == V \cup W
  <1>a. V \subseteq U /\ W \subseteq U
    OBVIOUS
  <1> HIDE DEF U
  <1>6. a \in Seq(U) /\ b \in Seq(U)
    BY <1>5, <1>a, SeqWider
  <1>b. a \o b = [i \in 1 .. Len(a) + Len(b) |->
                    IF i <= Len(a) THEN a[i] ELSE b[i - Len(a)]]
    BY <1>6, JoinIsFunction
  <1>7. a \o b = [i \in 1 .. n + k |-> IF i <= n THEN a[i] ELSE b[i - n]]
    BY <1>5, <1>b
  <1>8. \A i \in 1 .. n + k :
          joint[i].state = IF i <= n THEN a[i] ELSE b[i - n]
    BY <1>1, <1>2, <1>4
  <1>9. States(joint) = a \o b
    BY <1>3, <1>4, <1>7, <1>8
  <1> QED
    BY <1>9 DEF a, b, joint

LEMMA SubmissionsAppended ==
    ASSUME NEW S, NEW s \in Seq(S), NEW e \in S
    PROVE  Submissions(Append(s, e)) =
             Append(Submissions(s), [verdict |-> e.verdict,
                                     request |-> e.request])
  <1> DEFINE Of(row) == [verdict |-> row.verdict, request |-> row.request]
             a == Submissions(s)
             b == <<Of(e)>>
             t == <<e>>
             joint == s \o t
             n == Len(s)
  <1>1. t \in Seq(S) /\ Len(t) = 1 /\ t[1] = e
    OBVIOUS
  <1>2. Append(s, e) = joint /\ Append(a, Of(e)) = a \o b
    OBVIOUS
  <1> HIDE DEF t
  <1>3. /\ n \in Nat /\ DOMAIN s = 1 .. n
        /\ joint = [i \in 1 .. n + 1 |-> IF i <= n THEN s[i] ELSE t[i - n]]
    BY <1>1, JoinIsFunction
  <1> HIDE DEF n
  <1>4. a = [i \in 1 .. n |-> a[i]] /\ \A i \in 1 .. n : a[i] = Of(s[i])
    BY <1>3 DEF Submissions
  <1>5. Submissions(joint) = [i \in DOMAIN joint |-> Of(joint[i])]
    BY DEF Submissions
  <1> HIDE DEF a, joint
  <1>6. /\ DOMAIN joint = 1 .. n + 1
        /\ \A i \in 1 .. n + 1 : joint[i] = IF i <= n THEN s[i] ELSE t[i - n]
    BY <1>3
  <1> HIDE DEF Of
  <1> DEFINE V == {a[i] : i \in 1 .. n}
             W == {Of(e)}
  <1>7. a \in Seq(V) /\ Len(a) = n
    BY <1>3, <1>4, FunctionIsSeq
  <1>8. b \in Seq(W) /\ Len(b) = 1 /\ b[1] = Of(e)
    OBVIOUS
  <1> HIDE DEF V, W, b
  <1> DEFINE U == V \cup W
  <1>a. V \subseteq U /\ W \subseteq U
    OBVIOUS
  <1> HIDE DEF U
  <1>9. a \in Seq(U) /\ b \in Seq(U)
    BY <1>7, <1>8, <1>a, SeqWider
  <1>b. a \o b = [i \in 1 .. Len(a) + Len(b) |->
                    IF i <= Len(a) THEN a[i] ELSE b[i - Len(a)]]
    BY <1>9, JoinIsFunction
  <1>10. a \o b = [i \in 1 .. n + 1 |-> IF i <= n THEN a[i] ELSE b[i - n]]
    BY <1>7, <1>8, <1>b
  <1>11. ASSUME NEW i \in 1 .. n + 1
         PROVE  Of(joint[i]) = IF i <= n THEN a[i] ELSE b[i - n]
    <2>1. CASE i <= n
      <3>1. i \in 1 .. n /\ joint[i] = s[i]
        BY <1>3, <1>6, <2>1
      <3> QED
        BY <1>4, <2>1, <3>1
    <2>2. CASE ~(i <= n)
      <3>1. i - n = 1 /\ joint[i] = t[1]
        BY <1>3, <1>6, <2>2
      <3> QED
        BY <1>1, <1>8, <2>2, <3>1
    <2> QED
      BY <2>1, <2>2
  <1>12. Submissions(joint) = a \o b
    BY <1>5, <1>6, <1>10, <1>11
  <1> QED
    BY <1>2, <1>12 DEF a, Of

LEMMA StatesAppended ==
    ASSUME NEW S, NEW s \in Seq(S), NEW e \in S
    PROVE  States(Append(s, e)) = Append(States(s), e.state)
  <1> DEFINE t == <<e>>
             a == States(s)
  <1>1. t \in Seq(S) /\ Append(s, e) = s \o t
    OBVIOUS
  <1>2. States(t) = <<e.state>>
    BY DEF States
  <1> HIDE DEF t
  <1>3. States(s \o t) = States(s) \o States(t)
    BY <1>1, StatesJoined
  <1>4. Append(a, e.state) = a \o <<e.state>>
    OBVIOUS
  <1> QED
    BY <1>1, <1>2, <1>3, <1>4

LEMMA StatesOfPipeline ==
    ASSUME NEW human \in BOOLEAN, NEW now \in Int
    PROVE  States(PipelineEvents(human, now)) = PipelinePath(human)
  <1> DEFINE path == PipelinePath(human)
             events == PipelineEvents(human, now)
  <1>1. path \in Seq(Statuses)
    BY PathFacts
  <1>2. events = [i \in DOMAIN path |-> Event(path[i], "pipeline", now)]
    BY DEF PipelineEvents
  <1> HIDE DEF path, events
  <1>3. path = [i \in DOMAIN path |-> path[i]]
    BY <1>1, SeqDef
  <1>4. DOMAIN events = DOMAIN path /\ \A i \in DOMAIN path : events[i].state = path[i]
    BY <1>2 DEF Event
  <1>5. States(events) = path
    BY <1>3, <1>4 DEF States
  <1> QED
    BY <1>5 DEF path, events

\* What an operation saves is the lifecycle's outcome of it.
LEMMA AbstractDecided ==
    ASSUME NEW old, Whole(old), NEW rec, NEW verdict \in Verdicts, NEW number,
           NEW now \in Int, DecidedFrom(rec, old, verdict, number, now)
    PROVE  Abstract(rec) = Decided(Abstract(old), verdict, number)
  <1>1. rec.key = old.key /\ rec.result = old.result
    BY DEF DecidedFrom, SameFields, FieldNames
  <1>2. Submissions(rec.decisions) =
          Append(Submissions(old.decisions),
                 [verdict |-> verdict, request |-> number])
    <2> DEFINE row == [verdict |-> verdict, request |-> number, at |-> now]
    <2>1. /\ row \in DecisionRows
          /\ rec.decisions = Append(old.decisions, row)
          /\ old.decisions \in Seq(DecisionRows)
      <3>1. rec.decisions \in Seq(DecisionRows)
        BY DEF DecidedFrom, Whole, Historied
      <3> QED
        BY <3>1 DEF DecidedFrom, Whole, Historied
    <2>2. row.verdict = verdict /\ row.request = number
      OBVIOUS
    <2> HIDE DEF row
    <2> QED
      BY <2>1, <2>2, SubmissionsAppended
  <1>3. States(rec.timeline) = Append(States(old.timeline), StatusOf(verdict))
    <2> DEFINE event == Event(StatusOf(verdict), "decision", now)
    <2>1. event \in Events /\ event.state = StatusOf(verdict)
      BY DEF Event, Events, Origins, StatusOf, Verdicts, Statuses
    <2>2. /\ rec.timeline = Append(old.timeline, event)
          /\ old.timeline \in Seq(Events)
      BY DEF DecidedFrom, Whole, Historied
    <2> HIDE DEF event
    <2> QED
      BY <2>1, <2>2, StatesAppended
  <1>4. Outlined(rec.evaluation) =
          [Outlined(old.evaluation) EXCEPT !.final = verdict]
    <2>1. /\ rec.evaluation = [EvaluationFor(old, now) EXCEPT !.final = verdict]
          /\ rec.evaluation \in EvaluationValues
          /\ old.evaluation \in EvaluationValues \cup {Nil}
      BY DEF DecidedFrom, Whole, Historied
    <2>2. rec.evaluation # Nil
      BY <2>1, NilApart
    <2>3. EvaluationFor(old, now) \in EvaluationValues
      BY <2>1 DEF EvaluationFor, NewEvaluation, EvaluationValues
    <2>4. /\ rec.evaluation.final = verdict
          /\ rec.evaluation.outcome = EvaluationFor(old, now).outcome
      BY <2>1, <2>3 DEF EvaluationValues
    <2>5. Outlined(rec.evaluation) =
            [final |-> verdict, outcome |-> EvaluationFor(old, now).outcome]
      BY <2>2, <2>4 DEF Outlined
    <2>6. /\ old.evaluation = Nil =>
               /\ Outlined(old.evaluation) = [final |-> Nil, outcome |-> Nil]
               /\ EvaluationFor(old, now).outcome = Nil
          /\ old.evaluation # Nil =>
               /\ Outlined(old.evaluation) =
                    [final |-> old.evaluation.final,
                     outcome |-> old.evaluation.outcome]
               /\ EvaluationFor(old, now).outcome = old.evaluation.outcome
      BY DEF Outlined, NoEvaluation, EvaluationFor, NewEvaluation
    <2> QED
      BY <2>5, <2>6
  <1>5. rec.status = StatusOf(verdict)
    BY DEF DecidedFrom
  <1> DEFINE base == Abstract(old)
             a == Abstract(rec)
             b == Decided(base, verdict, number)
  <1>6. /\ IsOutline(a) /\ IsOutline(base)
        /\ a.key = base.key /\ a.status = StatusOf(verdict)
        /\ a.gated = base.gated
        /\ a.timeline = Append(base.timeline, StatusOf(verdict))
        /\ a.decisions = Append(base.decisions, [verdict |-> verdict,
                                                 request |-> number])
        /\ a.evaluation = [base.evaluation EXCEPT !.final = verdict]
    BY <1>1, <1>2, <1>3, <1>4, <1>5, AbstractParts
  <1> HIDE DEF a, base
  <1>a. IsOutline(base)
    BY <1>6
  <1>7. /\ IsOutline(b)
        /\ b.key = base.key /\ b.status = StatusOf(verdict)
        /\ b.gated = base.gated
        /\ b.timeline = Append(base.timeline, StatusOf(verdict))
        /\ b.decisions = Append(base.decisions, [verdict |-> verdict,
                                                 request |-> number])
        /\ b.evaluation = [base.evaluation EXCEPT !.final = verdict]
    BY <1>a, DecidedParts
  <1> HIDE DEF b
  <1>8. a = b
    BY <1>6, <1>7, SameOutline
  <1> QED
    BY <1>8 DEF a, b, base

LEMMA AbstractEvaluated ==
    ASSUME NEW old, Whole(old), NEW rec, NEW update \in Updates,
           NEW now \in Int, EvaluatedFrom(rec, old, update, now)
    PROVE  Abstract(rec) = Evaluated(Abstract(old), update.outcome)
  <1>1. /\ rec.key = old.key /\ rec.result = old.result
        /\ rec.status = old.status /\ rec.decisions = old.decisions
    BY DEF EvaluatedFrom, SameFields, FieldNames
  <1>2. States(rec.timeline) = Append(States(old.timeline), old.status)
    <2> DEFINE event == Event(old.status, "evaluation", now)
    <2>1. event \in Events /\ event.state = old.status
      BY DEF Event, Events, Origins, Whole, Historied
    <2>2. /\ rec.timeline = Append(old.timeline, event)
          /\ old.timeline \in Seq(Events)
      BY DEF EvaluatedFrom, Whole, Historied
    <2> HIDE DEF event
    <2> QED
      BY <2>1, <2>2, StatesAppended
  <1> DEFINE e == Outlined(old.evaluation)
             o == update.outcome
  <1>3. Outlined(rec.evaluation) =
          [e EXCEPT !.outcome = IF o = Nil THEN @ ELSE o]
    <2>1. /\ rec.evaluation \in EvaluationValues
          /\ rec.evaluation.final = EvaluationFor(old, now).final
          /\ rec.evaluation.outcome =
               IF o = Nil THEN EvaluationFor(old, now).outcome ELSE o
      BY DEF EvaluatedFrom
    <2>2. rec.evaluation # Nil
      BY <2>1, NilApart
    <2>3. e = [final |-> EvaluationFor(old, now).final,
               outcome |-> EvaluationFor(old, now).outcome]
      BY DEF Outlined, NoEvaluation, EvaluationFor, NewEvaluation
    <2> HIDE DEF e, o
    <2>4. Outlined(rec.evaluation) =
            [final |-> EvaluationFor(old, now).final,
             outcome |-> IF o = Nil THEN EvaluationFor(old, now).outcome ELSE o]
      BY <2>1, <2>2 DEF Outlined
    <2> QED
      BY <2>3, <2>4
  <1> DEFINE base == Abstract(old)
             a == Abstract(rec)
             b == Evaluated(base, o)
  <1>4. /\ IsOutline(a) /\ IsOutline(base)
        /\ a.key = base.key /\ a.status = base.status
        /\ a.gated = base.gated
        /\ a.timeline = Append(base.timeline, base.status)
        /\ a.decisions = base.decisions
        /\ a.evaluation = [base.evaluation EXCEPT !.outcome =
                             IF o = Nil THEN @ ELSE o]
    BY <1>1, <1>2, <1>3, AbstractParts
  <1> HIDE DEF a, base
  <1>5. /\ IsOutline(b)
        /\ b.key = base.key /\ b.status = base.status
        /\ b.gated = base.gated
        /\ b.timeline = Append(base.timeline, base.status)
        /\ b.decisions = base.decisions
        /\ b.evaluation = [base.evaluation EXCEPT !.outcome =
                             IF o = Nil THEN @ ELSE o]
    BY <1>4, EvaluatedParts
  <1> HIDE DEF b
  <1>6. a = b
    BY <1>4, <1>5, SameOutline
  <1> QED
    BY <1>6 DEF a, b, base

LEMMA AbstractRetried ==
    ASSUME NEW old, Whole(old), NEW rec, NEW counter, NEW now \in Int,
           RetriedFrom(rec, old, counter, now)
    PROVE  /\ rec.result.human \in BOOLEAN
           /\ Abstract(rec) = Retried(Abstract(old), rec.result.human)
  <1> DEFINE human == rec.result.human
             path == PipelinePath(human)
             event == Event("CREATED", "retry", now)
             events == PipelineEvents(human, now)
             t == States(old.timeline)
  <1>1. human \in BOOLEAN
    BY DEF RetriedFrom, Whole, Assessed
  <1>2. /\ rec.key = old.key /\ rec.decisions = old.decisions
        /\ rec.evaluation = old.evaluation
    BY DEF RetriedFrom, SameFields, IdentityNames
  <1>3. rec.status = LastOf(path)
    BY <1>1, PathFacts DEF RetriedFrom
  <1>4. States(rec.timeline) = Append(t, "CREATED") \o path
    <2>1. event \in Events /\ event.state = "CREATED"
      BY DEF Event, Events, Origins, Statuses
    <2>2. events \in Seq(Events) /\ States(events) = path
      BY <1>1, PipelineEventFacts, StatesOfPipeline
    <2>3. /\ rec.timeline = Append(old.timeline, event) \o events
          /\ old.timeline \in Seq(Events)
      BY DEF RetriedFrom, Whole, Historied
    <2> HIDE DEF event, events, path
    <2>4. Append(old.timeline, event) \in Seq(Events)
      BY <2>1, <2>3, Appending
    <2> DEFINE begun == Append(old.timeline, event)
    <2>5. States(begun) = Append(t, "CREATED")
      BY <2>1, <2>3, StatesAppended
    <2> HIDE DEF begun
    <2>6. States(begun \o events) = States(begun) \o States(events)
      BY <2>2, <2>4, StatesJoined DEF begun
    <2> QED
      BY <2>2, <2>3, <2>5, <2>6 DEF begun
  <1> DEFINE base == Abstract(old)
             a == Abstract(rec)
             b == Retried(base, human)
  <1>5. /\ IsOutline(a) /\ IsOutline(base)
        /\ a.key = base.key /\ a.status = LastOf(path) /\ a.gated = human
        /\ a.timeline = Append(base.timeline, "CREATED") \o path
        /\ a.decisions = base.decisions /\ a.evaluation = base.evaluation
    BY <1>2, <1>3, <1>4, AbstractParts
  <1> HIDE DEF a, base
  <1>6. /\ IsOutline(b)
        /\ b.key = base.key /\ b.status = LastOf(path) /\ b.gated = human
        /\ b.timeline = Append(base.timeline, "CREATED") \o path
        /\ b.decisions = base.decisions /\ b.evaluation = base.evaluation
    BY <1>5, RetriedParts
  <1> HIDE DEF b
  <1>7. a = b
    BY <1>5, <1>6, SameOutline
  <1> QED
    BY <1>1, <1>7 DEF a, b, base

LEMMA AbstractCreated ==
    ASSUME NEW rec, NEW req, NEW counter, NEW now \in Int,
           CreatedFrom(rec, req, counter, now)
    PROVE  /\ rec.result.human \in BOOLEAN
           /\ Abstract(rec) =
                NewRecord(IF rec.key = Empty THEN Nil ELSE rec.key,
                          rec.result.human)
  <1> DEFINE human == rec.result.human
             path == PipelinePath(human)
             event == Event("CREATED", "service", now)
             events == PipelineEvents(human, now)
             key == IF rec.key = Empty THEN Nil ELSE rec.key
  <1>1. human \in BOOLEAN
    BY DEF CreatedFrom, Whole, Assessed
  <1>2. rec.status = LastOf(path)
    BY <1>1, PathFacts DEF CreatedFrom
  <1>3. States(rec.timeline) = <<"CREATED">> \o path
    <2>1. /\ <<event>> \in Seq(Events)
          /\ States(<<event>>) = <<"CREATED">>
      <3>1. event \in Events /\ event.state = "CREATED"
        BY DEF Event, Events, Origins, Statuses
      <3> HIDE DEF event
      <3>2. <<event>> \in Seq(Events)
        BY <3>1
      <3>3. States(<<event>>) = <<event.state>>
        BY DEF States
      <3> QED
        BY <3>1, <3>2, <3>3
    <2>2. events \in Seq(Events) /\ States(events) = path
      BY <1>1, PipelineEventFacts, StatesOfPipeline
    <2>3. rec.timeline = <<event>> \o events
      BY DEF CreatedFrom
    <2> DEFINE begun == <<event>>
               first == <<"CREATED">>
    <2>4. /\ begun \in Seq(Events) /\ States(begun) = first
          /\ rec.timeline = begun \o events
      BY <2>1, <2>3
    <2> HIDE DEF begun, events, path, first
    <2>5. begun \in Seq(Events) /\ events \in Seq(Events)
      BY <2>2, <2>4
    <2>6. States(begun \o events) = States(begun) \o States(events)
      BY <2>5, StatesJoined
    <2>7. States(rec.timeline) = first \o path
      BY <2>2, <2>4, <2>6
    <2> QED
      BY <2>7 DEF first
  <1>4. Submissions(rec.decisions) = <<>>
    <2>1. rec.decisions = <<>>
      BY DEF CreatedFrom
    <2>2. Submissions(<<>>) = <<>>
      BY DEF Submissions
    <2> QED
      BY <2>1, <2>2
  <1>5. Outlined(rec.evaluation) = NoEvaluation
    <2>1. rec.evaluation = NewEvaluation(now) /\ rec.evaluation # Nil
      BY NilApart DEF CreatedFrom
    <2>2. rec.evaluation.final = Nil /\ rec.evaluation.outcome = Nil
      BY <2>1 DEF NewEvaluation
    <2> QED
      BY <2>1, <2>2 DEF Outlined, NoEvaluation
  <1> DEFINE a == Abstract(rec)
             b == NewRecord(key, human)
  <1>6. /\ IsOutline(a)
        /\ a.key = key /\ a.status = LastOf(path) /\ a.gated = human
        /\ a.timeline = <<"CREATED">> \o path
        /\ a.decisions = <<>> /\ a.evaluation = NoEvaluation
    BY <1>2, <1>3, <1>4, <1>5, AbstractParts
  <1> HIDE DEF a, key
  <1>7. /\ IsOutline(b)
        /\ b.key = key /\ b.status = LastOf(path) /\ b.gated = human
        /\ b.timeline = <<"CREATED">> \o path
        /\ b.decisions = <<>> /\ b.evaluation = NoEvaluation
    BY NewParts
  <1> HIDE DEF b
  <1>8. a = b
    BY <1>6, <1>7, SameOutline
  <1> QED
    BY <1>1, <1>8 DEF a, b, key

\* What one request may make of the lifecycle's records.
Made(base) ==
    {Decided(base, v, r) : v \in Verdicts, r \in 1 .. MaxServed}
      \cup {Evaluated(base, o) : o \in Outcomes \cup {Nil}}
      \cup (IF base.status = "FAILED"
              THEN {Retried(base, g) : g \in BOOLEAN} ELSE {})

Opens(before, after) ==
    \E id \in Nat \ DOMAIN before, k \in Keys \cup {Nil}, g \in BOOLEAN :
      after = Put(before, id, NewRecord(k, g))

Operates(before, after) ==
    \E id \in DOMAIN before : \E rec \in Made(before[id]) :
      after = Put(before, id, rec)

Progress(before, after) ==
    after = before \/ Opens(before, after) \/ Operates(before, after)

LEMMA ShownSaved ==
    ASSUME ClockOK, NEW m, SideOK(m), m.store = "memory",
           NEW rec, NEW n, Writes(m, rec, n)
    PROVE  Shown(Commit([m EXCEPT !.counter = n], rec).side.records) =
             Put(Shown(m.records), rec.id, Abstract(rec))
  <1> DEFINE out == Commit([m EXCEPT !.counter = n], rec).side
  <1>1. Keeps(m, out, rec, n)
    BY MemoryCommits
  <1> HIDE DEF out
  <1>2. out.records = Put(m.records, rec.id, rec)
    BY <1>1 DEF Keeps
  <1> DEFINE old == m.records
             new == out.records
             id == rec.id
  <1>3. /\ DOMAIN new = DOMAIN old \cup {id}
        /\ new[id] = rec
        /\ \A x \in DOMAIN old \ {id} : new[x] = old[x]
    <2>1. new = Put(old, id, rec)
      BY <1>2
    <2> HIDE DEF old, new, id
    <2> QED
      BY <2>1 DEF Put
  <1> HIDE DEF old, new, id
  <1>4. /\ Shown(new) = [x \in DOMAIN old \cup {id} |-> Abstract(new[x])]
        /\ Shown(old) = [x \in DOMAIN old |-> Abstract(old[x])]
    BY <1>3 DEF Shown
  <1>5. Put(Shown(old), id, Abstract(rec)) =
          [x \in DOMAIN old \cup {id} |->
             IF x = id THEN Abstract(rec) ELSE Shown(old)[x]]
    BY <1>4 DEF Put
  <1>6. \A x \in DOMAIN old \cup {id} :
          Abstract(new[x]) = IF x = id THEN Abstract(rec) ELSE Shown(old)[x]
    BY <1>3, <1>4
  <1>7. Shown(new) = Put(Shown(old), id, Abstract(rec))
    BY <1>4, <1>5, <1>6
  <1> QED
    BY <1>7 DEF old, new, id, out

LEMMA ShownParts ==
    ASSUME NEW m, m.store = "memory"
    PROVE  /\ DOMAIN Shown(m.records) = Stored(m)
           /\ \A id \in Stored(m) :
                Shown(m.records)[id] = Abstract(Load(m, id))
  BY DEF Shown, Stored, Load

LEMMA OperatedProgress ==
    ASSUME ClockOK, NEW m, SideOK(m), m.store = "memory",
           NEW rec, NEW n, Writes(m, rec, n), rec.id \in Stored(m),
           Abstract(rec) \in Made(Abstract(Load(m, rec.id)))
    PROVE  Progress(Shown(m.records),
                    Shown(Commit([m EXCEPT !.counter = n], rec).side.records))
  <1> DEFINE before == Shown(m.records)
             after == Shown(Commit([m EXCEPT !.counter = n], rec).side.records)
  <1>1. after = Put(before, rec.id, Abstract(rec))
    BY ShownSaved
  <1>2. DOMAIN before = Stored(m)
        /\ before[rec.id] = Abstract(Load(m, rec.id))
    BY ShownParts
  <1> HIDE DEF before, after
  <1>3. Operates(before, after)
    BY <1>1, <1>2 DEF Operates
  <1>4. Progress(before, after)
    BY <1>3 DEF Progress
  <1> QED
    BY <1>4 DEF before, after

LEMMA DecisionProgress ==
    ASSUME ClockOK, served < MaxServed, NEW m, SideOK(m), m.store = "memory",
           NEW id, NEW verdict
    PROVE  Progress(Shown(m.records),
             Shown(SubmitHumanDecision(m, id, verdict, clock).side.records))
  <1> DEFINE old == Load(m, id)
             rec == DecidedDraft(old, verdict, served + 1, clock)
  <1>1. SubmitHumanDecision(m, id, verdict, clock) =
          IF id \notin Stored(m) THEN Answer(m, "not_found", Unknown)
          ELSE IF verdict \notin Verdicts
            THEN Answer(m, "internal_error", Unknown)
          ELSE Commit(m, rec)
    BY DEF SubmitHumanDecision, DecidedDraft
  <1>2. CASE id \in Stored(m) /\ verdict \in Verdicts
    <2>1. Writes(m, rec, m.counter)
      BY <1>2 DEF Writes, Decides
    <2>2. Whole(old) /\ old.id = id
      BY <1>2, LoadedIsWhole
    <2>3. /\ DecidedFrom(rec, old, verdict, served + 1, clock)
          /\ clock \in Int /\ served + 1 \in 1 .. MaxServed
      BY <1>2, <2>2, DecidedFields, SystemAssumption DEF ClockOK
    <2> DEFINE number == served + 1
    <2>4. rec.id = id
      BY <2>2, <2>3 DEF DecidedFrom, SameFields, FieldNames
    <2>a. number \in 1 .. MaxServed /\ DecidedFrom(rec, old, verdict, number, clock)
      BY <2>3
    <2> HIDE DEF old, rec, number
    <2>5. Abstract(rec) = Decided(Abstract(old), verdict, number)
      BY <1>2, <2>2, <2>3, <2>a, AbstractDecided
    <2>6. Abstract(rec) \in Made(Abstract(old))
      BY <1>2, <2>a, <2>5 DEF Made
    <2>7. Progress(Shown(m.records),
                   Shown(Commit([m EXCEPT !.counter = m.counter],
                                rec).side.records))
      BY <1>2, <2>1, <2>4, <2>6, OperatedProgress DEF old
    <2>8. Progress(Shown(m.records), Shown(Commit(m, rec).side.records))
      BY <2>7, NoDrawing
    <2> QED
      BY <1>1, <1>2, <2>8
  <1>3. CASE ~(id \in Stored(m) /\ verdict \in Verdicts)
    BY <1>1, <1>3 DEF Answer, Progress
  <1> QED
    BY <1>2, <1>3

LEMMA EvaluationProgress ==
    ASSUME ClockOK, NEW m, SideOK(m), m.store = "memory",
           NEW id, NEW update \in Updates
    PROVE  Progress(Shown(m.records),
             Shown(UpdateEvaluation(m, id, update, clock).side.records))
  <1> DEFINE old == Load(m, id)
             rec == EvaluatedDraft(old, update, clock)
  <1>1. UpdateEvaluation(m, id, update, clock) =
          IF id \notin Stored(m) THEN Answer(m, "not_found", Unknown)
          ELSE Commit(m, rec)
    BY DEF UpdateEvaluation, EvaluatedDraft
  <1>2. CASE id \in Stored(m)
    <2>1. Writes(m, rec, m.counter)
      BY <1>2 DEF Writes, Evaluates
    <2>2. Whole(old) /\ old.id = id
      BY <1>2, LoadedIsWhole
    <2>3. EvaluatedFrom(rec, old, update, clock) /\ clock \in Int
      BY <2>2, EvaluatedFields DEF ClockOK
    <2>4. rec.id = id
      BY <2>2, <2>3 DEF EvaluatedFrom, SameFields, FieldNames
    <2>5. update.outcome \in Outcomes \cup {Nil}
      BY SystemAssumption
    <2> HIDE DEF old, rec
    <2>6. Abstract(rec) = Evaluated(Abstract(old), update.outcome)
      BY <2>2, <2>3, AbstractEvaluated
    <2>7. Abstract(rec) \in Made(Abstract(old))
      BY <2>5, <2>6 DEF Made
    <2>8. Progress(Shown(m.records),
                   Shown(Commit([m EXCEPT !.counter = m.counter],
                                rec).side.records))
      BY <1>2, <2>1, <2>4, <2>7, OperatedProgress DEF old
    <2>9. Progress(Shown(m.records), Shown(Commit(m, rec).side.records))
      BY <2>8, NoDrawing
    <2> QED
      BY <1>1, <1>2, <2>9
  <1>3. CASE id \notin Stored(m)
    BY <1>1, <1>3 DEF Answer, Progress
  <1> QED
    BY <1>2, <1>3

LEMMA RetryProgress ==
    ASSUME ClockOK, NEW m, SideOK(m), m.store = "memory", NEW id
    PROVE  Progress(Shown(m.records),
                    Shown(RetryReview(m, id, clock).side.records))
  <1> DEFINE old == Load(m, id)
             rec == RetriedDraft(old, m.counter, clock)
             n == m.counter + Drawn(RequestFromRecord(old))
  <1>1. RetryReview(m, id, clock) =
          IF id \notin Stored(m) THEN Answer(m, "not_found", Unknown)
          ELSE IF old.status # "FAILED" THEN Answer(m, "conflict", Unknown)
          ELSE Commit([m EXCEPT !.counter = n], rec)
    BY DEF RetryReview, RetriedDraft
  <1>2. CASE id \in Stored(m) /\ old.status = "FAILED"
    <2>1. Writes(m, rec, n)
      BY <1>2 DEF Writes, Retries
    <2>2. Whole(old) /\ old.id = id
      BY <1>2, LoadedIsWhole
    <2>3. RetriedFrom(rec, old, m.counter, clock) /\ clock \in Int
      BY <2>2, RetriedFields DEF ClockOK, SideOK
    <2> DEFINE k == m.counter
    <2>4. rec.id = id /\ RetriedFrom(rec, old, k, clock)
      BY <2>2, <2>3 DEF RetriedFrom, SameFields, IdentityNames
    <2> HIDE DEF old, rec, n, k
    <2>5. /\ rec.result.human \in BOOLEAN
          /\ Abstract(rec) = Retried(Abstract(old), rec.result.human)
      BY <2>2, <2>3, <2>4, AbstractRetried
    <2>6. Abstract(old).status = "FAILED"
      BY <1>2, AbstractParts
    <2>7. Abstract(rec) \in Made(Abstract(old))
      BY <2>5, <2>6 DEF Made
    <2>8. Progress(Shown(m.records),
                   Shown(Commit([m EXCEPT !.counter = n], rec).side.records))
      BY <1>2, <2>1, <2>4, <2>7, OperatedProgress DEF old
    <2> QED
      BY <1>1, <1>2, <2>8
  <1>3. CASE ~(id \in Stored(m) /\ old.status = "FAILED")
    BY <1>1, <1>3 DEF Answer, Progress
  <1> QED
    BY <1>2, <1>3

LEMMA CreateProgress ==
    ASSUME ClockOK, NEW m, SideOK(m), m.store = "memory", Numbered(m),
           NEW req \in ReviewRequests, dedupeKeyFor(req) \in Keys \cup {Empty}
    PROVE  Progress(Shown(m.records),
                    Shown(CreateReview(m, req, clock).side.records))
  <1> DEFINE key == dedupeKeyFor(req)
             found == IF key = Empty THEN {} ELSE Find(m, key)
             rec == CreatedDraft(req, m.counter, clock)
             n == m.counter + 2 + Drawn(req)
  <1>1. CreateReview(m, req, clock) =
          IF found # {} THEN Answer(m, "accepted", CHOOSE id \in found : TRUE)
          ELSE Commit([m EXCEPT !.counter = n], rec)
    BY DEF CreateReview, CreatedDraft
  <1>2. CASE found = {}
    <2>1. key = Empty \/ Find(m, key) = {}
      BY <1>2
    <2>2. Writes(m, rec, n)
      BY <2>1 DEF Writes, CreatesFor
    <2> DEFINE k == m.counter
    <2>3. CreatedFrom(rec, req, k, clock) /\ clock \in Int /\ k \in Nat
      BY CreatedFields DEF ClockOK, SideOK
    <2> HIDE DEF rec, n, k
    <2>4. rec.id = k + 1 /\ rec.key = key
      BY <2>3 DEF CreatedFrom
    <2>5. rec.id \in Nat \ Stored(m)
      <3>1. \A id \in Stored(m) : id \in Int /\ id <= k
        BY NumberTypes DEF Numbered, k
      <3> QED
        BY <2>3, <2>4, <3>1
    <2> DEFINE name == IF rec.key = Empty THEN Nil ELSE rec.key
               human == rec.result.human
    <2>6. name \in Keys \cup {Nil}
      BY <2>4
    <2>7. human \in BOOLEAN /\ Abstract(rec) = NewRecord(name, human)
      BY <2>3, AbstractCreated
    <2> DEFINE before == Shown(m.records)
               after == Shown(Commit([m EXCEPT !.counter = n], rec).side.records)
    <2>8. after = Put(before, rec.id, Abstract(rec))
      BY <2>2, ShownSaved
    <2>9. DOMAIN before = Stored(m)
      BY ShownParts
    <2> HIDE DEF before, after, name, human
    <2>10. Opens(before, after)
      BY <2>5, <2>6, <2>7, <2>8, <2>9 DEF Opens
    <2>11. Progress(before, after)
      BY <2>10 DEF Progress
    <2> QED
      BY <1>1, <1>2, <2>11 DEF before, after
  <1>3. CASE found # {}
    BY <1>1, <1>3 DEF Answer, Progress
  <1> QED
    BY <1>2, <1>3

\* The lifecycle computes records as this module does.
LEMMA SameLife ==
    /\ \A f, x, v : Life!Put(f, x, v) = Put(f, x, v)
    /\ \A k : Life!FailedRecord(k) = FailedRecord(k)
    /\ \A k, g : Life!NewRecord(k, g) = NewRecord(k, g)
    /\ \A rec, v, r : Life!Decided(rec, v, r) = Decided(rec, v, r)
    /\ \A rec, o : Life!Evaluated(rec, o) = Evaluated(rec, o)
    /\ \A rec, g : Life!Retried(rec, g) = Retried(rec, g)
    /\ Life!Verdicts = Verdicts
  <1>1. \A f, x, v : Life!Put(f, x, v) = Put(f, x, v)
    BY Zenon DEF Life!Put, Put
  <1>2. \A k : Life!FailedRecord(k) = FailedRecord(k)
    BY Zenon DEF Life!FailedRecord, FailedRecord, Life!Blank, Blank,
                 Life!NoEvaluation, NoEvaluation
  <1>3. \A k, g : Life!NewRecord(k, g) = NewRecord(k, g)
    BY Zenon DEF Life!NewRecord, NewRecord, Life!RunPipeline, RunPipeline,
                 Life!PipelinePath, PipelinePath, Life!LastOf, LastOf,
                 Life!Blank, Blank, Life!NoEvaluation, NoEvaluation
  <1>4. \A rec, v, r : Life!Decided(rec, v, r) = Decided(rec, v, r)
    BY Zenon DEF Life!Decided, Decided, Life!StatusOf, StatusOf
  <1>5. \A rec, o : Life!Evaluated(rec, o) = Evaluated(rec, o)
    BY Zenon DEF Life!Evaluated, Evaluated
  <1>6. \A rec, g : Life!Retried(rec, g) = Retried(rec, g)
    BY Zenon DEF Life!Retried, Retried, Life!RunPipeline, RunPipeline,
                 Life!PipelinePath, PipelinePath, Life!LastOf, LastOf
  <1>7. Life!Verdicts = Verdicts
    BY DEF Life!Verdicts, Verdicts
  <1> QED
    BY <1>1, <1>2, <1>3, <1>4, <1>5, <1>6, <1>7

LEMMA FailedParts ==
    ASSUME NEW key
    PROVE  LET out == FailedRecord(key)
           IN  /\ IsOutline(out)
               /\ out.key = key /\ out.status = "FAILED" /\ out.gated = FALSE
               /\ out.timeline = <<"FAILED">> /\ out.decisions = <<>>
               /\ out.evaluation = NoEvaluation
  <1> DEFINE t == <<"FAILED">>
             out == [Blank EXCEPT !.key = key, !.status = "FAILED",
                                  !.timeline = t]
  <1>1. FailedRecord(key) = out
    BY DEF FailedRecord
  <1> HIDE DEF t
  <1>2. IsOutline(Blank)
    BY DEF Blank, IsOutline, OutlineNames
  <1>3. IsOutline(out)
    BY <1>2 DEF IsOutline, OutlineNames
  <1>4. Blank.gated = FALSE /\ Blank.decisions = <<>>
        /\ Blank.evaluation = NoEvaluation
    BY DEF Blank
  <1>5. /\ out.key = key /\ out.status = "FAILED" /\ out.gated = FALSE
        /\ out.timeline = t /\ out.decisions = <<>>
        /\ out.evaluation = NoEvaluation
    BY <1>2, <1>4 DEF IsOutline, OutlineNames
  <1> QED
    BY <1>1, <1>3, <1>5 DEF t

LEMMA AbstractSeed ==
    ASSUME NEW seed \in Seeds
    PROVE  Abstract(seed) =
             FailedRecord(IF seed.key = Empty THEN Nil ELSE seed.key)
  <1>1. /\ seed.status = "FAILED" /\ seed.result = NoResult
        /\ seed.decisions = <<>> /\ seed.evaluation = Nil
        /\ seed.timeline \in Seq([state : {"FAILED"}, by : {"service"}, at : Int])
        /\ Len(seed.timeline) = 1
    BY SystemAssumption DEF OldReviews
  <1> DEFINE t == seed.timeline
             key == IF seed.key = Empty THEN Nil ELSE seed.key
             a == Abstract(seed)
             b == FailedRecord(key)
  <1>2. DOMAIN t = 1 .. 1 /\ t[1].state = "FAILED"
    <2> DEFINE S == [state : {"FAILED"}, by : {"service"}, at : Int]
    <2>1. t \in Seq(S) /\ Len(t) = 1
      BY <1>1
    <2> HIDE DEF S, t
    <2>a. t \in [1 .. Len(t) -> S]
      BY <2>1, LenProperties
    <2>2. DOMAIN t = 1 .. 1 /\ t[1] \in S
      BY <2>1, <2>a
    <2> QED
      BY <2>2 DEF S
  <1>3. States(t) = <<"FAILED">>
    <2> HIDE DEF t
    <2>1. States(t) = [i \in 1 .. 1 |-> "FAILED"]
      BY <1>2 DEF States
    <2> QED
      BY <2>1
  <1>4. Submissions(<<>>) = <<>>
    BY DEF Submissions
  <1>5. /\ IsOutline(a)
        /\ a.key = key /\ a.status = "FAILED" /\ a.gated = seed.result.human
        /\ a.timeline = States(t) /\ a.decisions = Submissions(seed.decisions)
        /\ a.evaluation = Outlined(seed.evaluation)
    BY <1>1, AbstractParts
  <1>6. seed.result.human = FALSE /\ Outlined(seed.evaluation) = NoEvaluation
    <2>1. NoResult.human = FALSE
      BY DEF NoResult
    <2>2. Outlined(Nil) = NoEvaluation
      BY DEF Outlined
    <2> QED
      BY <1>1, <2>1, <2>2
  <1> HIDE DEF a, b, key, t
  <1>7. /\ IsOutline(a)
        /\ a.key = key /\ a.status = "FAILED" /\ a.gated = FALSE
        /\ a.timeline = <<"FAILED">> /\ a.decisions = <<>>
        /\ a.evaluation = NoEvaluation
    BY <1>1, <1>3, <1>4, <1>5, <1>6
  <1>8. /\ IsOutline(b)
        /\ b.key = key /\ b.status = "FAILED" /\ b.gated = FALSE
        /\ b.timeline = <<"FAILED">> /\ b.decisions = <<>>
        /\ b.evaluation = NoEvaluation
    BY FailedParts DEF b
  <1>9. a = b
    BY <1>7, <1>8, SameOutline
  <1> QED
    BY <1>9 DEF a, b, key

LEMMA LifeBegins == Init => Life!AtomicInit
  <1> SUFFICES ASSUME Init PROVE Life!AtomicInit
    OBVIOUS
  <1>1. PICK seeded \in {{}} \cup {{seed} : seed \in Seeds} :
         memory = [store   |-> "memory",
                   records |-> [id \in {rec.id : rec \in seeded} |->
                                  CHOOSE rec \in seeded : rec.id = id],
                   index   |-> [k \in {rec.key : rec \in seeded} \ {Empty} |->
                                  CHOOSE id \in {rec.id : rec \in seeded} : TRUE],
                   counter |-> 0]
    BY DEF Init
  <1> DEFINE records == [id \in {rec.id : rec \in seeded} |->
                           CHOOSE rec \in seeded : rec.id = id]
             index == [k \in {rec.key : rec \in seeded} \ {Empty} |->
                         CHOOSE id \in {rec.id : rec \in seeded} : TRUE]
  <1>2. memory = [store |-> "memory", records |-> records,
                  index |-> index, counter |-> 0]
    BY <1>1
  <1>3. \A id \in DOMAIN records : records[id] \in Seeds
    BY <1>1
  <1> HIDE DEF records, index
  <1>4. memory.records = records
    BY <1>2
  <1>5. ASSUME NEW id \in DOMAIN memory.records
        PROVE  \E k \in Keys \cup {Nil} :
                 Abstract(memory.records[id]) = FailedRecord(k)
    <2> DEFINE seed == memory.records[id]
               key == IF seed.key = Empty THEN Nil ELSE seed.key
    <2>1. seed \in Seeds
      BY <1>3, <1>4, <1>5
    <2> HIDE DEF seed
    <2>2. key \in Keys \cup {Nil}
      BY <2>1, KeysAssumption
    <2>3. Abstract(seed) = FailedRecord(key)
      BY <2>1, AbstractSeed
    <2> HIDE DEF key
    <2> QED
      BY <2>2, <2>3 DEF seed
  <1> DEFINE current == [id \in DOMAIN memory.records |->
                           Abstract(memory.records[id])]
  <1>6. /\ DOMAIN current = DOMAIN memory.records
        /\ \A id \in DOMAIN memory.records :
             current[id] = Abstract(memory.records[id])
    OBVIOUS
  <1> HIDE DEF current
  <1>7. \A id \in DOMAIN current : \E k \in Keys \cup {Nil} :
          current[id] = Life!FailedRecord(k)
    BY <1>5, <1>6, SameLife
  <1> QED
    BY <1>7 DEF Life!AtomicInit, current

LEMMA LifeProgress ==
    ASSUME Progress(Shown(memory.records), Shown(memory.records)')
    PROVE  [Life!AtomicNext]_(Shown(memory.records))
  <1> DEFINE current == Shown(memory.records)
  <1>1. CASE Opens(current, current')
    <2>1. PICK id \in Nat \ DOMAIN current, k \in Keys \cup {Nil}, g \in BOOLEAN :
            current' = Put(current, id, NewRecord(k, g))
      BY <1>1 DEF Opens
    <2>2. id \in DOMAIN current' \ DOMAIN current
      <3>1. DOMAIN Put(current, id, NewRecord(k, g)) = DOMAIN current \cup {id}
        BY DEF Put
      <3> QED
        BY <2>1, <3>1
    <2>3. current' = Life!Put(current, id, Life!NewRecord(k, g))
      BY <2>1, SameLife
    <2>4. Life!Opened
      BY <2>1, <2>2, <2>3 DEF Life!Opened, Shown
    <2> QED
      BY <2>4 DEF Life!AtomicNext
  <1>2. CASE Operates(current, current')
    <2>1. PICK id \in DOMAIN current : \E rec \in Made(current[id]) :
            current' = Put(current, id, rec)
      BY <1>2 DEF Operates
    <2>2. PICK rec \in Made(current[id]) : current' = Put(current, id, rec)
      BY <2>1
    <2>3. Made(current[id]) = Life!Successors(current[id])
      BY SameLife DEF Made, Life!Successors
    <2>4. current' = Life!Put(current, id, rec)
      BY <2>2, SameLife
    <2>5. Life!OperatedAtomically
      BY <2>2, <2>3, <2>4 DEF Life!OperatedAtomically, Shown
    <2> QED
      BY <2>5 DEF Life!AtomicNext
  <1> QED
    BY <1>1, <1>2 DEF Progress

LEMMA MemoryProgress ==
    ASSUME SystemInvariant, [Next]_vars
    PROVE  Progress(Shown(memory.records), Shown(memory.records)')
  <1>1. ClockOK /\ SideOK(memory) /\ memory.store = "memory" /\ Numbered(memory)
    BY DEF SystemInvariant, SystemOK
  <1>2. ASSUME memory' = memory
        PROVE  Progress(Shown(memory.records), Shown(memory.records)')
    BY <1>2 DEF Progress, Shown
  <1>3. ASSUME NEW out, memory' = out,
               Progress(Shown(memory.records), Shown(out.records))
        PROVE  Progress(Shown(memory.records), Shown(memory.records)')
    <2>1. Shown(memory.records)' = Shown(out.records)
      BY <1>3 DEF Shown
    <2> QED
      BY <1>3, <2>1
  <1>4. ASSUME NEW code, Turn(code)
        PROVE  Progress(Shown(memory.records), Shown(memory.records)')
    BY <1>2, <1>4 DEF Turn, Serve, Answer
  <1>5. ASSUME NEW origin, NEW req \in ReviewRequests,
               dedupeKeyFor(req) \in Keys \cup {Empty}, Create(origin, req)
        PROVE  Progress(Shown(memory.records), Shown(memory.records)')
    <2>1. memory' = CreateReview(memory, req, clock).side
      BY <1>5 DEF Create, Serve
    <2>2. Progress(Shown(memory.records),
                   Shown(CreateReview(memory, req, clock).side.records))
      BY <1>1, <1>5, CreateProgress
    <2> QED
      BY <1>3, <2>1, <2>2
  <1>6. CASE UNCHANGED vars
    BY <1>2, <1>6 DEF vars
  <1>7. CASE Deliver
    <2>1. PICK delivery \in Delivered :
            IF Outcome(delivery) = "create"
              THEN Create("webhook", ReviewRequest(delivery.event))
              ELSE Turn(Outcome(delivery))
      BY <1>7 DEF Deliver
    <2>2. CASE Outcome(delivery) = "create"
      <3>1. dedupeKeyFor(ReviewRequest(delivery.event)) \in Keys \cup {Empty}
        BY <2>2, KeysAssumption
      <3>2. ReviewRequest(delivery.event) \in ReviewRequests
        BY <2>2, WebhookRequestType
      <3>3. Create("webhook", ReviewRequest(delivery.event))
        BY <2>1, <2>2
      <3> QED
        BY <1>5, <3>1, <3>2, <3>3
    <2>3. CASE Outcome(delivery) # "create"
      BY <1>4, <2>1, <2>3
    <2> QED
      BY <2>2, <2>3
  <1>8. CASE PostReview
    <2>1. PICK req \in Creates :
            IF req.source = Empty \/ req.change = Empty \/ req.environment = Empty
              THEN Turn("bad_request")
              ELSE Create("api", req)
      BY <1>8 DEF PostReview
    <2>2. req \in ReviewRequests /\ dedupeKeyFor(req) \in Keys \cup {Empty}
      BY SystemAssumption, KeysAssumption
    <2>3. Turn("bad_request") \/ Create("api", req)
      BY <2>1
    <2> QED
      BY <1>4, <1>5, <2>2, <2>3
  <1>9. CASE PostDecision
    <2>1. PICK id \in Named, verdict \in Submitted :
            /\ memory' = SubmitHumanDecision(memory, id, verdict, clock).side
            /\ served < MaxServed
      BY <1>9 DEF PostDecision, Serve
    <2>2. Progress(Shown(memory.records),
            Shown(SubmitHumanDecision(memory, id, verdict, clock).side.records))
      BY <1>1, <2>1, DecisionProgress
    <2> QED
      BY <1>3, <2>1, <2>2
  <1>10. CASE PostEvaluation
    <2>1. PICK id \in Named, update \in Updates :
            memory' = UpdateEvaluation(memory, id, update, clock).side
      BY <1>10 DEF PostEvaluation, Serve
    <2>2. Progress(Shown(memory.records),
            Shown(UpdateEvaluation(memory, id, update, clock).side.records))
      BY <1>1, EvaluationProgress
    <2> QED
      BY <1>3, <2>1, <2>2
  <1>11. CASE PostRetry
    <2>1. PICK id \in Named : memory' = RetryReview(memory, id, clock).side
      BY <1>11 DEF PostRetry, Serve
    <2>2. Progress(Shown(memory.records),
                   Shown(RetryReview(memory, id, clock).side.records))
      BY <1>1, RetryProgress
    <2> QED
      BY <1>3, <2>1, <2>2
  <1>12. CASE Restart \/ StepBack
    BY <1>2, <1>12 DEF Restart, StepBack
  <1> QED
    BY <1>6, <1>7, <1>8, <1>9, <1>10, <1>11, <1>12 DEF Next

\* With whole records, real dedupe keys and the real gate of the pipeline, the
\* deployment on MemoryStore is the atomic review lifecycle: every request is
\* answered without a change or makes one whole operation on the current record
\* of one review (service.go over store.go).
THEOREM MemoryIsAtomic == Spec => MemoryImplements
  <1> DEFINE current == Shown(memory.records)
  <1>1. SystemInvariant /\ [Next]_vars => [Life!AtomicNext]_current
    BY MemoryProgress, LifeProgress
  <1>2. SystemInvariant /\ [Next]_vars
          => [Life!AtomicNext]_([id \in DOMAIN memory.records |->
                                   Abstract(memory.records[id])])
    BY <1>1 DEF Shown
  <1> QED
    BY <1>2, LifeBegins, InvariantHolds, PTL
       DEF Spec, MemoryImplements, Life!AtomicSpec
=============================================================================
