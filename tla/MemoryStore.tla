---------------------------- MODULE MemoryStore ----------------------------
(***************************************************************************)
(* The memory store (internal/review/store.go) as Go lays it out.  Get and *)
(* Save copy a Record, but a copy shares what the record points to: the    *)
(* evaluation, and the arrays behind the slices of the timeline and the    *)
(* decisions.  append writes into a shared array while it has room and     *)
(* copies it into one twice as large when it is full.  The store's lock is *)
(* held within Get and within Save only, so what a handler changes between *)
(* the two is seen by whoever loaded the same review.  ReviewService takes *)
(* each record for a value: true of Postgres, and here of one request at a *)
(* time.  Steps of two handlers interleave; their writes are taken to be   *)
(* atomic and in program order, the mildest outcome of what is a data race.*)
(***************************************************************************)
EXTENDS ReviewRecord

CONSTANTS
    Handlers,    \* the goroutines that serve requests
    Reviews,     \* the identifiers of the reviews created
    Requests,    \* the requests on them: decisions and evaluation updates
    MaxRequests  \* how many are served

VARIABLES
    arrays,      \* the arrays behind the slices; the first is that of nil
    evaluations, \* what the pointer of each review points to
    records,     \* MemoryStore.records: Record values, by review
    handlers,    \* what each handler holds
    last,        \* by review: what its last save was meant to store
    served       \* how many requests were begun

vars == <<arrays, evaluations, records, handlers, last, served>>

NilSlice == [array |-> 1, len |-> 0]

Elements(slice) == SubSeq(arrays[slice.array], 1, slice.len)

\* append: the arrays and the slice it leaves.
Appended(slice, item) ==
    LET old  == arrays[slice.array]
        room == IF old = <<>> THEN 1 ELSE 2 * Len(old)
    IN  IF slice.len < Len(old)
          THEN [arrays |-> [arrays EXCEPT ![slice.array][slice.len + 1] = item],
                slice  |-> [slice EXCEPT !.len = @ + 1]]
          ELSE [arrays |-> Append(arrays,
                             [i \in 1 .. room |->
                                CASE i <= slice.len     -> old[i]
                                  [] i = slice.len + 1  -> item
                                  [] OTHER              -> Nil]),
                slice  |-> [array |-> Len(arrays) + 1, len |-> slice.len + 1]]

\* A Record as a reader of its fields, pointers and slices finds it.
Seen(id, rec) ==
    [key |-> Nil, status |-> rec.status, gated |-> rec.gated,
     timeline |-> Elements(rec.timeline), decisions |-> Elements(rec.decisions),
     evaluation |-> evaluations[id]]

\* What a request means to make of the record it loaded.
Meant(rec, request) ==
    IF request.verdict # Nil THEN Decided(rec, request.verdict, 0)
                             ELSE Evaluated(rec, request.outcome)

Idle == [at |-> "idle"]

Init ==
    /\ arrays = << <<>> >>
    /\ evaluations = <<>>
    /\ records = <<>>
    /\ handlers = [h \in Handlers |-> Idle]
    /\ last = <<>>
    /\ served = 0
-----------------------------------------------------------------------------
\* CreateReview: nothing is shared before it saves.  The timeline grew one
\* event at a time, so its array has the next power of two of them.
Create(id, gated) ==
    LET rec  == NewRecord(Nil, gated)
        room == IF gated THEN 16 ELSE 8
    IN  /\ id \notin DOMAIN records
        /\ arrays' = Append(arrays,
                       [i \in 1 .. room |->
                          IF i <= Len(rec.timeline) THEN rec.timeline[i] ELSE Nil])
        /\ evaluations' = Put(evaluations, id, NoEvaluation)
        /\ records' = Put(records, id,
                        [status |-> rec.status, gated |-> gated,
                         timeline |-> [array |-> Len(arrays) + 1,
                                       len |-> Len(rec.timeline)],
                         decisions |-> NilSlice])
        /\ last' = Put(last, id, rec)
        /\ UNCHANGED <<handlers, served>>

\* Get: a copy of the Record value.
Load(h, id, request) ==
    /\ handlers[h] = Idle
    /\ id \in DOMAIN records
    /\ served < MaxRequests
    /\ served' = served + 1
    /\ handlers' = [handlers EXCEPT ![h] =
                      [at |-> "loaded", id |-> id, request |-> request,
                       record |-> records[id],
                       meant |-> Meant(Seen(id, records[id]), request)]]
    /\ UNCHANGED <<arrays, evaluations, records, last>>

\* SubmitHumanDecision: the status and the decision in the copy, the final
\* decision through the pointer.
RecordDecision(h) ==
    LET held    == handlers[h]
        verdict == held.request.verdict
        more    == Appended(held.record.decisions,
                            [verdict |-> verdict, request |-> 0])
    IN  /\ held.at = "loaded"
        /\ verdict # Nil
        /\ arrays' = more.arrays
        /\ evaluations' = [evaluations EXCEPT ![held.id].final = verdict]
        /\ handlers' = [handlers EXCEPT
                          ![h].at = "changed",
                          ![h].record.status = StatusOf(verdict),
                          ![h].record.decisions = more.slice]
        /\ UNCHANGED <<records, last, served>>

\* UpdateEvaluation: the outcome, through the pointer.
RecordOutcome(h) ==
    LET held == handlers[h]
    IN  /\ held.at = "loaded"
        /\ held.request.verdict = Nil
        /\ evaluations' = [evaluations EXCEPT ![held.id].outcome =
                             IF held.request.outcome = Nil THEN @
                             ELSE held.request.outcome]
        /\ handlers' = [handlers EXCEPT ![h].at = "changed"]
        /\ UNCHANGED <<arrays, records, last, served>>

\* Either: the event appended to the copy's timeline.
AppendEvent(h) ==
    LET held == handlers[h]
        more == Appended(held.record.timeline, held.record.status)
    IN  /\ held.at = "changed"
        /\ arrays' = more.arrays
        /\ handlers' = [handlers EXCEPT ![h].at = "ready",
                                        ![h].record.timeline = more.slice]
        /\ UNCHANGED <<evaluations, records, last, served>>

\* Save, and the answer.
Save(h) ==
    LET held == handlers[h]
    IN  /\ held.at = "ready"
        /\ records' = [records EXCEPT ![held.id] = held.record]
        /\ last' = [last EXCEPT ![held.id] = held.meant]
        /\ handlers' = [handlers EXCEPT ![h] = Idle]
        /\ UNCHANGED <<arrays, evaluations, served>>

Next ==
    \/ \E id \in Reviews, gated \in BOOLEAN : Create(id, gated)
    \/ \E h \in Handlers :
         \/ \E id \in Reviews, request \in Requests : Load(h, id, request)
         \/ RecordDecision(h) \/ RecordOutcome(h) \/ AppendEvent(h) \/ Save(h)

Spec == Init /\ [][Next]_vars
-----------------------------------------------------------------------------
\* When no request runs, each review reads as the one snapshot its last save
\* stored: that request's change of the whole record it had loaded, with no
\* part of another's (store.go, "The service always persists the whole record
\* snapshot, so the in-memory store can stay simple and avoid partial update
\* semantics").
WholeSnapshots ==
    (\A h \in Handlers : handlers[h] = Idle) =>
      \A id \in DOMAIN records : Seen(id, records[id]) = last[id]
=============================================================================
