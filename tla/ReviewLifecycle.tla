-------------------------- MODULE ReviewLifecycle --------------------------
(***************************************************************************)
(* What a caller expects of the review service, whatever store it keeps    *)
(* its reviews in.  A review is opened under a fresh identifier with its   *)
(* pipeline already run; from then on its record is only ever replaced by  *)
(* the outcome of one whole operation on the current record.               *)
(***************************************************************************)
EXTENDS ReviewRecord

CONSTANTS
    IDs,        \* identifiers the service may give a review
    Requests    \* numbers of the requests that may decide

VARIABLE current    \* the record of each review

AtomicInit ==
    \A id \in DOMAIN current : \E k \in Keys \cup {Nil} :
        current[id] = FailedRecord(k)

Opened ==
    \E id \in {i \in DOMAIN current' \ DOMAIN current : i \in IDs},
       k \in Keys \cup {Nil}, g \in BOOLEAN :
        current' = Put(current, id, NewRecord(k, g))

\* The records one operation can make of base.
Successors(base) ==
    {Decided(base, v, r) : v \in Verdicts, r \in Requests}
      \cup {Evaluated(base, o) : o \in Outcomes \cup {Nil}}
      \cup (IF base.status = "FAILED"
              THEN {Retried(base, g) : g \in BOOLEAN} ELSE {})

OperatedAtomically ==
    \E id \in DOMAIN current : \E rec \in Successors(current[id]) :
        current' = Put(current, id, rec)

AtomicNext == Opened \/ OperatedAtomically

AtomicSpec == AtomicInit /\ [][AtomicNext]_current
=============================================================================
