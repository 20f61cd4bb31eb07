---------------------------- MODULE ReviewRecord ----------------------------
(***************************************************************************)
(* The review aggregate of internal/review (types.go, Record) and what one *)
(* operation of the service computes from it: the pipeline of a new or     *)
(* retried review, a human decision, an evaluation update.  Every operator *)
(* takes a whole record and returns a whole record, as the code does: the  *)
(* service loads a Record value, changes it and hands it back to the Store.*)
(*                                                                         *)
(* What the pipeline computes from the change itself (evidence, signals,   *)
(* score, recommendation) is abstracted to the one bit the workflow reads: *)
(* gated, the record's HumanReviewRequired.                                *)
(***************************************************************************)
EXTENDS Integers, Sequences

CONSTANTS
    Keys,       \* the dedupe keys a client may send or the service may compute
    Outcomes,   \* the post-release outcomes an evaluation update may carry
    Nil         \* an absent dedupe key, decision or outcome

\* The verdicts SubmitHumanDecision accepts, each with the status it implies.
Verdicts == {"approve", "reject", "override"}

ASSUME NilAssumption ==
    Nil \notin Keys /\ Nil \notin Outcomes /\ Nil \notin Verdicts

\* The statuses a review passes through ...
Statuses == {"CREATED", "NORMALIZED", "UNDERSTOOD", "COLLECTING_CONTEXT",
             "CONTEXT_READY", "SIGNALS_EXTRACTED", "SCORED", "RECOMMENDED",
             "WAITING_HUMAN_REVIEW", "APPROVED", "REJECTED", "OVERRIDDEN",
             "FAILED"}

\* ... and those a record may have when it is saved.
Settled == {"RECOMMENDED", "WAITING_HUMAN_REVIEW", "APPROVED", "REJECTED",
            "OVERRIDDEN", "FAILED"}

StatusOf(verdict) ==
    CASE verdict = "approve"  -> "APPROVED"
      [] verdict = "reject"   -> "REJECTED"
      [] verdict = "override" -> "OVERRIDDEN"

\* The can_release flag the store derives from the status it saves.
CanRelease(status) == status \in {"APPROVED", "RECOMMENDED", "OVERRIDDEN"}

(***************************************************************************)
(* A decision carries the number of the request that submitted it, which   *)
(* stands for its reviewer, reason and time.  An event of the timeline is  *)
(* the status it records.  evaluation.outcome stands for the release       *)
(* outcome and the incident flag alike: both are kept by an update that    *)
(* does not carry them.                                                    *)
(***************************************************************************)
HumanDecisions == [verdict : Verdicts, request : Nat]

Evaluations == [final : Verdicts \cup {Nil}, outcome : Outcomes \cup {Nil}]

Records == [key        : Keys \cup {Nil},
            status     : Statuses,
            gated      : BOOLEAN,
            timeline   : Seq(Statuses),
            decisions  : Seq(HumanDecisions),
            evaluation : Evaluations]

\* Go's zero value of a Record.
NoEvaluation == [final |-> Nil, outcome |-> Nil]

Blank == [key |-> Nil, status |-> "CREATED", gated |-> FALSE,
          timeline |-> <<>>, decisions |-> <<>>, evaluation |-> NoEvaluation]

LastOf(s) == s[Len(s)]

\* f with v at x, whether or not x was in its domain: an upsert.
Put(f, x, v) == [y \in DOMAIN f \cup {x} |-> IF y = x THEN v ELSE f[y]]
-----------------------------------------------------------------------------
\* Mutant: the pipeline of an ungated review returns before its last stage.
PathWithoutRecommendation(gated) ==
    <<"NORMALIZED", "UNDERSTOOD", "COLLECTING_CONTEXT", "CONTEXT_READY",
      "SIGNALS_EXTRACTED", "SCORED">>
      \o IF gated THEN <<"RECOMMENDED", "WAITING_HUMAN_REVIEW">> ELSE <<>>

\* The statuses runPipeline moves a review through, in order.
PipelinePath(gated) ==
    <<"NORMALIZED", "UNDERSTOOD", "COLLECTING_CONTEXT", "CONTEXT_READY",
      "SIGNALS_EXTRACTED", "SCORED", "RECOMMENDED">>
      \o IF gated THEN <<"WAITING_HUMAN_REVIEW">> ELSE <<>>

\* runPipeline: each transition sets the status and appends it to the timeline.
RunPipeline(rec, gated) ==
    [rec EXCEPT !.gated    = gated,
                !.status   = LastOf(PipelinePath(gated)),
                !.timeline = @ \o PipelinePath(gated)]

NewRecord(key, gated) ==
    RunPipeline([Blank EXCEPT !.key = key, !.timeline = <<"CREATED">>], gated)

\* Mutant: the decision replaces the ones taken before it.
DecidedAfresh(rec, verdict, request) ==
    [rec EXCEPT !.status = StatusOf(verdict),
                !.decisions = <<[verdict |-> verdict, request |-> request]>>,
                !.evaluation.final = verdict,
                !.timeline = Append(@, StatusOf(verdict))]

\* Mutant: the evaluation keeps the decision that was final before.
DecidedKeepingFinal(rec, verdict, request) ==
    [rec EXCEPT !.status = StatusOf(verdict),
                !.decisions =
                    Append(@, [verdict |-> verdict, request |-> request]),
                !.timeline = Append(@, StatusOf(verdict))]

\* SubmitHumanDecision's changes, whatever the status the review had.
Decided(rec, verdict, request) ==
    [rec EXCEPT !.status = StatusOf(verdict),
                !.decisions =
                    Append(@, [verdict |-> verdict, request |-> request]),
                !.evaluation.final = verdict,
                !.timeline = Append(@, StatusOf(verdict))]

\* Mutant: the event names the stage and not the status of the review.
EvaluatedAsScored(rec, outcome) ==
    [rec EXCEPT !.evaluation.outcome = IF outcome = Nil THEN @ ELSE outcome,
                !.timeline = Append(@, "SCORED")]

\* Mutant: an evaluation moves the review back to what the pipeline left.
EvaluatedAsRecommended(rec, outcome) ==
    [rec EXCEPT !.status = LastOf(PipelinePath(rec.gated)),
                !.evaluation.outcome = IF outcome = Nil THEN @ ELSE outcome,
                !.timeline = Append(@, LastOf(PipelinePath(rec.gated)))]

\* UpdateEvaluation's changes: the event carries the status unchanged.
Evaluated(rec, outcome) ==
    [rec EXCEPT !.evaluation.outcome = IF outcome = Nil THEN @ ELSE outcome,
                !.timeline = Append(@, rec.status)]

\* Mutant: the retried review starts a timeline of its own.
RetriedAfresh(rec, gated) ==
    RunPipeline([rec EXCEPT !.status = "CREATED",
                            !.timeline = <<"CREATED">>], gated)

\* RetryReview's changes: the pipeline again, on the same identity and history.
Retried(rec, gated) ==
    RunPipeline([rec EXCEPT !.status = "CREATED",
                            !.timeline = Append(@, "CREATED")], gated)

\* A failed review, as the tests seed it and older data may hold it: no code
\* of the repository sets FAILED.
FailedRecord(key) ==
    [Blank EXCEPT !.key = key, !.status = "FAILED", !.timeline = <<"FAILED">>]
-----------------------------------------------------------------------------
(***************************************************************************)
(* What relates the parts of one record.                                   *)
(***************************************************************************)

\* The status is the one the timeline ends in.
StatusOnTimeline(rec) ==
    /\ rec.timeline # <<>>
    /\ rec.status = LastOf(rec.timeline)

\* A pipeline that asked for a human stops for one, and only then.
GateRespected(rec) ==
    /\ rec.status = "RECOMMENDED" => ~rec.gated
    /\ rec.status = "WAITING_HUMAN_REVIEW" => rec.gated

\* Once a human decided, the last decision is the status and the final
\* decision of the evaluation.
DecisionGoverns(rec) ==
    /\ rec.decisions # <<>> =>
         LET last == LastOf(rec.decisions).verdict
         IN  rec.status = StatusOf(last) /\ rec.evaluation.final = last
    /\ rec.decisions = <<>> =>
         /\ rec.evaluation.final = Nil
         /\ rec.status \notin {"APPROVED", "REJECTED", "OVERRIDDEN"}
=============================================================================
