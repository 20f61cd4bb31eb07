-------------------------- MODULE MCReviewService --------------------------
(***************************************************************************)
(* ReviewService on the instances of the MCReviewService_*.cfg files.      *)
(***************************************************************************)
EXTENDS ReviewService, TLC

CONSTANTS h1, h2, k1, k2, o1, seeded

OneHandler == {h1}
TwoHandlers == {h1, h2}

\* The handlers are interchangeable.
HandlerSymmetry == Permutations(Handlers)

OneKey == {k1}
TwoKeys == {k1, k2}
OneOutcome == {o1}
OneLegacy == {seeded}
NoLegacy == {}

AllOperations == {"create", "decide", "evaluate", "retry"}
OnlyCreate == {"create"}

AllSubmitted == Verdicts \cup {"maybe"}
ApproveOrReject == {"approve", "reject"}
ApproveOnly == {"approve", "maybe"}
=============================================================================
