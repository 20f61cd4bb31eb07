--------------------------- MODULE MCMemoryStore ---------------------------
(***************************************************************************)
(* MemoryStore with a decision and an evaluation update of one review.     *)
(***************************************************************************)
EXTENDS MemoryStore

CONSTANTS h1, h2, r1, o1

TwoHandlers == {h1, h2}
OneReview == {r1}
NoKeys == {}
OneOutcome == {o1}

DecideAndUpdate == {[verdict |-> "approve", outcome |-> Nil],
                    [verdict |-> Nil, outcome |-> o1]}
=============================================================================
