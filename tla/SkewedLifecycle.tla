-------------------------- MODULE SkewedLifecycle --------------------------
(***************************************************************************)
(* The promise of ReviewLifecycle that is left when requests run           *)
(* concurrently and a load assembles a record from several queries: an     *)
(* operation acts on a mixture of records the review has had.              *)
(***************************************************************************)
EXTENDS ReviewLifecycle

VARIABLE past   \* every record each review has had, the current one included

lifecycle == <<current, past>>

\* The review row of one version with the timeline, the decisions and the
\* evaluation of others.
Mixtures(versions) ==
    {[row EXCEPT !.timeline   = t.timeline,
                 !.decisions  = d.decisions,
                 !.evaluation = e.evaluation] :
        row \in versions, t \in versions, d \in versions, e \in versions}

OperatedOnMixture ==
    \E id \in DOMAIN current : \E base \in Mixtures(past[id]) :
        \E rec \in Successors(base) : current' = Put(current, id, rec)

Remembered ==
    past' = [id \in DOMAIN current' |->
               {current'[id]} \cup IF id \in DOMAIN past THEN past[id] ELSE {}]

SkewedNext == (Opened \/ OperatedOnMixture) /\ Remembered

SkewedSpec ==
    /\ AtomicInit
    /\ past = [id \in DOMAIN current |-> {current[id]}]
    /\ [][SkewedNext]_lifecycle
=============================================================================
