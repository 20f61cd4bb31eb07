----------------------------- MODULE DedupeKey -----------------------------
(***************************************************************************)
(* The dedupe key that makes creates idempotent (dedupeKeyFor in           *)
(* internal/review/service.go, and the key of the webhook's requests in    *)
(* github_webhook.go).  A text is a sequence of pieces that stand for its  *)
(* characters; a key joins its fields by colons and lowers their case.     *)
(***************************************************************************)
EXTENDS Integers, Sequences

CONSTANTS
    Pieces,     \* the pieces texts are made of
    LowerCase   \* strings.ToLower, piece by piece

Colon == ":"

\* Lowering the case neither makes nor removes a colon.
ASSUME PiecesAssumption ==
    /\ Colon \in Pieces
    /\ LowerCase \in [Pieces -> Pieces]
    /\ \A p \in Pieces : LowerCase[p] = Colon <=> p = Colon

Text == Seq(Pieces)

Empty == <<>>

Lower(text) == [i \in DOMAIN text |-> LowerCase[text[i]]]

ColonFree(text) == \A i \in DOMAIN text : text[i] # Colon

Join2(a, b) == a \o (<<Colon>> \o b)

Join4(a, b, c, d) == Join2(a, Join2(b, Join2(c, d)))

Join5(a, b, c, d, e) == Join2(a, Join4(b, c, d, e))

\* A key the client gives is taken as it is; a request that names no change or
\* no environment has none.
dedupeKeyFor(req) ==
    IF req.key # Empty
      THEN req.key
      ELSE IF req.change = Empty \/ req.environment = Empty
             THEN Empty
             ELSE Lower(Join4(req.source, req.change, req.head,
                              req.environment))
=============================================================================
