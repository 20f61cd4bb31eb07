-------------------------- MODULE DedupeKeyProofs --------------------------
(***************************************************************************)
(* What a dedupe key tells apart.  A key is text that was joined, so two   *)
(* requests share one when their joined texts are equal; the theorems say  *)
(* that, as long as no field holds a colon, this happens only when every   *)
(* field is the same but for its case, and never between a key the service *)
(* computes and one the webhook gives.                                     *)
(***************************************************************************)
EXTENDS GitHubWebhook, SequenceTheorems, TLAPS

\* Texts are sequences: what the library says of them.
LEMMA Concatenation ==
    ASSUME NEW a \in Text, NEW b \in Text
    PROVE  /\ a \o b \in Text
           /\ Len(a) \in Nat
           /\ Len(b) \in Nat
           /\ Len(a \o b) = Len(a) + Len(b)
           /\ \A i \in 1 .. Len(a) + Len(b) :
                (a \o b)[i] = IF i <= Len(a) THEN a[i] ELSE b[i - Len(a)]
BY ConcatProperties, LenProperties DEF Text

LEMMA Cancelled ==
    ASSUME NEW a \in Text, NEW b \in Text, NEW c \in Text, a \o b = a \o c
    PROVE  b = c
BY ConcatSimplifications DEF Text

LEMMA SameText ==
    ASSUME NEW a \in Text, NEW b \in Text, Len(a) = Len(b),
           \A i \in 1 .. Len(a) : a[i] = b[i]
    PROVE  a = b
BY SeqEqual DEF Text

\* A joined text is a text.
LEMMA JoinType ==
    ASSUME NEW a \in Text, NEW s \in Text
    PROVE  /\ Join2(a, s) \in Text
           /\ <<Colon>> \in Text
           /\ <<Colon>> \o s \in Text
<1>1. <<Colon>> \in Seq(Pieces)
  BY PiecesAssumption
<1>2. <<Colon>> \o s \in Seq(Pieces)
  BY <1>1, ConcatProperties DEF Text
<1>. QED
  BY <1>1, <1>2, ConcatProperties DEF Text, Join2

\* The characters of a joined text.
LEMMA JoinElements ==
    ASSUME NEW a \in Text, NEW s \in Text
    PROVE  /\ Len(Join2(a, s)) = Len(a) + 1 + Len(s)
           /\ \A i \in 1 .. Len(a) : Join2(a, s)[i] = a[i]
           /\ Join2(a, s)[Len(a) + 1] = Colon
<1>1. /\ <<Colon>> \in Seq(Pieces)
      /\ <<Colon>> \o s \in Seq(Pieces)
  BY JoinType DEF Text
<1>2. /\ Len(<<Colon>> \o s) = 1 + Len(s)
      /\ (<<Colon>> \o s)[1] = Colon
  <2>1. 1 \in 1 .. Len(<<Colon>>) + Len(s)
    BY LenProperties DEF Text
  <2>. QED
    BY <1>1, <2>1, ConcatProperties DEF Text
<1>3. /\ Len(a) \in Nat
      /\ Len(s) \in Nat
  BY LenProperties DEF Text
<1>4. /\ Len(Join2(a, s)) = Len(a) + Len(<<Colon>> \o s)
      /\ \A i \in 1 .. Len(a) + Len(<<Colon>> \o s) :
           Join2(a, s)[i] = IF i <= Len(a) THEN a[i]
                            ELSE (<<Colon>> \o s)[i - Len(a)]
  BY <1>1, ConcatProperties DEF Text, Join2
<1>. QED
  BY <1>2, <1>3, <1>4

\* The first field of a joined text ends at the first colon.
LEMMA FirstFieldNoLonger ==
    ASSUME NEW a \in Text, NEW b \in Text, NEW s \in Text, NEW t \in Text,
           ColonFree(b), Join2(a, s) = Join2(b, t)
    PROVE  Len(b) <= Len(a)
<1>1. /\ Len(a) \in Nat
      /\ Len(b) \in Nat
      /\ DOMAIN b = 1 .. Len(b)
  BY LenProperties DEF Text
<1>2. ASSUME Len(a) < Len(b)
      PROVE  FALSE
  <2>1. Len(a) + 1 \in 1 .. Len(b)
    BY <1>1, <1>2
  <2>2. Join2(b, t)[Len(a) + 1] = b[Len(a) + 1]
    BY <2>1, JoinElements
  <2>3. Join2(a, s)[Len(a) + 1] = Colon
    BY JoinElements
  <2>4. b[Len(a) + 1] # Colon
    BY <1>1, <2>1 DEF ColonFree
  <2>. QED
    BY <2>2, <2>3, <2>4
<1>. QED
  BY <1>1, <1>2

\* Two joined texts are the same only if their fields are.
LEMMA JoinInjective ==
    ASSUME NEW a \in Text, NEW b \in Text, NEW s \in Text, NEW t \in Text,
           ColonFree(a), ColonFree(b), Join2(a, s) = Join2(b, t)
    PROVE  a = b /\ s = t
<1>1. Len(a) <= Len(b) /\ Len(b) <= Len(a)
  BY FirstFieldNoLonger
<1>2. Len(a) \in Nat /\ Len(b) \in Nat
  BY LenProperties DEF Text
<1>3. Len(a) = Len(b)
  BY <1>1, <1>2
<1>4. ASSUME NEW i \in 1 .. Len(a)
      PROVE  a[i] = b[i]
  <2>1. Join2(a, s)[i] = a[i]
    BY JoinElements
  <2>2. Join2(b, t)[i] = b[i]
    BY <1>3, JoinElements
  <2>. QED
    BY <2>1, <2>2
<1>5. a = b
  BY <1>3, <1>4, SeqEqual DEF Text
<1>6. <<Colon>> \o s = <<Colon>> \o t
  <2>1. a \o (<<Colon>> \o s) = a \o (<<Colon>> \o t)
    BY <1>5 DEF Join2
  <2>2. <<Colon>> \o s \in Text /\ <<Colon>> \o t \in Text
    BY JoinType
  <2>. QED
    BY <2>1, <2>2, Cancelled
<1>7. s = t
  BY <1>6, JoinType, Cancelled
<1>. QED
  BY <1>5, <1>7

\* Lowering the case keeps texts, and keeps them free of colons.
LEMMA LowerType ==
    ASSUME NEW a \in Text
    PROVE  /\ Lower(a) \in Text
           /\ Len(Lower(a)) = Len(a)
           /\ DOMAIN Lower(a) = 1 .. Len(a)
           /\ \A i \in 1 .. Len(a) : Lower(a)[i] = LowerCase[a[i]]
           /\ ColonFree(Lower(a)) <=> ColonFree(a)
<1>1. /\ Len(a) \in Nat
      /\ DOMAIN a = 1 .. Len(a)
      /\ \A i \in 1 .. Len(a) : a[i] \in Pieces
  BY LenProperties DEF Text
<1>2. Lower(a) = [i \in 1 .. Len(a) |-> LowerCase[a[i]]]
  BY <1>1 DEF Lower
<1>3. \A i \in 1 .. Len(a) : LowerCase[a[i]] \in Pieces
  BY <1>1, PiecesAssumption
<1>4. Lower(a) \in [1 .. Len(a) -> Pieces]
  BY <1>2, <1>3
<1>5. Lower(a) \in Seq(Pieces)
  BY <1>1, <1>4
<1>6. Len(Lower(a)) = Len(a)
  BY <1>1, <1>4, <1>5, LenProperties
<1>7. ColonFree(Lower(a)) <=> ColonFree(a)
  BY <1>1, <1>2, PiecesAssumption DEF ColonFree
<1>. QED
  BY <1>2, <1>4, <1>5, <1>6, <1>7 DEF Text

\* Lowering the case of a text lowers that of its parts.
LEMMA LowerConcatenation ==
    ASSUME NEW u \in Text, NEW v \in Text
    PROVE  Lower(u \o v) = Lower(u) \o Lower(v)
<1>1. /\ u \o v \in Text
      /\ Len(u) \in Nat
      /\ Len(v) \in Nat
      /\ Len(u \o v) = Len(u) + Len(v)
      /\ \A i \in 1 .. Len(u) + Len(v) :
           (u \o v)[i] = IF i <= Len(u) THEN u[i] ELSE v[i - Len(u)]
  BY Concatenation
<1>2. /\ Lower(u) \in Text
      /\ Lower(v) \in Text
      /\ Len(Lower(u)) = Len(u)
      /\ Len(Lower(v)) = Len(v)
      /\ \A i \in 1 .. Len(u) : Lower(u)[i] = LowerCase[u[i]]
      /\ \A i \in 1 .. Len(v) : Lower(v)[i] = LowerCase[v[i]]
  BY LowerType
<1>3. /\ Lower(u \o v) \in Text
      /\ Len(Lower(u \o v)) = Len(u) + Len(v)
      /\ \A i \in 1 .. Len(u) + Len(v) :
           Lower(u \o v)[i] = LowerCase[(u \o v)[i]]
  BY <1>1, LowerType
<1>4. /\ Lower(u) \o Lower(v) \in Text
      /\ Len(Lower(u) \o Lower(v)) = Len(u) + Len(v)
      /\ \A i \in 1 .. Len(u) + Len(v) :
           (Lower(u) \o Lower(v))[i] =
             IF i <= Len(u) THEN Lower(u)[i] ELSE Lower(v)[i - Len(u)]
  <2>1. /\ Lower(u) \o Lower(v) \in Text
        /\ Len(Lower(u) \o Lower(v)) = Len(Lower(u)) + Len(Lower(v))
        /\ \A i \in 1 .. Len(Lower(u)) + Len(Lower(v)) :
             (Lower(u) \o Lower(v))[i] =
               IF i <= Len(Lower(u)) THEN Lower(u)[i]
                                     ELSE Lower(v)[i - Len(Lower(u))]
    <3>1. Lower(u) \in Text /\ Lower(v) \in Text
      BY <1>2
    <3>. HIDE DEF Lower
    <3>. QED
      BY <3>1, Concatenation
  <2>2. Len(Lower(u)) = Len(u) /\ Len(Lower(v)) = Len(v)
    BY <1>2
  <2>. QED
    BY <2>1, <2>2
<1>5. ASSUME NEW i \in 1 .. Len(u) + Len(v)
      PROVE  Lower(u \o v)[i] = (Lower(u) \o Lower(v))[i]
  <2>1. CASE i <= Len(u)
    <3>1. i \in 1 .. Len(u)
      BY <1>1, <2>1
    <3>. QED
      BY <1>1, <1>2, <1>3, <1>4, <2>1, <3>1
  <2>2. CASE ~(i <= Len(u))
    <3>1. i - Len(u) \in 1 .. Len(v)
      BY <1>1, <2>2
    <3>. QED
      BY <1>1, <1>2, <1>3, <1>4, <2>2, <3>1
  <2>. QED
    BY <2>1, <2>2
<1>. QED
  BY <1>3, <1>4, <1>5, SameText

\* Lowering the case of a joined text lowers that of its fields.
LEMMA LowerJoin ==
    ASSUME NEW a \in Text, NEW s \in Text
    PROVE  Lower(Join2(a, s)) = Join2(Lower(a), Lower(s))
<1>1. Lower(<<Colon>>) = <<Colon>>
  <2>1. <<Colon>> \in Text /\ Len(<<Colon>>) = 1 /\ <<Colon>>[1] = Colon
    BY JoinType
  <2>2. /\ Lower(<<Colon>>) \in Text
        /\ Len(Lower(<<Colon>>)) = 1
        /\ Lower(<<Colon>>)[1] = LowerCase[Colon]
    BY <2>1, LowerType
  <2>3. LowerCase[Colon] = Colon
    BY PiecesAssumption
  <2>. QED
    BY <2>1, <2>2, <2>3, SameText
<1>2. Lower(<<Colon>> \o s) = Lower(<<Colon>>) \o Lower(s)
  BY JoinType, LowerConcatenation
<1>3. Lower(a \o (<<Colon>> \o s)) = Lower(a) \o Lower(<<Colon>> \o s)
  BY JoinType, LowerConcatenation
<1>. QED
  BY <1>1, <1>2, <1>3 DEF Join2
-----------------------------------------------------------------------------
\* Lowering the case of four joined fields.
LEMMA LowerFour ==
    ASSUME NEW a \in Text, NEW b \in Text, NEW c \in Text, NEW d \in Text
    PROVE  /\ Join4(a, b, c, d) \in Text
           /\ Lower(Join4(a, b, c, d)) =
                Join4(Lower(a), Lower(b), Lower(c), Lower(d))
<1>1. /\ Join2(c, d) \in Text
      /\ Lower(Join2(c, d)) = Join2(Lower(c), Lower(d))
  BY JoinType, LowerJoin
<1>2. /\ Join2(b, Join2(c, d)) \in Text
      /\ Lower(Join2(b, Join2(c, d))) = Join2(Lower(b), Lower(Join2(c, d)))
  BY <1>1, JoinType, LowerJoin
<1>3. /\ Join2(a, Join2(b, Join2(c, d))) \in Text
      /\ Lower(Join2(a, Join2(b, Join2(c, d)))) =
           Join2(Lower(a), Lower(Join2(b, Join2(c, d))))
  BY <1>2, JoinType, LowerJoin
<1>. QED
  BY <1>1, <1>2, <1>3 DEF Join4

\* The requests the service computes a key for.
Keyless(req) ==
    /\ req.key = Empty
    /\ req.source \in Text
    /\ req.change \in Text /\ req.change # Empty
    /\ req.head \in Text
    /\ req.environment \in Text /\ req.environment # Empty

Plain(req) == /\ ColonFree(req.source) /\ ColonFree(req.change)
              /\ ColonFree(req.head) /\ ColonFree(req.environment)

\* The key of such a request.
LEMMA ComputedKey ==
    ASSUME NEW req, Keyless(req)
    PROVE  dedupeKeyFor(req) = Join4(Lower(req.source), Lower(req.change),
                                     Lower(req.head), Lower(req.environment))
<1> DEFINE a == req.source
           b == req.change
           c == req.head
           d == req.environment
<1>1. a \in Text /\ b \in Text /\ c \in Text /\ d \in Text
  BY DEF Keyless
<1>2. dedupeKeyFor(req) = Lower(Join4(a, b, c, d))
  BY Zenon DEF Keyless, dedupeKeyFor
<1> HIDE DEF a, b, c, d
<1>3. Lower(Join4(a, b, c, d)) = Join4(Lower(a), Lower(b), Lower(c), Lower(d))
  BY <1>1, LowerFour
<1>. QED
  BY <1>2, <1>3 DEF a, b, c, d

\* Two requests that bring no key get the same one only if they are for the
\* same head of the same change in the same environment, but for upper and
\* lower case: a create that is answered with an existing review was asked for
\* that change (dedupeKeyFor).
THEOREM ComputedKeysTellApart ==
    ASSUME NEW r, Keyless(r), NEW s, Keyless(s), Plain(r), Plain(s),
           dedupeKeyFor(r) = dedupeKeyFor(s)
    PROVE  /\ Lower(r.source) = Lower(s.source)
           /\ Lower(r.change) = Lower(s.change)
           /\ Lower(r.head) = Lower(s.head)
           /\ Lower(r.environment) = Lower(s.environment)
<1>1. /\ r.source \in Text /\ r.change \in Text /\ r.head \in Text
      /\ r.environment \in Text
      /\ s.source \in Text /\ s.change \in Text /\ s.head \in Text
      /\ s.environment \in Text
  BY DEF Keyless
<1>2. /\ ColonFree(Lower(r.source)) /\ ColonFree(Lower(r.change))
      /\ ColonFree(Lower(r.head))
      /\ ColonFree(Lower(s.source)) /\ ColonFree(Lower(s.change))
      /\ ColonFree(Lower(s.head))
  BY <1>1, LowerType DEF Plain
<1>3. Join4(Lower(r.source), Lower(r.change), Lower(r.head),
            Lower(r.environment)) =
      Join4(Lower(s.source), Lower(s.change), Lower(s.head),
            Lower(s.environment))
  BY ComputedKey
<1>4. /\ Lower(r.source) \in Text /\ Lower(r.change) \in Text
      /\ Lower(r.head) \in Text /\ Lower(r.environment) \in Text
      /\ Lower(s.source) \in Text /\ Lower(s.change) \in Text
      /\ Lower(s.head) \in Text /\ Lower(s.environment) \in Text
  BY <1>1, LowerType
<1>5. /\ Lower(r.source) = Lower(s.source)
      /\ Join2(Lower(r.change), Join2(Lower(r.head), Lower(r.environment))) =
         Join2(Lower(s.change), Join2(Lower(s.head), Lower(s.environment)))
  BY <1>2, <1>3, <1>4, JoinInjective, JoinType DEF Join4
<1>6. /\ Lower(r.change) = Lower(s.change)
      /\ Join2(Lower(r.head), Lower(r.environment)) =
         Join2(Lower(s.head), Lower(s.environment))
  BY <1>2, <1>4, <1>5, JoinInjective, JoinType
<1>7. /\ Lower(r.head) = Lower(s.head)
      /\ Lower(r.environment) = Lower(s.environment)
  BY <1>2, <1>4, <1>6, JoinInjective
<1>. QED
  BY <1>5, <1>6, <1>7

\* A delivery whose repository and head hold no colon, and the environment it
\* is for.  The number is digits.
Deliverable(event) ==
    /\ event.repo \in Text /\ event.number \in Text /\ event.sha \in Text
    /\ ColonFree(event.repo) /\ ColonFree(event.number) /\ ColonFree(event.sha)

\* The fields of a webhook's key.
LEMMA WebhookFields ==
    ASSUME "github" \in Pieces, "pr-" \in Pieces,
           NEW event, Deliverable(event), NEW environment \in Text
    PROVE  /\ Lower(<<"github">>) \in Text
           /\ ColonFree(Lower(<<"github">>))
           /\ Lower(<<"pr-">> \o event.number) \in Text
           /\ ColonFree(Lower(<<"pr-">> \o event.number))
           /\ Lower(event.repo) \in Text
           /\ ColonFree(Lower(event.repo))
           /\ Lower(event.sha) \in Text
           /\ ColonFree(Lower(event.sha))
           /\ Lower(environment) \in Text
           /\ WebhookKey(event, environment) =
                Join5(Lower(<<"github">>), Lower(event.repo),
                      Lower(<<"pr-">> \o event.number), Lower(event.sha),
                      Lower(environment))
<1>1. /\ <<"github">> \in Text
      /\ <<"pr-">> \in Text
  BY DEF Text
<1>2. ColonFree(<<"github">>)
  BY DEF ColonFree, Colon
<1>3. /\ <<"pr-">> \o event.number \in Text
      /\ ColonFree(<<"pr-">> \o event.number)
  <2>1. /\ event.number \in Seq(Pieces)
        /\ <<"pr-">> \in Seq(Pieces)
        /\ Len(<<"pr-">>) = 1
        /\ Len(event.number) \in Nat
        /\ DOMAIN event.number = 1 .. Len(event.number)
    BY <1>1, LenProperties DEF Deliverable, Text
  <2>2. /\ <<"pr-">> \o event.number \in Seq(Pieces)
        /\ DOMAIN (<<"pr-">> \o event.number) = 1 .. 1 + Len(event.number)
        /\ \A i \in 1 .. 1 + Len(event.number) :
             (<<"pr-">> \o event.number)[i] =
               IF i <= 1 THEN <<"pr-">>[i] ELSE event.number[i - 1]
    BY <2>1, ConcatProperties, LenProperties
  <2>3. ASSUME NEW i \in 1 .. 1 + Len(event.number)
        PROVE  (<<"pr-">> \o event.number)[i] # Colon
    <3>1. CASE i = 1
      BY <2>2, <3>1 DEF Colon
    <3>2. CASE i > 1
      <4>1. i - 1 \in DOMAIN event.number
        BY <2>1, <3>2
      <4>. QED
        BY <2>2, <3>2, <4>1 DEF Deliverable, ColonFree
    <3>. QED
      BY <2>1, <3>1, <3>2
  <2>. QED
    BY <2>2, <2>3 DEF Text, ColonFree
<1>4. Join4(event.repo, <<"pr-">> \o event.number, event.sha, environment)
        \in Text
  BY <1>3, LowerFour DEF Deliverable
<1>5. WebhookKey(event, environment) =
        Join5(Lower(<<"github">>), Lower(event.repo),
              Lower(<<"pr-">> \o event.number), Lower(event.sha),
              Lower(environment))
  <2>1. event.repo \in Text /\ event.sha \in Text
    BY DEF Deliverable
  <2>2. Lower(Join4(event.repo, <<"pr-">> \o event.number, event.sha,
                    environment)) =
        Join4(Lower(event.repo), Lower(<<"pr-">> \o event.number),
              Lower(event.sha), Lower(environment))
    BY <1>3, <2>1, LowerFour
  <2>3. Lower(Join2(<<"github">>,
                    Join4(event.repo, <<"pr-">> \o event.number, event.sha,
                          environment))) =
        Join2(Lower(<<"github">>),
              Lower(Join4(event.repo, <<"pr-">> \o event.number, event.sha,
                          environment)))
    BY <1>1, <1>4, LowerJoin
  <2>. QED
    BY <2>2, <2>3 DEF WebhookKey, Join5
<1>. QED
  BY <1>1, <1>2, <1>3, <1>5, LowerType DEF Deliverable

\* Two deliveries get the same key only for the same head of the same pull
\* request, but for case, and the same environment: one review of the head is
\* never answered with another's (GitHubPullRequestReviewRequest).
THEOREM WebhookKeysTellApart ==
    ASSUME "github" \in Pieces, "pr-" \in Pieces,
           NEW one, Deliverable(one), NEW here \in Text,
           NEW other, Deliverable(other), NEW there \in Text,
           WebhookKey(one, here) = WebhookKey(other, there)
    PROVE  /\ Lower(one.repo) = Lower(other.repo)
           /\ Lower(<<"pr-">> \o one.number) = Lower(<<"pr-">> \o other.number)
           /\ Lower(one.sha) = Lower(other.sha)
           /\ Lower(here) = Lower(there)
<1>. DEFINE repo1 == Lower(one.repo)
            repo2 == Lower(other.repo)
            number1 == Lower(<<"pr-">> \o one.number)
            number2 == Lower(<<"pr-">> \o other.number)
            sha1 == Lower(one.sha)
            sha2 == Lower(other.sha)
            env1 == Lower(here)
            env2 == Lower(there)
            github == Lower(<<"github">>)
<1>1. /\ github \in Text /\ ColonFree(github)
      /\ repo1 \in Text /\ ColonFree(repo1)
      /\ number1 \in Text /\ ColonFree(number1)
      /\ sha1 \in Text /\ ColonFree(sha1)
      /\ env1 \in Text
  BY WebhookFields
<1>2. /\ repo2 \in Text /\ ColonFree(repo2)
      /\ number2 \in Text /\ ColonFree(number2)
      /\ sha2 \in Text /\ ColonFree(sha2)
      /\ env2 \in Text
  BY WebhookFields
<1>3. Join5(github, repo1, number1, sha1, env1) =
      Join5(github, repo2, number2, sha2, env2)
  BY WebhookFields
<1>. HIDE DEF repo1, repo2, number1, number2, sha1, sha2, env1, env2, github
<1>4. Join2(sha1, env1) \in Text /\ Join2(sha2, env2) \in Text
  BY <1>1, <1>2, JoinType
<1>5. /\ Join2(number1, Join2(sha1, env1)) \in Text
      /\ Join2(number2, Join2(sha2, env2)) \in Text
  BY <1>1, <1>2, <1>4, JoinType
<1>6. /\ Join2(repo1, Join2(number1, Join2(sha1, env1))) \in Text
      /\ Join2(repo2, Join2(number2, Join2(sha2, env2))) \in Text
  BY <1>1, <1>2, <1>5, JoinType
<1>7. Join2(repo1, Join2(number1, Join2(sha1, env1))) =
      Join2(repo2, Join2(number2, Join2(sha2, env2)))
  BY <1>1, <1>3, <1>6, JoinInjective DEF Join5, Join4
<1>8. repo1 = repo2 /\ Join2(number1, Join2(sha1, env1)) =
                        Join2(number2, Join2(sha2, env2))
  BY <1>1, <1>2, <1>5, <1>7, JoinInjective
<1>9. number1 = number2 /\ Join2(sha1, env1) = Join2(sha2, env2)
  BY <1>1, <1>2, <1>4, <1>8, JoinInjective
<1>10. sha1 = sha2 /\ env1 = env2
  BY <1>1, <1>2, <1>9, JoinInjective
<1>. QED
  BY <1>8, <1>9, <1>10 DEF repo1, repo2, number1, number2, sha1, sha2, env1,
                           env2

\* No request that brings no key gets the one of a delivery: a review GitHub
\* asked for is never taken for one created through the API, nor the other way
\* round (the key of the webhook has a field more).
THEOREM WebhookKeysApartFromComputed ==
    ASSUME "github" \in Pieces, "pr-" \in Pieces,
           NEW event, Deliverable(event), NEW environment \in Text,
           NEW req, Keyless(req), Plain(req)
    PROVE  dedupeKeyFor(req) # WebhookKey(event, environment)
<1>. DEFINE tail == Join2(Lower(event.sha), Lower(environment))
<1>1. /\ Lower(req.source) \in Text /\ ColonFree(Lower(req.source))
      /\ Lower(req.change) \in Text /\ ColonFree(Lower(req.change))
      /\ Lower(req.head) \in Text /\ ColonFree(Lower(req.head))
      /\ Lower(req.environment) \in Text /\ ColonFree(Lower(req.environment))
  BY LowerType DEF Keyless, Plain
<1>2. tail \in Text
  BY WebhookFields, JoinType
<1>3. WebhookKey(event, environment) =
        Join4(Lower(<<"github">>), Lower(event.repo),
              Lower(<<"pr-">> \o event.number), tail)
  BY WebhookFields DEF Join5, Join4
<1>4. ~ColonFree(tail)
  <2>1. /\ Len(Lower(event.sha)) \in Nat
        /\ Len(Lower(environment)) \in Nat
        /\ DOMAIN tail = 1 .. Len(tail)
    BY <1>2, WebhookFields, LenProperties DEF Text
  <2>2. /\ Len(tail) = Len(Lower(event.sha)) + 1 + Len(Lower(environment))
        /\ tail[Len(Lower(event.sha)) + 1] = Colon
    BY WebhookFields, JoinElements
  <2>3. Len(Lower(event.sha)) + 1 \in DOMAIN tail
    BY <2>1, <2>2
  <2>. HIDE DEF tail
  <2>. QED
    BY <2>2, <2>3 DEF ColonFree
<1>5. ASSUME dedupeKeyFor(req) = WebhookKey(event, environment)
      PROVE  FALSE
  <2>1. Join4(Lower(req.source), Lower(req.change), Lower(req.head),
              Lower(req.environment)) =
        Join4(Lower(<<"github">>), Lower(event.repo),
              Lower(<<"pr-">> \o event.number), tail)
    BY <1>3, <1>5, ComputedKey
  <2>. HIDE DEF tail
  <2>2. Lower(req.environment) = tail
    <3>1. /\ Lower(<<"github">>) \in Text
          /\ ColonFree(Lower(<<"github">>))
          /\ Lower(event.repo) \in Text
          /\ ColonFree(Lower(event.repo))
          /\ Lower(<<"pr-">> \o event.number) \in Text
          /\ ColonFree(Lower(<<"pr-">> \o event.number))
      BY WebhookFields
    <3>2. Join2(Lower(req.change), Join2(Lower(req.head), Lower(req.environment)))
            = Join2(Lower(event.repo), Join2(Lower(<<"pr-">> \o event.number), tail))
      BY <1>1, <1>2, <2>1, <3>1, JoinInjective, JoinType DEF Join4
    <3>3. Join2(Lower(req.head), Lower(req.environment))
            = Join2(Lower(<<"pr-">> \o event.number), tail)
      BY <1>1, <1>2, <3>1, <3>2, JoinInjective, JoinType
    <3>. QED
      BY <1>1, <1>2, <3>1, <3>3, JoinInjective
  <2>. QED
    BY <1>1, <1>4, <2>2
<1>. QED
  BY <1>5
-----------------------------------------------------------------------------
\* The number of a pull request comes after the last mark of its change.
Unmarked(text) == \A i \in DOMAIN text : text[i] # "#"

Change(repo, number) == repo \o <<"#">> \o number

Spelled(u, a, s) ==
    /\ u \in Text
    /\ Len(a) \in Nat /\ Len(s) \in Nat
    /\ Len(u) = Len(a) + 1 + Len(s)
    /\ \A i \in 1 .. Len(a) : u[i] = a[i]
    /\ u[Len(a) + 1] = "#"
    /\ \A i \in 1 .. Len(s) : u[Len(a) + 1 + i] = s[i]

LEMMA ChangeElements ==
    ASSUME "#" \in Pieces, NEW a \in Text, NEW s \in Text
    PROVE  Spelled(Change(a, s), a, s)
<1>. DEFINE mark == <<"#">>
            b == a \o mark
            u == b \o s
<1>1. mark \in Text /\ Len(mark) = 1 /\ mark[1] = "#"
  BY DEF Text
<1>. HIDE DEF mark
<1>2. /\ b \in Text
      /\ Len(a) \in Nat
      /\ Len(b) = Len(a) + Len(mark)
      /\ \A i \in 1 .. Len(a) + Len(mark) :
           b[i] = IF i <= Len(a) THEN a[i] ELSE mark[i - Len(a)]
  BY <1>1, Concatenation
<1>. HIDE DEF b
<1>3. /\ u \in Text
      /\ Len(s) \in Nat
      /\ Len(u) = Len(b) + Len(s)
      /\ \A i \in 1 .. Len(b) + Len(s) :
           u[i] = IF i <= Len(b) THEN b[i] ELSE s[i - Len(b)]
  BY <1>2, Concatenation
<1>. HIDE DEF u
<1>4. Len(b) = Len(a) + 1
  BY <1>1, <1>2
<1>5. \A i \in 1 .. Len(a) : u[i] = a[i]
  BY <1>1, <1>2, <1>3, <1>4
<1>6. u[Len(a) + 1] = "#"
  BY <1>1, <1>2, <1>3, <1>4
<1>7. ASSUME NEW i \in 1 .. Len(s)
      PROVE  u[Len(a) + 1 + i] = s[i]
  <2>. DEFINE j == Len(b) + i
  <2>1. j \in 1 .. Len(b) + Len(s) /\ ~(j <= Len(b)) /\ j - Len(b) = i
    BY <1>2, <1>3, <1>4
  <2>2. u[j] = s[j - Len(b)]
    BY <1>3, <2>1
  <2>. QED
    BY <1>4, <2>1, <2>2
<1>8. Spelled(u, a, s)
  BY <1>2, <1>3, <1>4, <1>5, <1>6, <1>7 DEF Spelled
<1>. QED
  BY <1>8 DEF Change, u, b, mark

LEMMA MarkNoLater ==
    ASSUME NEW u, NEW a \in Text, NEW b \in Text,
           NEW s \in Text, NEW t \in Text,
           Unmarked(s), Spelled(u, a, s), Spelled(u, b, t)
    PROVE  Len(b) <= Len(a)
<1>1. /\ Len(a) \in Nat /\ Len(b) \in Nat
      /\ Len(s) \in Nat /\ Len(t) \in Nat
      /\ Len(a) + 1 + Len(s) = Len(b) + 1 + Len(t)
  BY DEF Spelled
<1>2. ASSUME Len(a) < Len(b)
      PROVE  FALSE
  <2>. DEFINE i == Len(b) - Len(a)
  <2>1. i \in 1 .. Len(s) /\ Len(a) + 1 + i = Len(b) + 1
    BY <1>1, <1>2
  <2>2. u[Len(a) + 1 + i] = s[i]
    BY <2>1 DEF Spelled
  <2>3. u[Len(b) + 1] = "#"
    BY DEF Spelled
  <2>4. DOMAIN s = 1 .. Len(s)
    BY LenProperties DEF Text
  <2>5. s[i] # "#"
    BY <2>1, <2>4 DEF Unmarked
  <2>. QED
    BY <2>1, <2>2, <2>3, <2>5
<1>. QED
  BY <1>1, <1>2

LEMMA ChangeInjective ==
    ASSUME "#" \in Pieces, NEW a \in Text, NEW b \in Text,
           NEW s \in Text, NEW t \in Text,
           Unmarked(s), Unmarked(t), Change(a, s) = Change(b, t)
    PROVE  a = b /\ s = t
<1>. DEFINE u == Change(a, s)
<1>1. Spelled(u, a, s) /\ Spelled(u, b, t)
  <2>1. Spelled(Change(a, s), a, s) /\ Spelled(Change(b, t), b, t)
    BY ChangeElements
  <2>. QED
    BY <2>1
<1>. HIDE DEF u
<1>2. Len(a) <= Len(b) /\ Len(b) <= Len(a)
  BY <1>1, MarkNoLater
<1>3. /\ Len(a) \in Nat /\ Len(b) \in Nat
      /\ Len(s) \in Nat /\ Len(t) \in Nat
      /\ Len(a) + 1 + Len(s) = Len(b) + 1 + Len(t)
  BY <1>1 DEF Spelled
<1>4. Len(a) = Len(b) /\ Len(s) = Len(t)
  BY <1>2, <1>3
<1>5. \A i \in 1 .. Len(a) : a[i] = b[i]
  BY <1>1, <1>4 DEF Spelled
<1>6. \A i \in 1 .. Len(s) : s[i] = t[i]
  BY <1>1, <1>4 DEF Spelled
<1>. QED
  BY <1>4, <1>5, <1>6, SameText

\* Lowering the case of a change lowers that of its repository and its number.
LEMMA LowerChange ==
    ASSUME "#" \in Pieces, LowerCase["#"] = "#",
           NEW a \in Text, NEW s \in Text
    PROVE  Lower(Change(a, s)) = Change(Lower(a), Lower(s))
<1>. DEFINE mark == <<"#">>
<1>1. mark \in Text /\ Len(mark) = 1 /\ mark[1] = "#"
  BY DEF Text
<1>. HIDE DEF mark
<1>2. Lower(mark) = mark
  <2>1. /\ Lower(mark) \in Text /\ Len(Lower(mark)) = 1
        /\ Lower(mark)[1] = "#"
    BY <1>1, LowerType
  <2>. QED
    BY <1>1, <2>1, SameText
<1>3. Lower(a \o mark) = Lower(a) \o Lower(mark)
  BY <1>1, LowerConcatenation
<1>4. a \o mark \in Text
  BY <1>1, Concatenation
<1>5. Lower((a \o mark) \o s) = Lower(a \o mark) \o Lower(s)
  BY <1>4, LowerConcatenation
<1>. QED
  BY <1>2, <1>3, <1>5 DEF Change, mark

\* A key that was computed holds a colon.
LEMMA JoinedHoldsColon ==
    ASSUME NEW a \in Text, NEW s \in Text
    PROVE  ~ColonFree(Join2(a, s)) /\ Join2(a, s) # Empty
<1>1. /\ Join2(a, s) \in Text
      /\ Len(Join2(a, s)) = Len(a) + 1 + Len(s)
      /\ Join2(a, s)[Len(a) + 1] = Colon
  BY JoinType, JoinElements
<1>2. /\ Len(a) \in Nat /\ Len(s) \in Nat
      /\ DOMAIN Join2(a, s) = 1 .. Len(Join2(a, s))
  BY <1>1, LenProperties DEF Text
<1>3. Len(a) + 1 \in DOMAIN Join2(a, s)
  BY <1>1, <1>2
<1>. QED
  BY <1>1, <1>3 DEF ColonFree, Empty
=============================================================================
