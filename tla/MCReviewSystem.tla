--------------------------- MODULE MCReviewSystem ---------------------------
(***************************************************************************)
(* ReviewSystem on two pull requests with two heads, one of them delivered *)
(* under two spellings, and a few requests of the API.                     *)
(***************************************************************************)
EXTENDS ReviewSystem

CONSTANT o1

OneOutcome == {o1}

Lowered == [Web |-> "web", Prod |-> "prod", Synchronize |-> "synchronize"]

AllPieces ==
    DOMAIN Lowered \cup {Lowered[p] : p \in DOMAIN Lowered} \cup
      {":", "#", "github", "pr-", "7", "8", "a", "b", "0", "own", "opened",
       "reopened", "closed", "main", "feature", "unknown", "staging",
       "pull_request", "sql_migration", "terraform_plan", "-eu", "long"}

ToLower ==
    [p \in AllPieces |-> IF p \in DOMAIN Lowered THEN Lowered[p] ELSE p]

PullRequest(action, repo, number, sha, base, title) ==
    [action |-> action, repo |-> repo, number |-> number, sha |-> sha,
     base |-> base, baseSha |-> <<"0">>, names |-> {}, title |-> title]

Opened7 ==
    PullRequest("opened", <<"Web">>, <<"7">>, <<"a">>, "main", {"critical"})

Delivery(event) ==
    [header |-> "pull_request", signed |-> TRUE, decoded |-> TRUE,
     event |-> event]

\* Two heads of one pull request, the first also for another branch, another
\* pull request with that head, a merge, and a delivery for each way to be
\* refused.
SomeDeliveries ==
    {Delivery(Opened7),
     Delivery([Opened7 EXCEPT !.action = "Synchronize", !.repo = <<"web">>]),
     Delivery([Opened7 EXCEPT !.action = "Synchronize", !.sha = <<"b">>]),
     Delivery([Opened7 EXCEPT !.action = "reopened", !.base = "feature"]),
     Delivery([Opened7 EXCEPT !.number = <<"8">>, !.title = {}]),
     Delivery([Opened7 EXCEPT !.action = "closed"]),
     Delivery([Opened7 EXCEPT !.sha = Empty]),
     [Delivery(Opened7) EXCEPT !.header = "push"],
     [Delivery(Opened7) EXCEPT !.signed = FALSE],
     [Delivery(Opened7) EXCEPT !.decoded = FALSE]}

Migration ==
    [source |-> <<"sql_migration">>, change |-> <<"own">>, head |-> Empty,
     base |-> Empty, environment |-> <<"prod">>, key |-> Empty,
     names |-> {"critical", "auth"}, content |-> {"sensitive", "files"},
     contexts |-> 4]

SomeCreates ==
    {Migration,
     [Migration EXCEPT !.environment = <<"Prod">>],
     [Migration EXCEPT !.head = <<"a">>, !.content = {}],
     [Migration EXCEPT !.key = <<"own">>, !.environment = <<"Prod", "-eu">>,
                       !.content = {}, !.contexts = 0],
     [Migration EXCEPT !.change = <<"long", "long", "long", "long">>],
     [Migration EXCEPT !.environment = Empty]}

\* A change of four pieces does not fit.
SomeWidths == [change |-> 3, key |-> 10, source |-> 1, environment |-> 2]

SomeKeys ==
    {dedupeKeyFor(req) :
       req \in SomeCreates \cup
                 {ReviewRequest(d.event) :
                    d \in {e \in SomeDeliveries : Outcome(e) = "create"}}}

\* A failed review whose request is stored, and an older one without, which
\* has only its rollback plan to tell the base it came from.
Failed(request, version) ==
    [id |-> -1, task |-> -1,
     change |-> Migration.change, key |-> dedupeKeyFor(Migration),
     source |-> Migration.source, names |-> Migration.names,
     environment |-> Migration.environment,
     status |-> "FAILED", result |-> NoResult, created |-> 0,
     request |-> request, understanding |-> Nil,
     evidence |-> [numbers |-> {}], signals |-> [numbers |-> {}, raised |-> {}],
     recommendation |-> [reviewers |-> {}, version |-> version],
     timeline |-> <<Event("FAILED", "service", 0)>>, decisions |-> <<>>,
     evaluation |-> Nil, error |-> "failed"]

SomeSeeds == {Failed([Migration EXCEPT !.base = <<"0">>], Empty),
              Failed(Nil, <<"0">>)}

SomeSubmitted == {"approve", "override", "maybe"}

SomeUpdates ==
    {[outcome |-> o1, incident |-> Nil], [outcome |-> Nil, incident |-> TRUE],
     [outcome |-> Nil, incident |-> FALSE]}

\* One fault in a run: a restart or a clock that steps back.
MCNext == Next /\ (restarts' = 0 \/ steady')

MCSpec == Init /\ [][MCNext]_vars
=============================================================================
