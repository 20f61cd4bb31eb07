--------------------------- MODULE GitHubWebhook ---------------------------
(***************************************************************************)
(* What a delivery of GitHub becomes: refused, ignored, or a request to    *)
(* create a review (internal/api/review_github_webhook.go and              *)
(* internal/review/github_webhook.go).  GitHub is external: it delivers    *)
(* any event of a pull request, any number of times and in any order.      *)
(***************************************************************************)
EXTENDS DedupeKey

CONSTANT SecretSet   \* whether the service has a webhook secret

ASSUME SecretAssumption == SecretSet \in BOOLEAN

\* What the handler writes into a request of its own.
ASSUME LiteralsAssumption ==
    {"github", "pr-", "#", "pull_request", "prod", "staging", "unknown"}
      \subseteq Pieces

(***************************************************************************)
(* header:  the X-GitHub-Event header, "" when it is absent                *)
(* signed:  whether the signature is there, well formed and the body's     *)
(* decoded: whether the body is a JSON document                            *)
(* event:   the fields of the event the request is made of, trimmed; an    *)
(*          absent one is empty, the number being the pull request's or    *)
(*          else the event's own.  names is what the repository's name     *)
(*          contains, title what the title does.                           *)
(***************************************************************************)
PullRequestEvents ==
    [action : Pieces, repo : Text, number : Text, sha : Text, base : Pieces,
     baseSha : Text, names : SUBSET STRING, title : SUBSET STRING]

Deliveries ==
    [header : {"", "pull_request", "push"}, signed : BOOLEAN,
     decoded : BOOLEAN, event : PullRequestEvents]

Supported == {"opened", "reopened", "synchronize", "ready_for_review"}

supportsGitHubPullRequestAction(action) == LowerCase[action] \in Supported

inferEnvironmentFromBaseRef(base) ==
    CASE LowerCase[base] \in {"main", "master", "release"} -> <<"prod">>
      [] LowerCase[base] \in {"develop", "development", "staging", "stage"} ->
           <<"staging">>
      [] OTHER -> <<"unknown">>

\* Mutant: the key does not tell the pull requests of a repository apart.
KeyWithoutNumber(event, environment) ==
    Lower(Join5(<<"github">>, event.repo, <<"pr-">>, event.sha, environment))

\* github:<repository>:pr-<number>:<head>:<environment>.  The head is taken as
\* delivered, while the request trims it: one text here, as the hash GitHub
\* sends has no blanks around it.
WebhookKey(event, environment) ==
    Lower(Join5(<<"github">>, event.repo, <<"pr-">> \o event.number, event.sha,
                environment))

\* GitHubPullRequestReviewRequest's request.  Its metadata has a git context
\* and lists no files.
ReviewRequest(event) ==
    LET environment == inferEnvironmentFromBaseRef(event.base)
    IN  [source      |-> <<"pull_request">>,
         change      |-> event.repo \o <<"#">> \o event.number,
         head        |-> event.sha,
         base        |-> event.baseSha,
         environment |-> environment,
         key         |-> WebhookKey(event, environment),
         names       |-> event.names,
         content     |-> event.title,
         contexts    |-> 1]

Complete(event) ==
    event.repo # Empty /\ event.number # Empty /\ event.sha # Empty

\* What the handler does with a delivery, in the order of its checks: the
\* answer it gives at once, or "create".
Outcome(delivery) ==
    IF delivery.header \notin {"", "pull_request"} THEN "bad_request"
    ELSE IF SecretSet /\ ~delivery.signed THEN "unauthorized"
    ELSE IF ~delivery.decoded \/ ~Complete(delivery.event) THEN "bad_request"
    ELSE IF supportsGitHubPullRequestAction(delivery.event.action) THEN "create"
    ELSE "ignored"
=============================================================================
