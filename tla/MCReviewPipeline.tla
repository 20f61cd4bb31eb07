-------------------------- MODULE MCReviewPipeline --------------------------
(***************************************************************************)
(* ReviewPipeline on small instances.  One run looks at it from two sides: *)
(* every change with the agent on or off and analyses that repeat names,   *)
(* leave them out, take a rule's and push the score past its cap; and one  *)
(* plain change with every pair of configuration files and a model that    *)
(* asks for one call of each kind.                                         *)
(***************************************************************************)
EXTENDS ReviewPipeline, Functions

Document(enabled, tools, given, rounds, calls) ==
    [enabled |-> enabled, tools |-> tools, given |-> given,
     limits |-> [max_rounds |-> rounds, timeout_ms |-> 0,
                 max_tool_calls_per_round |-> calls]]

Ok(doc) == [read |-> "ok", doc |-> doc]

NoFile == {[read |-> "missing", doc |-> EmptyDocument]}

Unreadable == NoFile \cup {[read |-> "malformed", doc |-> EmptyDocument]}

\* All in one file.
Enabled == {Ok(Document("true", "true", Credentials, 2, 1))}

\* As config/review-agent.json: no key, tools enabled.
Public ==
    Unreadable \cup
      {Ok(Document(e, "true", {"base_url", "model"}, r, 2)) :
         e \in {"true", "false"}, r \in {-1, 1, 2}}

Local ==
    Unreadable \cup
      {Ok(Document("unset", t, g, r, c)) :
         t \in {"unset", "false"}, g \in {{}, {"api_key"}}, r \in {0, 2},
         c \in {0, 1}}
      \cup {Ok(Document(e, "unset", {"api_key"}, 0, 0)) : e \in {"true", "false"}}

AllPublic == Public \cup Enabled

AllChanges == Changes

Plain == [source |-> "pull_request", environment |-> "other", critical |-> FALSE,
          auth |-> FALSE, sensitive |-> FALSE, files |-> FALSE]

\* A plain change in different environments and with or without files.
PlainChanges == {c \in Changes : ~c.critical /\ ~c.auth /\ ~c.sensitive}

SomeWords == {"a", "b", "c", "core_path_modified", "?"}

OneEvidence == {"ev"}

Call(id, type, name, argument) ==
    [id |-> id, type |-> type, name |-> name, argument |-> argument]

OneCall == {Call("a", "function", "list_rule_signals", "")}

\* Two that run, and one for each way to fail.
SomeCalls ==
    {Call("a", "function", "list_evidence", ""),
     Call("a", "function", "get_evidence_by_id", "ev"),
     Call("a", "function", "get_evidence_by_id", "other"),
     Call("",  "function", "list_evidence", ""),
     Call("a", "retrieval", "list_evidence", ""),
     Call("a", "function", "get_scoring_policy", "")}

AllCalls == OneCall \cup SomeCalls

Suggestion(name, severity) == [name |-> name, severity |-> severity]

Analysis(analyzer, confidence, human, suggestions) ==
    [analyzer |-> analyzer, confidence |-> confidence, human |-> human,
     suggestions |-> suggestions]

SomeSuggestions ==
    {<<>>,
     <<Suggestion("a", "MEDIUM"), Suggestion("a", "CRITICAL")>>,
     <<Suggestion("", "HIGH"), Suggestion("core_path_modified", "CRITICAL"),
       Suggestion("a", "?")>>,
     <<Suggestion("a", "CRITICAL"), Suggestion("b", "CRITICAL"),
       Suggestion("c", "HIGH"), Suggestion("b", "LOW")>>}

SomeAnalyses ==
    {Analysis("", c, h, s) : c \in {30, 90}, h \in BOOLEAN, s \in SomeSuggestions}

\* The second passes itself off as a fallback.
TwoAnalyses ==
    {Analysis(a, 80, FALSE, <<Suggestion("a", "?")>>) :
        a \in {"", "agent_runtime_fallback"}}

AllAnalyses == SomeAnalyses \cup TwoAnalyses

\* A model that answers in percent.
PercentAnalyses ==
    {Analysis("", c, h, <<Suggestion("a", "HIGH")>>) : c \in {95, 9500}, h \in BOOLEAN}
-----------------------------------------------------------------------------
\* The two sides: what is analysed, and what the model says then.
Broad == files.public \in Enabled

MCInit ==
    /\ Init
    /\ Broad => files.local \in NoFile
    /\ Broad \/ change = Plain \/ (files.public \in NoFile /\ files.local \in NoFile)

Said ==
    \A i \in DOMAIN transcript :
      LET message == transcript[i]
      IN  /\ message.content \in {Unusable} \cup
               IF Broad THEN SomeAnalyses ELSE TwoAnalyses
          /\ Range(message.calls) \subseteq IF Broad THEN OneCall ELSE SomeCalls
          /\ Broad => Len(message.calls) <= 2

MCNext == Next /\ Said'

MCFairSpec == MCInit /\ [][MCNext]_vars /\ WF_vars(MCNext)
=============================================================================
