---------------------------- MODULE AgentRuntime ----------------------------
(***************************************************************************)
(* The analysis of one change: the configured analyzer (agent_analyzer.go) *)
(* with the tool-calling loop of the language model (agent_runtime.go), its*)
(* tools (agent_tools.go), its client (llm_client.go) and the fallback to  *)
(* the heuristics.  The model is external: it may answer anything, or not  *)
(* before the client's timeout.                                            *)
(*                                                                         *)
(*     off -> wait -> tools -> wait -> ... -> done                         *)
(*             \________\______________> failed -> done                    *)
(***************************************************************************)
EXTENDS AgentConfig, RiskScoring

CONSTANTS
    PublicFiles,   \* what the public configuration file may hold
    LocalFiles,    \* what the local one may hold
    Candidates,    \* the changes analysed
    Evidence,      \* identifiers of the evidence collected for the change
    ModelCalls,    \* the tool calls the model may ask for
    MaxAnswer,     \* the most tool calls it asks for in one answer
    ModelAnalyses, \* the analyses it may end with
    Words,         \* the names and severities in them
    Unusable       \* a final answer that is empty, no JSON or has no summary

\* The texts of an analysis: the model's and the code's.
Texts == Words \cup Levels \cup
           {"", "heuristic_fallback", "openai_compatible",
            "agent_runtime_fallback", "llm_auth_path_concern",
            "llm_sensitive_artifact_concern"}

Suggestions == [name : Texts, severity : Texts]

Analyses == [analyzer : Texts, confidence : Int, human : BOOLEAN,
             suggestions : Seq(Suggestions)]

ASSUME AgentAssumption ==
    /\ PublicFiles \subseteq Files
    /\ LocalFiles \subseteq Files
    /\ Candidates \subseteq Changes
    /\ MaxAnswer \in Nat
    /\ ModelAnalyses \subseteq Analyses
    /\ Unusable \notin ModelAnalyses

VARIABLES
    files,      \* the two configuration files, read when the service starts
    agent,      \* the analyzer they select, with its limits
    change,     \* the change under review
    stage,      \* where the analysis stands
    round,      \* the round of the loop
    transcript, \* the messages sent with the next request
    pending,    \* the tool calls of the last answer not yet executed
    analysis    \* the result, when stage is "done"

loop      == <<stage, round, transcript, pending, analysis>>
agentVars == <<files, agent, change, loop>>

ToolNames == {"get_change_bundle", "get_change_understanding", "list_evidence",
              "get_evidence_by_id", "list_rule_signals"}

Message(role) ==
    [role |-> role, calls |-> <<>>, answers |-> <<>>, content |-> Unusable]

Prompt == <<Message("system"), Message("user")>>

\* The model's answer: the tool calls it asks for, or a final content.
Answer(calls) == [Message("assistant") EXCEPT !.calls = calls]

Final(content) == [Message("assistant") EXCEPT !.content = content]

\* A tool's result names the call it answers.
ToolMessage(call) == [Message("tool") EXCEPT !.answers = <<call>>]

\* validateToolCall.
WellFormed(call) == call.id # "" /\ call.type = "function"

\* The registry knows the tool and the tool accepts the arguments.  Only
\* get_evidence_by_id looks at them.
Executes(call) ==
    /\ call.name \in ToolNames
    /\ call.name = "get_evidence_by_id" => call.argument \in Evidence

\* Unknown severities are LOW.  The analyzer's name is the model's if given.
NormalizedSuggestions(suggestions) ==
    [i \in DOMAIN suggestions |->
        [suggestions[i] EXCEPT !.severity = IF @ \in Levels THEN @ ELSE "LOW"]]

Parsed(a) ==
    [a EXCEPT !.analyzer = IF @ = "" THEN "openai_compatible" ELSE @,
              !.suggestions = NormalizedSuggestions(@)]

\* Mutant: the fallback is not told from a plain heuristic analysis.
UnmarkedFallback(c) == Heuristic(c)

FallbackAnalysis(c) ==
    [Heuristic(c) EXCEPT !.analyzer = "agent_runtime_fallback"]

\* Go's zero value of a HybridAnalysis.
NoAnalysis == [analyzer |-> "", confidence |-> 0, human |-> FALSE,
               suggestions |-> <<>>]

AgentInit ==
    /\ \E public \in PublicFiles, local \in LocalFiles :
         /\ files = [public |-> public, local |-> local]
         /\ agent = LoadAnalyzer(public, local)
    /\ change \in Candidates
    /\ stage = "off"
    /\ round = 0
    /\ transcript = <<>>
    /\ pending = <<>>
    /\ analysis = NoAnalysis
-----------------------------------------------------------------------------
Fixed == UNCHANGED <<files, agent, change>>

Fail == stage' = "failed" /\ UNCHANGED <<round, pending, analysis>>

\* Analyze: the heuristics at once, or the first request of the loop.
StartAnalysis ==
    /\ stage = "off"
    /\ IF agent.analyzer = "heuristic"
         THEN /\ stage' = "done"
              /\ analysis' = Heuristic(change)
              /\ UNCHANGED <<round, transcript, pending>>
         ELSE /\ stage' = "wait"
              /\ round' = 1
              /\ transcript' = Prompt
              /\ UNCHANGED <<pending, analysis>>
    /\ Fixed

\* The client times out, meets a status other than 2xx or a body it cannot
\* decode, or the response has no choices.
RequestFails ==
    /\ stage = "wait"
    /\ Fail
    /\ UNCHANGED transcript
    /\ Fixed

\* An answer without tool calls is final.
ReceiveFinal ==
    /\ stage = "wait"
    /\ \E content \in ModelAnalyses \cup {Unusable} :
         /\ transcript' = Append(transcript, Final(content))
         /\ IF content = Unusable
              THEN Fail
              ELSE /\ stage' = "done"
                   /\ analysis' = Parsed(content)
                   /\ UNCHANGED <<round, pending>>
    /\ Fixed

\* Mutant: the number of tool calls is not looked at.
AnyNumberAllowed(calls) == agent.tools

\* A round takes tool calls only if they are enabled and not too many.
CallsAllowed(calls) ==
    /\ agent.tools
    /\ Len(calls) <= agent.limits.max_tool_calls_per_round

ReceiveCalls ==
    /\ stage = "wait"
    /\ \E n \in 1 .. MaxAnswer : \E calls \in [1 .. n -> ModelCalls] :
         /\ transcript' = Append(transcript, Answer(calls))
         /\ IF CallsAllowed(calls)
              THEN /\ stage' = "tools"
                   /\ pending' = calls
                   /\ UNCHANGED <<round, analysis>>
              ELSE Fail
    /\ Fixed

\* Mutant: a call that fails is passed over.
SkipFailedCall ==
    /\ stage = "tools"
    /\ pending # <<>>
    /\ pending' = Tail(pending)
    /\ transcript' = IF WellFormed(Head(pending)) /\ Executes(Head(pending))
                       THEN Append(transcript, ToolMessage(Head(pending)))
                       ELSE transcript
    /\ UNCHANGED <<stage, round, analysis>>
    /\ Fixed

\* The calls of an answer run in order; the first that fails ends the loop.
ExecuteCall ==
    /\ stage = "tools"
    /\ pending # <<>>
    /\ IF WellFormed(Head(pending)) /\ Executes(Head(pending))
         THEN /\ transcript' = Append(transcript, ToolMessage(Head(pending)))
              /\ pending' = Tail(pending)
              /\ UNCHANGED <<stage, round, analysis>>
         ELSE Fail /\ UNCHANGED transcript
    /\ Fixed

\* All calls answered: another request, unless this was the last round.
NextRound ==
    /\ stage = "tools"
    /\ pending = <<>>
    /\ IF round = agent.limits.max_rounds
         THEN Fail
         ELSE /\ stage' = "wait"
              /\ round' = round + 1
              /\ UNCHANGED <<pending, analysis>>
    /\ UNCHANGED transcript
    /\ Fixed

\* Mutant: the analysis is tried again instead.
FallBackAgain ==
    /\ stage = "failed"
    /\ stage' = "wait"
    /\ round' = 1
    /\ transcript' = Prompt
    /\ pending' = <<>>
    /\ UNCHANGED analysis
    /\ Fixed

\* agentAnalyzer: the error becomes a heuristic analysis marked as fallback.
FallBack ==
    /\ stage = "failed"
    /\ stage' = "done"
    /\ analysis' = FallbackAnalysis(change)
    /\ UNCHANGED <<round, transcript, pending>>
    /\ Fixed

Analyze ==
    \/ RequestFails \/ ReceiveFinal \/ ReceiveCalls \/ ExecuteCall
    \/ NextRound \/ FallBack

AgentNext == StartAnalysis \/ Analyze

AgentSpec == AgentInit /\ [][AgentNext]_agentVars

\* The goroutine runs, and the client's timeout bounds every request.
FairAgentSpec == AgentSpec /\ WF_agentVars(AgentNext)
-----------------------------------------------------------------------------
(***************************************************************************)
(* Properties.                                                             *)
(***************************************************************************)
Messages == [role : {"system", "user", "assistant", "tool"},
             calls : Seq(ModelCalls), answers : Seq(ModelCalls),
             content : ModelAnalyses \cup {Unusable}]

\* Every variable has its type; the limits the loop counts against are
\* positive whatever the files hold, and a stored analysis names an analyzer.
AgentTypeOK ==
    /\ files \in [public : PublicFiles, local : LocalFiles]
    /\ agent.analyzer \in {"agent", "heuristic"}
    /\ agent.tools \in BOOLEAN
    /\ agent.limits \in [Limits -> Nat \ {0}]
    /\ change \in Candidates
    /\ stage \in {"off", "wait", "tools", "failed", "done"}
    /\ round \in Nat
    /\ transcript \in Seq(Messages)
    /\ pending \in Seq(ModelCalls)
    /\ analysis \in Analyses
    /\ stage = "done" => analysis.analyzer # ""

Assistants == {i \in DOMAIN transcript : transcript[i].role = "assistant"}

\* Whatever the model asked for in earlier rounds, each request it is sent has
\* every tool call of every answer followed by its result, in the order of the
\* calls, and no other tool results: what the chat completions protocol wants
\* of the transcript (Analyze appends the answer, then each tool message).
CallsAnswered ==
    stage = "wait" =>
      /\ \A i \in Assistants :
           /\ transcript[i].calls # <<>>
           /\ \A k \in DOMAIN transcript[i].calls :
                /\ i + k \in DOMAIN transcript
                /\ transcript[i + k] = ToolMessage(transcript[i].calls[k])
      /\ \A j \in DOMAIN transcript :
           transcript[j].role = "tool" =>
             \E i \in Assistants : j - i \in DOMAIN transcript[i].calls

\* The model never gets more requests than the rounds configured, and no tool
\* runs for an answer with more calls than a round may have: exceeding a limit
\* ends the loop (agent_runtime.go:90-92, 105-110).  The limits are the
\* configured ones, whatever their size.
WithinLimits ==
    /\ Cardinality(Assistants) + (IF stage = "wait" THEN 1 ELSE 0)
         <= agent.limits.max_rounds
    /\ \A i \in Assistants :
         i + 1 \in DOMAIN transcript =>
           Len(transcript[i].calls) <= agent.limits.max_tool_calls_per_round

\* Nothing is sent to the model unless the files together say so: the local
\* file's "false" switches the agent, or its tools, off whatever the public
\* file says, and all three credentials are there (applyTo, validateAgentConfig).
LocalFileGoverns ==
    LET local == files.local.doc
        off(flag) == files.local.read = "ok" /\ flag = "false"
    IN  transcript # <<>> =>
          /\ files.public.read = "ok"
          /\ files.local.read # "malformed"
          /\ ~off(local.enabled)
          /\ Credentials \subseteq files.public.doc.given \cup
               IF files.local.read = "ok" THEN local.given ELSE {}
          /\ off(local.tools) =>
               \A j \in DOMAIN transcript : transcript[j].role # "tool"

\* An analysis is either the model's whole final answer or the heuristics'
\* with nothing of the model's, and then marked as a fallback: no round that
\* failed leaves part of itself in the result (design of the agent, "Fallback
\* results must remain explicit").
FallbackExplicit ==
    stage = "done" /\ agent.analyzer = "agent" =>
      LET final == transcript[Len(transcript)].content
      IN  IF final # Unusable
            THEN analysis = Parsed(final)
            ELSE analysis = [Heuristic(change) EXCEPT
                               !.analyzer = "agent_runtime_fallback"]

\* Every analysis ends, whatever the model answers or fails to.
AnalysisEnds == <>(stage = "done")
=============================================================================
