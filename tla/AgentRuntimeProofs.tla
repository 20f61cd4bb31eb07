------------------------- MODULE AgentRuntimeProofs -------------------------
(***************************************************************************)
(* Theorems of AgentRuntime, for every content of the files, every set of  *)
(* tool calls and analyses of the model, and every limit.                  *)
(***************************************************************************)
EXTENDS AgentRuntime, TLAPS, FiniteSetTheorems, SequenceTheorems

\* What appending a message does to a transcript.
LEMMA AppendMessage ==
    ASSUME NEW S, NEW t \in Seq(S), NEW m \in S
    PROVE  /\ Append(t, m) \in Seq(S)
           /\ Len(t) \in Nat
           /\ Len(Append(t, m)) = Len(t) + 1
           /\ DOMAIN t = 1 .. Len(t)
           /\ DOMAIN Append(t, m) = 1 .. Len(t) + 1
           /\ \A i \in 1 .. Len(t) : Append(t, m)[i] = t[i]
           /\ Append(t, m)[Len(t) + 1] = m
  BY AppendProperties, LenProperties

LEMMA Singleton ==
    ASSUME NEW S, NEW e \in S
    PROVE  <<e>> \in Seq(S)
  OBVIOUS

\* The messages the loop appends are messages.
LEMMA MessageTypes ==
    /\ Prompt \in Seq(Messages)
    /\ \A calls \in Seq(ModelCalls) : Answer(calls) \in Messages
    /\ \A c \in ModelAnalyses \cup {Unusable} : Final(c) \in Messages
    /\ \A c \in ModelCalls : ToolMessage(c) \in Messages
  <1>1. \A r \in {"system", "user", "assistant", "tool"} : Message(r) \in Messages
    BY DEF Message, Messages
  <1>2. Prompt \in Seq(Messages)
    BY <1>1 DEF Prompt
  <1>3. \A calls \in Seq(ModelCalls) : Answer(calls) \in Messages
    BY <1>1 DEF Answer, Messages
  <1>4. \A c \in ModelAnalyses \cup {Unusable} : Final(c) \in Messages
    BY <1>1 DEF Final, Messages
  <1>5. \A c \in ModelCalls : ToolMessage(c) \in Messages
    BY <1>1, Singleton DEF ToolMessage, Messages
  <1> QED
    BY <1>2, <1>3, <1>4, <1>5

LEMMA AnalysisRecord ==
    ASSUME NEW a \in Texts, NEW n \in Int, NEW b \in BOOLEAN,
           NEW s \in Seq(Suggestions)
    PROVE  [analyzer |-> a, confidence |-> n, human |-> b, suggestions |-> s]
             \in Analyses
  BY DEF Analyses

\* The heuristics give an analysis, and name its analyzer.
LEMMA HeuristicType ==
    ASSUME NEW c \in Changes
    PROVE  /\ Heuristic(c) \in Analyses
           /\ Heuristic(c).analyzer # ""
           /\ FallbackAnalysis(c) \in Analyses
           /\ FallbackAnalysis(c).analyzer # ""
  <1>1. c.auth \in BOOLEAN
    BY DEF Changes
  <1> DEFINE auth == IF c.auth THEN <<[name |-> "llm_auth_path_concern",
                                       severity |-> "HIGH"]>> ELSE <<>>
             sensitive == IF c.sensitive
                            THEN <<[name |-> "llm_sensitive_artifact_concern",
                                    severity |-> "MEDIUM"]>> ELSE <<>>
  <1>2. /\ [name |-> "llm_auth_path_concern", severity |-> "HIGH"]
             \in Suggestions
        /\ [name |-> "llm_sensitive_artifact_concern", severity |-> "MEDIUM"]
             \in Suggestions
    BY DEF Suggestions, Texts, Levels
  <1>9. auth \in Seq(Suggestions) /\ sensitive \in Seq(Suggestions)
    BY <1>2, Singleton
  <1>3. Heuristic(c).suggestions = auth \o sensitive
    BY DEF Heuristic
  <1>4. auth \o sensitive \in Seq(Suggestions)
    BY <1>9, ConcatProperties
  <1> HIDE DEF auth, sensitive
  <1> DEFINE confidence == Heuristic(c).confidence
             human == Heuristic(c).human
             all == auth \o sensitive
  <1>5. confidence \in Int
    BY DEF Heuristic
  <1>6. human \in BOOLEAN
    BY <1>1 DEF Heuristic
  <1>7. Heuristic(c) = [analyzer |-> "heuristic_fallback",
                        confidence |-> confidence, human |-> human,
                        suggestions |-> all]
    BY <1>3 DEF Heuristic
  <1>8. all \in Seq(Suggestions)
    BY <1>4
  <1> HIDE DEF confidence, human, all
  <1>10. {"heuristic_fallback", "agent_runtime_fallback"} \subseteq Texts
    BY DEF Texts
  <1>11. FallbackAnalysis(c) = [analyzer |-> "agent_runtime_fallback",
                                confidence |-> confidence, human |-> human,
                                suggestions |-> all]
    BY <1>7 DEF FallbackAnalysis
  <1>12. Heuristic(c) \in Analyses
    BY <1>5, <1>6, <1>7, <1>8, <1>10, AnalysisRecord
  <1>13. FallbackAnalysis(c) \in Analyses
    BY <1>5, <1>6, <1>8, <1>10, <1>11, AnalysisRecord
  <1>14. Heuristic(c).analyzer # ""
    BY <1>7
  <1>15. FallbackAnalysis(c).analyzer # ""
    BY <1>11
  <1> QED
    BY <1>12, <1>13, <1>14, <1>15

\* Parsing keeps an analysis an analysis and names its analyzer.
LEMMA ParsedType ==
    ASSUME NEW a \in Analyses
    PROVE  Parsed(a) \in Analyses /\ Parsed(a).analyzer # ""
  <1> DEFINE out == NormalizedSuggestions(a.suggestions)
  <1>1. a.suggestions \in Seq(Suggestions)
    BY DEF Analyses
  <1>2. /\ Len(a.suggestions) \in Nat
        /\ DOMAIN a.suggestions = 1 .. Len(a.suggestions)
        /\ \A i \in 1 .. Len(a.suggestions) : a.suggestions[i] \in Suggestions
    BY <1>1, LenProperties, ElementOfSeq
  <1>3. ASSUME NEW i \in 1 .. Len(a.suggestions)
        PROVE  out[i] \in Suggestions
    BY <1>2, <1>3 DEF NormalizedSuggestions, Suggestions, Texts, Levels
  <1>4. out \in [1 .. Len(a.suggestions) -> Suggestions]
    BY <1>2, <1>3 DEF NormalizedSuggestions
  <1>5. out \in Seq(Suggestions)
    BY <1>2, <1>4
  <1> HIDE DEF out
  <1>6. Parsed(a) = [a EXCEPT !.analyzer = IF @ = "" THEN "openai_compatible"
                                           ELSE @,
                              !.suggestions = out]
    BY DEF Parsed, out
  <1> QED
    BY <1>5, <1>6 DEF Analyses, Texts
-----------------------------------------------------------------------------
(***************************************************************************)
(* Type correctness.                                                       *)
(***************************************************************************)
\* Validation makes the limits positive, whatever the files hold.
LEMMA LoadedType ==
    ASSUME NEW public \in Files, NEW local \in Files
    PROVE  /\ LoadAnalyzer(public, local).analyzer \in {"agent", "heuristic"}
           /\ LoadAnalyzer(public, local).tools \in BOOLEAN
           /\ LoadAnalyzer(public, local).limits \in [Limits -> Nat \ {0}]
  <1>1. EmptyDocument \in Documents
    BY DEF EmptyDocument, Documents, Flags
  <1>2. PICK doc \in Documents : MergedFiles(public, local) = Merged(public.doc, doc)
    BY <1>1 DEF MergedFiles, Files
  <1>3. MergedFiles(public, local).limits \in [Limits -> Int]
    BY <1>2 DEF Merged, Documents, Files
  <1> DEFINE limits == [l \in Limits |->
                          IF MergedFiles(public, local).limits[l] > 0
                            THEN MergedFiles(public, local).limits[l]
                            ELSE Default[l]]
  <1>4. \A l \in Limits : Default[l] \in Nat \ {0}
    BY DEF Limits, Default
  <1>5. limits \in [Limits -> Nat \ {0}]
    BY <1>3, <1>4
  <1>6. LoadAnalyzer(public, local).limits = limits
    BY DEF LoadAnalyzer
  <1>7. LoadAnalyzer(public, local).analyzer \in {"agent", "heuristic"}
    BY DEF LoadAnalyzer
  <1>8. LoadAnalyzer(public, local).tools \in BOOLEAN
    BY DEF LoadAnalyzer
  <1> QED
    BY <1>5, <1>6, <1>7, <1>8

LEMMA InitTypes == AgentInit => AgentTypeOK
  <1> SUFFICES ASSUME AgentInit PROVE AgentTypeOK
    OBVIOUS
  <1>1. PICK public \in PublicFiles, local \in LocalFiles :
          /\ files = [public |-> public, local |-> local]
          /\ agent = LoadAnalyzer(public, local)
    BY DEF AgentInit
  <1>2. files \in [public : PublicFiles, local : LocalFiles]
    BY <1>1
  <1>3. /\ agent.analyzer \in {"agent", "heuristic"}
        /\ agent.tools \in BOOLEAN
        /\ agent.limits \in [Limits -> Nat \ {0}]
    BY <1>1, LoadedType, AgentAssumption
  <1>4. NoAnalysis \in Analyses
    BY DEF NoAnalysis, Analyses, Texts
  <1> QED
    BY <1>2, <1>3, <1>4 DEF AgentInit, AgentTypeOK

\* A step that leaves the files alone keeps the type of what it leaves alone.
LEMMA LoopTypes ==
    ASSUME AgentTypeOK, Fixed,
           stage' \in {"wait", "tools", "failed", "done"},
           round' \in Nat, transcript' \in Seq(Messages),
           pending' \in Seq(ModelCalls), analysis' \in Analyses,
           stage' = "done" => analysis'.analyzer # ""
    PROVE  AgentTypeOK'
  BY DEF AgentTypeOK, Fixed

LEMMA StepTypes == AgentTypeOK /\ [AgentNext]_agentVars => AgentTypeOK'
  <1> SUFFICES ASSUME AgentTypeOK, [AgentNext]_agentVars PROVE AgentTypeOK'
    OBVIOUS
  <1>1. /\ change \in Changes
        /\ round \in Nat
        /\ transcript \in Seq(Messages)
        /\ pending \in Seq(ModelCalls)
        /\ analysis \in Analyses
    BY AgentAssumption DEF AgentTypeOK
  <1>2. CASE StartAnalysis
    <2>1. CASE agent.analyzer = "heuristic"
      BY <1>1, <1>2, <2>1, HeuristicType, LoopTypes DEF StartAnalysis
    <2>2. CASE agent.analyzer # "heuristic"
      BY <1>1, <1>2, <2>2, MessageTypes, LoopTypes DEF StartAnalysis
    <2> QED
      BY <2>1, <2>2
  <1>3. CASE RequestFails
    BY <1>1, <1>3, LoopTypes DEF RequestFails, Fail
  <1>4. CASE ReceiveFinal
    <2>1. PICK content \in ModelAnalyses \cup {Unusable} :
            /\ transcript' = Append(transcript, Final(content))
            /\ IF content = Unusable
                 THEN Fail
                 ELSE /\ stage' = "done"
                      /\ analysis' = Parsed(content)
                      /\ UNCHANGED <<round, pending>>
      BY <1>4 DEF ReceiveFinal
    <2>2. transcript' \in Seq(Messages)
      BY <1>1, <2>1, MessageTypes, AppendMessage
    <2>3. Fixed
      BY <1>4 DEF ReceiveFinal
    <2>4. CASE content = Unusable
      BY <1>1, <2>1, <2>2, <2>3, <2>4, LoopTypes DEF Fail
    <2>5. CASE content # Unusable
      <3>1. content \in Analyses
        BY <2>5, AgentAssumption
      <3> QED
        BY <1>1, <2>1, <2>2, <2>3, <2>5, <3>1, ParsedType, LoopTypes
    <2> QED
      BY <2>4, <2>5
  <1>5. CASE ReceiveCalls
    <2>1. PICK n \in 1 .. MaxAnswer : \E c \in [1 .. n -> ModelCalls] :
            /\ transcript' = Append(transcript, Answer(c))
            /\ IF CallsAllowed(c)
                 THEN /\ stage' = "tools"
                      /\ pending' = c
                      /\ UNCHANGED <<round, analysis>>
                 ELSE Fail
      BY <1>5 DEF ReceiveCalls
    <2>2. PICK c \in [1 .. n -> ModelCalls] :
            /\ transcript' = Append(transcript, Answer(c))
            /\ IF CallsAllowed(c)
                 THEN /\ stage' = "tools"
                      /\ pending' = c
                      /\ UNCHANGED <<round, analysis>>
                 ELSE Fail
      BY <2>1
    <2>3. c \in Seq(ModelCalls)
      BY <2>1, AgentAssumption
    <2>4. transcript' \in Seq(Messages)
      BY <1>1, <2>2, <2>3, MessageTypes, AppendMessage
    <2>5. Fixed
      BY <1>5 DEF ReceiveCalls
    <2> QED
      BY <1>1, <2>2, <2>3, <2>4, <2>5, LoopTypes DEF Fail
  <1>6. CASE ExecuteCall
    <2>1. /\ Head(pending) \in ModelCalls
          /\ Tail(pending) \in Seq(ModelCalls)
      BY <1>1, <1>6, HeadTailProperties DEF ExecuteCall
    <2>2. Append(transcript, ToolMessage(Head(pending))) \in Seq(Messages)
      BY <1>1, <2>1, MessageTypes, AppendMessage
    <2>3. stage = "tools" /\ Fixed
      BY <1>6 DEF ExecuteCall
    <2>4. CASE WellFormed(Head(pending)) /\ Executes(Head(pending))
      BY <1>1, <1>6, <2>1, <2>2, <2>3, <2>4, LoopTypes DEF ExecuteCall
    <2>5. CASE ~(WellFormed(Head(pending)) /\ Executes(Head(pending)))
      BY <1>1, <1>6, <2>3, <2>5, LoopTypes DEF ExecuteCall, Fail
    <2> QED
      BY <2>4, <2>5
  <1>7. CASE NextRound
    <2>1. CASE round = agent.limits.max_rounds
      BY <1>1, <1>7, <2>1, LoopTypes DEF NextRound, Fail
    <2>2. CASE round # agent.limits.max_rounds
      <3>1. round + 1 \in Nat
        BY <1>1
      <3>2. /\ stage' = "wait"
            /\ round' = round + 1
            /\ UNCHANGED <<transcript, pending, analysis>>
            /\ Fixed
        BY <1>7, <2>2 DEF NextRound
      <3> QED
        BY <1>1, <3>1, <3>2, LoopTypes
    <2> QED
      BY <2>1, <2>2
  <1>8. CASE FallBack
    BY <1>1, <1>8, HeuristicType, LoopTypes DEF FallBack
  <1>9. CASE UNCHANGED agentVars
    BY <1>9 DEF agentVars, loop, AgentTypeOK
  <1> QED
    BY <1>2, <1>3, <1>4, <1>5, <1>6, <1>7, <1>8, <1>9
       DEF AgentNext, Analyze

\* Whatever the files hold and the model answers, the limits the loop counts
\* against are positive, and a finished analysis is one that names its analyzer.
THEOREM AgentTypeCorrect == AgentSpec => []AgentTypeOK
  BY InitTypes, StepTypes, PTL DEF AgentSpec
-----------------------------------------------------------------------------
(***************************************************************************)
(* What the steps of the loop do, in the form the proofs use.              *)
(***************************************************************************)
LEMMA MessageFields ==
    /\ Len(Prompt) = 2
    /\ Prompt # <<>>
    /\ \A j \in 1 .. 2 : /\ Prompt[j].role \in {"system", "user"}
                        /\ Prompt[j].content = Unusable
    /\ \A calls : /\ Answer(calls).role = "assistant"
                  /\ Answer(calls).calls = calls
                  /\ Answer(calls).content = Unusable
    /\ \A c : /\ Final(c).role = "assistant"
              /\ Final(c).calls = <<>>
              /\ Final(c).content = c
    /\ \A c : /\ ToolMessage(c).role = "tool"
              /\ ToolMessage(c).content = Unusable
  <1>1. Prompt = <<Message("system"), Message("user")>>
    BY DEF Prompt
  <1>2. /\ Message("system").role = "system"
        /\ Message("user").role = "user"
        /\ Message("system").content = Unusable
        /\ Message("user").content = Unusable
    BY DEF Message
  <1>3. /\ Len(Prompt) = 2
        /\ Prompt # <<>>
        /\ Prompt[1] = Message("system")
        /\ Prompt[2] = Message("user")
    BY <1>1
  <1>4. \A j \in 1 .. 2 : /\ Prompt[j].role \in {"system", "user"}
                         /\ Prompt[j].content = Unusable
    BY <1>2, <1>3
  <1>5. \A calls : /\ Answer(calls).role = "assistant"
                   /\ Answer(calls).calls = calls
                   /\ Answer(calls).content = Unusable
    BY DEF Answer, Message
  <1>6. \A c : /\ Final(c).role = "assistant"
               /\ Final(c).calls = <<>>
               /\ Final(c).content = c
    BY DEF Final, Message
  <1>7. \A c : /\ ToolMessage(c).role = "tool"
               /\ ToolMessage(c).content = Unusable
    BY DEF ToolMessage, Message
  <1> QED
    BY <1>3, <1>4, <1>5, <1>6, <1>7

\* The answer with tool calls is one more message; the calls it asks for wait
\* if they are allowed.
LEMMA ReceivedCalls ==
    ASSUME AgentTypeOK, ReceiveCalls
    PROVE  /\ stage = "wait"
           /\ Fixed
           /\ \E c \in Seq(ModelCalls) :
                /\ c # <<>>
                /\ transcript' = Append(transcript, Answer(c))
                /\ \/ /\ CallsAllowed(c)
                      /\ stage' = "tools"
                      /\ pending' = c
                      /\ UNCHANGED <<round, analysis>>
                   \/ Fail
  <1>1. PICK n \in 1 .. MaxAnswer : \E c \in [1 .. n -> ModelCalls] :
          /\ transcript' = Append(transcript, Answer(c))
          /\ IF CallsAllowed(c)
               THEN /\ stage' = "tools"
                    /\ pending' = c
                    /\ UNCHANGED <<round, analysis>>
               ELSE Fail
    BY DEF ReceiveCalls
  <1>2. PICK c \in [1 .. n -> ModelCalls] :
          /\ transcript' = Append(transcript, Answer(c))
          /\ IF CallsAllowed(c)
               THEN /\ stage' = "tools"
                    /\ pending' = c
                    /\ UNCHANGED <<round, analysis>>
               ELSE Fail
    BY <1>1
  <1>3. n \in Nat \ {0}
    BY <1>1, AgentAssumption
  <1>4. c \in Seq(ModelCalls) /\ DOMAIN c = 1 .. n
    BY <1>2, <1>3
  <1>5. c # <<>>
    BY <1>3, <1>4, EmptySeq
  <1> QED
    BY <1>2, <1>4, <1>5 DEF ReceiveCalls

LEMMA ExecutedCall ==
    ASSUME AgentTypeOK, ExecuteCall
    PROVE  /\ stage = "tools"
           /\ Fixed
           /\ pending # <<>>
           /\ pending[1] \in ModelCalls
           /\ \/ /\ transcript' = Append(transcript, ToolMessage(pending[1]))
                 /\ pending' = Tail(pending)
                 /\ UNCHANGED <<stage, round, analysis>>
              \/ Fail /\ UNCHANGED transcript
  <1>1. pending \in Seq(ModelCalls) /\ pending # <<>>
    BY DEF AgentTypeOK, ExecuteCall
  <1>2. Head(pending) = pending[1] /\ Head(pending) \in ModelCalls
    BY <1>1, HeadTailProperties
  <1> QED
    BY <1>1, <1>2 DEF ExecuteCall
-----------------------------------------------------------------------------
(***************************************************************************)
(* The local file governs, and failures end in a fallback.                 *)
(***************************************************************************)
\* The files decide whether there is a loop at all, and whether it runs tools.
Grounded ==
    /\ agent = LoadAnalyzer(files.public, files.local)
    /\ stage = "off" => transcript = <<>>
    /\ transcript # <<>> \/ stage \in {"wait", "tools", "failed"} =>
         agent.analyzer = "agent"
    /\ ~agent.tools =>
         /\ stage # "tools"
         /\ \A j \in DOMAIN transcript : transcript[j].role # "tool"

\* While the loop runs no message is a final content; after a failure the last
\* one is none.
Ended ==
    /\ stage \in {"wait", "tools", "failed"} => transcript # <<>>
    /\ stage \in {"wait", "tools"} =>
         \A j \in DOMAIN transcript : transcript[j].content = Unusable
    /\ stage = "failed" => transcript[Len(transcript)].content = Unusable
    /\ FallbackExplicit

LEMMA InitGrounded == AgentInit => Grounded /\ Ended
  BY DEF AgentInit, Grounded, Ended, FallbackExplicit

LEMMA StepGrounded ==
    AgentTypeOK /\ Grounded /\ [AgentNext]_agentVars => Grounded'
  <1> SUFFICES ASSUME AgentTypeOK, Grounded, [AgentNext]_agentVars
               PROVE  Grounded'
    OBVIOUS
  <1>1. transcript \in Seq(Messages)
    BY DEF AgentTypeOK
  <1>2. ASSUME NEW m \in Messages, transcript' = Append(transcript, m)
        PROVE  /\ transcript # <<>> \/ stage = "wait" \/ stage = "tools"
                    => agent.analyzer = "agent"
               /\ ~agent.tools /\ m.role # "tool" =>
                    \A j \in DOMAIN transcript' : transcript'[j].role # "tool"
    <2>1. \A j \in DOMAIN transcript' :
            \/ j \in DOMAIN transcript /\ transcript'[j] = transcript[j]
            \/ transcript'[j] = m
      BY <1>1, <1>2, AppendMessage
    <2> QED
      BY <2>1 DEF Grounded
  <1>3. CASE StartAnalysis
    <2>1. CASE agent.analyzer = "heuristic"
      BY <1>3, <2>1 DEF StartAnalysis, Grounded, Fixed
    <2>2. CASE agent.analyzer # "heuristic"
      <3>1. DOMAIN Prompt = 1 .. 2
        BY MessageFields, MessageTypes, LenProperties
      <3>2. agent.analyzer = "agent"
        BY <2>2 DEF AgentTypeOK
      <3> QED
        BY <1>3, <2>2, <3>1, <3>2, MessageFields
           DEF StartAnalysis, Grounded, Fixed
    <2> QED
      BY <2>1, <2>2
  <1>4. CASE RequestFails
    BY <1>4 DEF RequestFails, Fail, Fixed, Grounded
  <1>5. CASE ReceiveFinal
    <2>1. PICK content \in ModelAnalyses \cup {Unusable} :
            /\ transcript' = Append(transcript, Final(content))
            /\ stage' \in {"failed", "done"}
      BY <1>5 DEF ReceiveFinal, Fail
    <2>2. Final(content) \in Messages
      BY MessageTypes
    <2>3. Final(content).role # "tool"
      BY MessageFields
    <2>4. stage = "wait" /\ Fixed
      BY <1>5 DEF ReceiveFinal
    <2> QED
      BY <1>2, <2>1, <2>2, <2>3, <2>4 DEF Grounded, Fixed
  <1>6. CASE ReceiveCalls
    <2>1. PICK c \in Seq(ModelCalls) :
            /\ transcript' = Append(transcript, Answer(c))
            /\ (CallsAllowed(c) /\ stage' = "tools") \/ stage' = "failed"
      BY <1>6, ReceivedCalls DEF Fail
    <2>2. Answer(c) \in Messages
      BY MessageTypes
    <2>3. Answer(c).role # "tool"
      BY MessageFields
    <2>4. stage = "wait" /\ Fixed
      BY <1>6, ReceivedCalls
    <2> QED
      BY <1>2, <2>1, <2>2, <2>3, <2>4 DEF Grounded, Fixed, CallsAllowed
  <1>7. CASE ExecuteCall
    BY <1>7, ExecutedCall DEF Grounded, Fixed, Fail
  <1>8. CASE NextRound
    BY <1>8 DEF NextRound, Fail, Fixed, Grounded
  <1>9. CASE FallBack
    BY <1>9 DEF FallBack, Fixed, Grounded
  <1>10. CASE UNCHANGED agentVars
    BY <1>10 DEF agentVars, loop, Grounded
  <1> QED
    BY <1>3, <1>4, <1>5, <1>6, <1>7, <1>8, <1>9, <1>10
       DEF AgentNext, Analyze

\* For all contents of the two files nothing is sent to the model unless they
\* together enable it, and no tool runs that the local file switched off.
THEOREM LocalGoverns == AgentSpec => []LocalFileGoverns
  <1>1. AgentTypeOK /\ Grounded => LocalFileGoverns
    <2> SUFFICES ASSUME AgentTypeOK, Grounded, transcript # <<>>
                 PROVE  LocalFileGoverns
      BY DEF LocalFileGoverns
    <2> DEFINE merged == MergedFiles(files.public, files.local)
               local == IF files.local.read = "ok" THEN files.local.doc
                                                   ELSE EmptyDocument
    <2>1. agent.analyzer = "agent"
      BY DEF Grounded
    <2>2. /\ Readable(files.public, files.local)
          /\ merged.enabled = "true"
          /\ merged.given = Credentials
      BY <2>1 DEF Grounded, LoadAnalyzer
    <2>3. merged = Merged(files.public.doc, local)
      BY DEF MergedFiles
    <2>4. /\ local.enabled # "false"
          /\ Credentials \subseteq files.public.doc.given \cup local.given
      BY <2>2, <2>3 DEF Merged, Override
    <2>5. local.tools = "false" => ~agent.tools
      <3>1. local.tools = "false" => merged.tools = "false"
        BY <2>3 DEF Merged, Override
      <3>2. agent.tools = (merged.tools = "true")
        BY DEF Grounded, LoadAnalyzer
      <3> QED
        BY <3>1, <3>2
    <2>6. EmptyDocument.given = {}
      BY DEF EmptyDocument
    <2> QED
      BY <2>2, <2>4, <2>5, <2>6 DEF Grounded, Readable, LocalFileGoverns
  <1>2. AgentInit => Grounded
    BY InitGrounded
  <1> QED
    BY <1>1, <1>2, StepGrounded, AgentTypeCorrect, PTL DEF AgentSpec

LEMMA StepEnded ==
    AgentTypeOK /\ Grounded /\ Ended /\ [AgentNext]_agentVars => Ended'
  <1> SUFFICES ASSUME AgentTypeOK, Grounded, Ended, [AgentNext]_agentVars
               PROVE  Ended'
    OBVIOUS
  <1>1. transcript \in Seq(Messages)
    BY DEF AgentTypeOK
  \* An appended message is the last one.
  <1>2. ASSUME NEW m \in Messages
        PROVE  LET t == Append(transcript, m)
               IN  /\ t # <<>>
                   /\ t[Len(t)] = m
                   /\ \A j \in DOMAIN t :
                        (j \in DOMAIN transcript /\ t[j] = transcript[j]) \/ t[j] = m
    <2>1. Append(transcript, m) # <<>>
      BY <1>1, AppendMessage, EmptySeq
    <2> QED
      BY <1>1, <2>1, AppendMessage
  <1>3. CASE StartAnalysis
    <2>1. CASE agent.analyzer = "heuristic"
      BY <1>3, <2>1 DEF StartAnalysis, Ended, FallbackExplicit, Fixed
    <2>2. CASE agent.analyzer # "heuristic"
      <3>1. DOMAIN Prompt = 1 .. 2
        BY MessageFields, MessageTypes, LenProperties
      <3> QED
        BY <1>3, <2>2, <3>1, MessageFields
           DEF StartAnalysis, Ended, FallbackExplicit, Fixed
    <2> QED
      BY <2>1, <2>2
  \* What a failure leaves, from a request or from tools.
  <1>4. ASSUME stage \in {"wait", "tools"}, Fail, UNCHANGED transcript
        PROVE  Ended'
    <2>1. Len(transcript) \in DOMAIN transcript
      BY <1>1, <1>4, LenProperties, EmptySeq DEF Ended
    <2> QED
      BY <1>4, <2>1 DEF Fail, Ended, FallbackExplicit
  <1>5. CASE RequestFails
    BY <1>4, <1>5 DEF RequestFails
  <1>6. CASE ReceiveFinal
    <2>1. PICK content \in ModelAnalyses \cup {Unusable} :
            /\ transcript' = Append(transcript, Final(content))
            /\ IF content = Unusable
                 THEN Fail
                 ELSE /\ stage' = "done"
                      /\ analysis' = Parsed(content)
                      /\ UNCHANGED <<round, pending>>
      BY <1>6 DEF ReceiveFinal
    <2>2. /\ transcript' # <<>>
          /\ transcript'[Len(transcript')].content = content
      BY <1>2, <2>1, MessageTypes, MessageFields
    <2>3. CASE content = Unusable
      BY <2>1, <2>2, <2>3 DEF Fail, Ended, FallbackExplicit
    <2>4. CASE content # Unusable
      BY <2>1, <2>2, <2>4 DEF Ended, FallbackExplicit
    <2> QED
      BY <2>3, <2>4
  <1>7. CASE ReceiveCalls
    <2>1. PICK c \in Seq(ModelCalls) :
            /\ transcript' = Append(transcript, Answer(c))
            /\ stage' \in {"tools", "failed"}
      BY <1>7, ReceivedCalls DEF Fail
    <2>2. Answer(c) \in Messages /\ Answer(c).content = Unusable
      BY MessageTypes, MessageFields
    <2>3. stage = "wait"
      BY <1>7, ReceivedCalls
    <2> QED
      BY <1>2, <2>1, <2>2, <2>3 DEF Ended, FallbackExplicit
  <1>8. CASE ExecuteCall
    <2>1. CASE Fail /\ UNCHANGED transcript
      BY <1>4, <1>8, <2>1, ExecutedCall
    <2>2. CASE /\ transcript' = Append(transcript, ToolMessage(pending[1]))
               /\ UNCHANGED stage
      <3>1. /\ ToolMessage(pending[1]) \in Messages
            /\ ToolMessage(pending[1]).content = Unusable
        BY <1>8, ExecutedCall, MessageTypes, MessageFields
      <3>2. stage = "tools"
        BY <1>8, ExecutedCall
      <3> QED
        BY <1>2, <2>2, <3>1, <3>2 DEF Ended, FallbackExplicit
    <2> QED
      BY <1>8, <2>1, <2>2, ExecutedCall
  <1>9. CASE NextRound
    <2>1. CASE Fail
      BY <1>4, <1>9, <2>1 DEF NextRound
    <2>2. CASE ~Fail
      BY <1>9, <2>2 DEF NextRound, Ended, FallbackExplicit
    <2> QED
      BY <2>1, <2>2
  <1>10. CASE FallBack
    BY <1>10 DEF FallBack, Fixed, FallbackAnalysis, Ended, FallbackExplicit
  <1>11. CASE UNCHANGED agentVars
    BY <1>11 DEF agentVars, loop, Ended, FallbackExplicit
  <1> QED
    BY <1>3, <1>5, <1>6, <1>7, <1>8, <1>9, <1>10, <1>11
       DEF AgentNext, Analyze

\* Wherever the loop fails, and whatever was answered before, the analysis is
\* the model's final answer or the heuristics' marked as a fallback.
THEOREM FallbacksAreMarked == AgentSpec => []FallbackExplicit
  <1>1. Ended => FallbackExplicit
    BY DEF Ended
  <1> QED
    BY <1>1, InitGrounded, StepGrounded, StepEnded, AgentTypeCorrect, PTL
       DEF AgentSpec
-----------------------------------------------------------------------------
(***************************************************************************)
(* The limits.                                                             *)
(***************************************************************************)
\* The answers received are the rounds begun, less the one awaited.
Counted ==
    /\ IsFiniteSet(Assistants)
    /\ Cardinality(Assistants) <= agent.limits.max_rounds
    /\ stage = "off" => transcript = <<>>
    /\ stage \in {"wait", "tools"} => round <= agent.limits.max_rounds
    /\ stage = "wait" => Cardinality(Assistants) + 1 = round
    /\ stage = "tools" => Cardinality(Assistants) = round

\* While the loop runs no answer asked for too many calls; the one that did
\* is the last message.
Limited ==
    \A i \in Assistants :
      i + 1 \in DOMAIN transcript \/ stage \in {"wait", "tools"} =>
        Len(transcript[i].calls) <= agent.limits.max_tool_calls_per_round

LEMMA AppendAssistants ==
    ASSUME AgentTypeOK, NEW m \in Messages, transcript' = Append(transcript, m)
    PROVE  /\ Assistants' = IF m.role = "assistant"
                              THEN Assistants \cup {Len(transcript) + 1}
                              ELSE Assistants
           /\ Len(transcript) + 1 \notin Assistants
           /\ \A i \in Assistants : transcript'[i] = transcript[i]
           /\ transcript'[Len(transcript) + 1] = m
  <1>1. transcript \in Seq(Messages)
    BY DEF AgentTypeOK
  <1> QED
    BY <1>1, AppendMessage DEF Assistants

\* What an appended message does to the number of answers.
LEMMA AppendCount ==
    ASSUME AgentTypeOK, Counted,
           NEW m \in Messages, transcript' = Append(transcript, m)
    PROVE  /\ IsFiniteSet(Assistants')
           /\ Cardinality(Assistants) \in Nat
           /\ Cardinality(Assistants') =
                IF m.role = "assistant" THEN Cardinality(Assistants) + 1
                                        ELSE Cardinality(Assistants)
  BY AppendAssistants, FS_AddElement, FS_CardinalityType DEF Counted

LEMMA InitCounted == AgentInit => Counted /\ Limited
  <1> SUFFICES ASSUME AgentInit PROVE Counted /\ Limited
    OBVIOUS
  <1>1. transcript = <<>> /\ stage = "off"
    BY DEF AgentInit
  <1>2. Assistants = {}
    BY <1>1 DEF Assistants
  <1>3. agent.limits.max_rounds \in Nat
    BY InitTypes DEF AgentTypeOK, Limits
  <1> QED
    BY <1>1, <1>2, <1>3, FS_EmptySet DEF Counted, Limited

LEMMA StepCounted ==
    AgentTypeOK /\ Counted /\ [AgentNext]_agentVars => Counted'
  <1> SUFFICES ASSUME AgentTypeOK, Counted, [AgentNext]_agentVars
               PROVE  Counted'
    OBVIOUS
  <1>1. /\ transcript \in Seq(Messages)
        /\ round \in Nat
        /\ agent.limits.max_rounds \in Nat \ {0}
        /\ Cardinality(Assistants) \in Nat
    BY FS_CardinalityType DEF AgentTypeOK, Counted, Limits
  <1>2. ASSUME UNCHANGED <<transcript, agent>>
        PROVE  Assistants' = Assistants
    BY <1>2 DEF Assistants
  <1>3. CASE StartAnalysis
    <2>1. CASE agent.analyzer = "heuristic"
      <3>1. UNCHANGED <<transcript, agent>> /\ stage' = "done"
        BY <1>3, <2>1 DEF StartAnalysis, Fixed
      <3> QED
        BY <1>2, <3>1 DEF Counted
    <2>2. CASE agent.analyzer # "heuristic"
      <3>1. DOMAIN Prompt = 1 .. 2
        BY MessageFields, MessageTypes, LenProperties
      <3>2. /\ transcript' = Prompt
            /\ stage' = "wait"
            /\ round' = 1
            /\ agent' = agent
        BY <1>3, <2>2 DEF StartAnalysis, Fixed
      <3>3. Assistants' = {}
        BY <3>1, <3>2, MessageFields DEF Assistants
      <3> QED
        BY <1>1, <3>2, <3>3, FS_EmptySet DEF Counted
    <2> QED
      BY <2>1, <2>2
  <1>4. ASSUME Fail, Fixed, UNCHANGED transcript
        PROVE  Counted'
    BY <1>2, <1>4 DEF Fail, Fixed, Counted
  <1>5. CASE RequestFails
    BY <1>4, <1>5 DEF RequestFails
  <1>6. CASE ReceiveFinal
    <2>1. PICK content \in ModelAnalyses \cup {Unusable} :
            /\ transcript' = Append(transcript, Final(content))
            /\ stage' \in {"failed", "done"}
      BY <1>6 DEF ReceiveFinal, Fail
    <2>2. Final(content) \in Messages /\ Final(content).role = "assistant"
      BY MessageTypes, MessageFields
    <2>3. /\ IsFiniteSet(Assistants')
          /\ Cardinality(Assistants') = Cardinality(Assistants) + 1
      BY <2>1, <2>2, AppendCount
    <2>4. stage = "wait" /\ agent' = agent
      BY <1>6 DEF ReceiveFinal, Fixed
    <2> QED
      BY <1>1, <2>1, <2>3, <2>4 DEF Counted
  <1>7. CASE ReceiveCalls
    <2>1. PICK c \in Seq(ModelCalls) :
            /\ transcript' = Append(transcript, Answer(c))
            /\ stage' \in {"tools", "failed"}
            /\ round' = round
      BY <1>7, ReceivedCalls DEF Fail
    <2>2. Answer(c) \in Messages /\ Answer(c).role = "assistant"
      BY MessageTypes, MessageFields
    <2>3. /\ IsFiniteSet(Assistants')
          /\ Cardinality(Assistants') = Cardinality(Assistants) + 1
      BY <2>1, <2>2, AppendCount
    <2>4. stage = "wait" /\ agent' = agent
      BY <1>7, ReceivedCalls DEF Fixed
    <2> QED
      BY <1>1, <2>1, <2>3, <2>4 DEF Counted
  <1>8. CASE ExecuteCall
    <2>1. CASE Fail /\ UNCHANGED transcript
      BY <1>4, <1>8, <2>1, ExecutedCall
    <2>2. CASE /\ transcript' = Append(transcript, ToolMessage(pending[1]))
               /\ UNCHANGED <<stage, round>>
      <3>1. /\ ToolMessage(pending[1]) \in Messages
            /\ ToolMessage(pending[1]).role = "tool"
        BY <1>8, ExecutedCall, MessageTypes, MessageFields
      <3>2. /\ IsFiniteSet(Assistants')
            /\ Cardinality(Assistants') = Cardinality(Assistants)
        BY <2>2, <3>1, AppendCount
      <3>3. stage = "tools" /\ agent' = agent
        BY <1>8, ExecutedCall DEF Fixed
      <3> QED
        BY <2>2, <3>2, <3>3 DEF Counted
    <2> QED
      BY <1>8, <2>1, <2>2, ExecutedCall
  <1>9. CASE NextRound
    <2>1. CASE round = agent.limits.max_rounds
      BY <1>4, <1>9, <2>1 DEF NextRound
    <2>2. CASE round # agent.limits.max_rounds
      <3>1. /\ UNCHANGED <<transcript, agent>>
            /\ stage = "tools"
            /\ stage' = "wait"
            /\ round' = round + 1
        BY <1>9, <2>2 DEF NextRound, Fixed
      <3> QED
        BY <1>1, <1>2, <2>2, <3>1 DEF Counted
    <2> QED
      BY <2>1, <2>2
  <1>10. CASE FallBack
    <2>1. UNCHANGED <<transcript, agent>> /\ stage' = "done"
      BY <1>10 DEF FallBack, Fixed
    <2> QED
      BY <1>2, <2>1 DEF Counted
  <1>11. CASE UNCHANGED agentVars
    <2>1. UNCHANGED <<transcript, agent, stage, round>>
      BY <1>11 DEF agentVars, loop
    <2> QED
      BY <1>2, <2>1 DEF Counted
  <1> QED
    BY <1>3, <1>5, <1>6, <1>7, <1>8, <1>9, <1>10, <1>11
       DEF AgentNext, Analyze

LEMMA StepLimited ==
    AgentTypeOK /\ Limited /\ [AgentNext]_agentVars => Limited'
  <1> SUFFICES ASSUME AgentTypeOK, Limited, [AgentNext]_agentVars
               PROVE  Limited'
    OBVIOUS
  <1>1. transcript \in Seq(Messages)
    BY DEF AgentTypeOK
  <1>2. /\ Len(transcript) \in Nat
        /\ DOMAIN transcript = 1 .. Len(transcript)
    BY <1>1, LenProperties
  \* Appending to a transcript within the limits keeps it within, if the
  \* message is no answer with too many calls or the loop ends with it.
  <1>3. ASSUME stage \in {"wait", "tools"}, agent' = agent,
               NEW m \in Messages, transcript' = Append(transcript, m),
               \/ stage' \notin {"wait", "tools"}
               \/ m.role # "assistant"
               \/ Len(m.calls) <= agent.limits.max_tool_calls_per_round
        PROVE  Limited'
    <2>1. DOMAIN transcript' = 1 .. Len(transcript) + 1
      BY <1>1, <1>3, AppendMessage
    <2>2. Len(transcript) + 1 + 1 \notin DOMAIN transcript'
      BY <1>2, <2>1
    <2> QED
      BY <1>2, <1>3, <2>2, AppendAssistants DEF Limited
  <1>4. ASSUME UNCHANGED <<transcript, agent>>,
               stage' \in {"wait", "tools"} => stage \in {"wait", "tools"}
        PROVE  Limited'
    BY <1>4 DEF Limited, Assistants
  <1>5. CASE StartAnalysis
    <2>1. CASE agent.analyzer = "heuristic"
      BY <1>4, <1>5, <2>1 DEF StartAnalysis, Fixed
    <2>2. CASE agent.analyzer # "heuristic"
      <3>1. DOMAIN Prompt = 1 .. 2
        BY MessageFields, MessageTypes, LenProperties
      <3>2. transcript' = Prompt
        BY <1>5, <2>2 DEF StartAnalysis
      <3>3. Assistants' = {}
        BY <3>1, <3>2, MessageFields DEF Assistants
      <3> QED
        BY <3>3 DEF Limited
    <2> QED
      BY <2>1, <2>2
  <1>6. CASE RequestFails
    BY <1>4, <1>6 DEF RequestFails, Fail, Fixed
  <1>7. CASE ReceiveFinal
    <2>1. PICK content \in ModelAnalyses \cup {Unusable} :
            /\ transcript' = Append(transcript, Final(content))
            /\ stage' \in {"failed", "done"}
      BY <1>7 DEF ReceiveFinal, Fail
    <2>2. Final(content) \in Messages
      BY MessageTypes
    <2>3. stage = "wait" /\ agent' = agent
      BY <1>7 DEF ReceiveFinal, Fixed
    <2> QED
      BY <1>3, <2>1, <2>2, <2>3
  <1>8. CASE ReceiveCalls
    <2>1. PICK c \in Seq(ModelCalls) :
            /\ transcript' = Append(transcript, Answer(c))
            /\ CallsAllowed(c) \/ stage' = "failed"
      BY <1>8, ReceivedCalls DEF Fail
    <2>2. Answer(c) \in Messages /\ Answer(c).calls = c
      BY MessageTypes, MessageFields
    <2>3. stage = "wait" /\ agent' = agent
      BY <1>8, ReceivedCalls DEF Fixed
    <2> QED
      BY <1>3, <2>1, <2>2, <2>3 DEF CallsAllowed
  <1>9. CASE ExecuteCall
    <2>1. CASE Fail /\ UNCHANGED transcript
      BY <1>4, <1>9, <2>1, ExecutedCall DEF Fail, Fixed
    <2>2. CASE transcript' = Append(transcript, ToolMessage(pending[1]))
      <3>1. /\ ToolMessage(pending[1]) \in Messages
            /\ ToolMessage(pending[1]).role = "tool"
        BY <1>9, ExecutedCall, MessageTypes, MessageFields
      <3>2. stage = "tools" /\ agent' = agent
        BY <1>9, ExecutedCall DEF Fixed
      <3> QED
        BY <1>3, <2>2, <3>1, <3>2
    <2> QED
      BY <1>9, <2>1, <2>2, ExecutedCall
  <1>10. CASE NextRound
    BY <1>4, <1>10 DEF NextRound, Fail, Fixed
  <1>11. CASE FallBack
    BY <1>4, <1>11 DEF FallBack, Fixed
  <1>12. CASE UNCHANGED agentVars
    BY <1>4, <1>12 DEF agentVars, loop
  <1> QED
    BY <1>5, <1>6, <1>7, <1>8, <1>9, <1>10, <1>11, <1>12
       DEF AgentNext, Analyze

\* For all limits, and however many calls the model asks for in however many
\* answers, it gets no request beyond the rounds configured and no tool runs
\* for an answer with too many calls.
THEOREM LimitsHold == AgentSpec => []WithinLimits
  <1>1. AgentTypeOK /\ Counted /\ Limited => WithinLimits
    <2> SUFFICES ASSUME AgentTypeOK, Counted, Limited
                 PROVE  WithinLimits
      OBVIOUS
    <2>1. /\ Cardinality(Assistants) \in Nat
          /\ agent.limits.max_rounds \in Nat
      BY FS_CardinalityType DEF AgentTypeOK, Counted, Limits
    <2> QED
      BY <2>1 DEF Counted, Limited, WithinLimits
  <1> QED
    BY <1>1, InitCounted, StepCounted, StepLimited, AgentTypeCorrect, PTL
       DEF AgentSpec
-----------------------------------------------------------------------------
(***************************************************************************)
(* Every tool call is answered.                                            *)
(***************************************************************************)
\* The k-th call of the answer at i has its result in its place, or that place
\* is still to come and the call still pending.
Settled(i, k) ==
    LET last == Len(transcript)
    IN  \/ /\ i + k <= last
           /\ transcript[i + k] = ToolMessage(transcript[i].calls[k])
        \/ /\ i + k > last
           /\ i + k - last <= Len(pending)
           /\ pending[i + k - last] = transcript[i].calls[k]

\* While the loop runs every call is settled, the pending calls are the last of
\* one answer's, and every tool result belongs to an answer.
Answered ==
    /\ stage \in {"off", "wait"} => pending = <<>>
    /\ stage \in {"wait", "tools"} =>
         /\ \A i \in Assistants :
              /\ transcript[i].calls # <<>>
              /\ \A k \in 1 .. Len(transcript[i].calls) : Settled(i, k)
         /\ \A j \in DOMAIN transcript :
              transcript[j].role = "tool" =>
                \E i \in Assistants : j - i \in 1 .. Len(transcript[i].calls)
         /\ \A p \in 1 .. Len(pending) :
              \E i \in Assistants :
                Len(transcript) + p - i \in 1 .. Len(transcript[i].calls)

\* A call of an answer in the transcript is one the model may ask for.
LEMMA AnswerTypes ==
    ASSUME AgentTypeOK
    PROVE  /\ transcript \in Seq(Messages)
           /\ Len(transcript) \in Nat
           /\ DOMAIN transcript = 1 .. Len(transcript)
           /\ pending \in Seq(ModelCalls)
           /\ Len(pending) \in Nat
           /\ Assistants \subseteq 1 .. Len(transcript)
           /\ \A i \in Assistants :
                /\ transcript[i].calls \in Seq(ModelCalls)
                /\ Len(transcript[i].calls) \in Nat
                /\ DOMAIN transcript[i].calls = 1 .. Len(transcript[i].calls)
  <1>1. /\ transcript \in Seq(Messages)
        /\ pending \in Seq(ModelCalls)
    BY DEF AgentTypeOK
  <1>2. /\ Len(transcript) \in Nat
        /\ DOMAIN transcript = 1 .. Len(transcript)
        /\ Len(pending) \in Nat
    BY <1>1, LenProperties
  <1>3. Assistants \subseteq 1 .. Len(transcript)
    BY <1>2 DEF Assistants
  <1>4. ASSUME NEW i \in Assistants
        PROVE  transcript[i].calls \in Seq(ModelCalls)
    <2>1. transcript[i] \in Messages
      BY <1>1, <1>3, ElementOfSeq
    <2> QED
      BY <2>1 DEF Messages
  <1> QED
    BY <1>1, <1>2, <1>3, <1>4, LenProperties

LEMMA InitAnswered == AgentInit => Answered
  BY DEF AgentInit, Answered

\* The answer with calls becomes the last message and its calls the pending.
LEMMA ReceiveAnswered ==
    ASSUME AgentTypeOK, Answered, stage = "wait",
           NEW c \in Seq(ModelCalls), c # <<>>,
           transcript' = Append(transcript, Answer(c)),
           stage' = "tools", pending' = c
    PROVE  Answered'
  <1> DEFINE last == Len(transcript)
             m == Answer(c)
  <1>1. m \in Messages /\ m.role = "assistant" /\ m.calls = c
    BY MessageTypes, MessageFields
  <1> HIDE DEF m
  <1>2. /\ last \in Nat
        /\ Len(transcript') = last + 1
        /\ DOMAIN transcript = 1 .. last
        /\ DOMAIN transcript' = 1 .. last + 1
        /\ \A j \in 1 .. last : transcript'[j] = transcript[j]
        /\ transcript'[last + 1] = m
    BY <1>1, AnswerTypes, AppendMessage DEF m
  <1>3. /\ Assistants \subseteq 1 .. last
        /\ Assistants' = Assistants \cup {last + 1}
    BY <1>1, AnswerTypes, AppendAssistants DEF m
  <1>4. pending = <<>> /\ Len(pending) = 0
    BY DEF Answered
  <1>5. Len(c) \in Nat
    BY LenProperties
  <1>6. ASSUME NEW i \in Assistants'
        PROVE  /\ transcript'[i].calls # <<>>
               /\ \A k \in 1 .. Len(transcript'[i].calls) : Settled(i, k)'
    <2>1. CASE i = last + 1
      BY <1>1, <1>2, <1>5, <2>1 DEF Settled
    <2>2. CASE i \in Assistants
      <3>1. transcript'[i] = transcript[i] /\ i \in 1 .. last
        BY <1>2, <1>3, <2>2
      <3>2. ASSUME NEW k \in 1 .. Len(transcript[i].calls)
            PROVE  Settled(i, k)'
        <4>1. Settled(i, k) /\ k \in Nat /\ k >= 1
          BY <2>2, <3>2, AnswerTypes DEF Answered
        <4>2. /\ i + k <= last
              /\ transcript[i + k] = ToolMessage(transcript[i].calls[k])
          BY <1>2, <1>4, <3>1, <4>1 DEF Settled
        <4>3. transcript'[i + k] = transcript[i + k]
          BY <1>2, <3>1, <4>1, <4>2
        <4> QED
          BY <1>2, <3>1, <4>1, <4>2, <4>3 DEF Settled
      <3> QED
        BY <2>2, <3>1, <3>2 DEF Answered
    <2> QED
      BY <1>3, <2>1, <2>2
  <1>7. ASSUME NEW j \in DOMAIN transcript', transcript'[j].role = "tool"
        PROVE  \E i \in Assistants' : j - i \in 1 .. Len(transcript'[i].calls)
    <2>1. j \in 1 .. last /\ transcript[j].role = "tool"
      BY <1>1, <1>2, <1>7
    <2>2. PICK i \in Assistants : j - i \in 1 .. Len(transcript[i].calls)
      BY <1>2, <2>1 DEF Answered
    <2> QED
      BY <1>2, <1>3, <2>2
  <1>8. ASSUME NEW p \in 1 .. Len(c)
        PROVE  \E i \in Assistants' :
                 Len(transcript') + p - i \in 1 .. Len(transcript'[i].calls)
    <2>1. Len(transcript') + p - (last + 1) = p
      BY <1>2, <1>5
    <2> QED
      BY <1>1, <1>2, <1>3, <2>1
  <1> QED
    BY <1>6, <1>7, <1>8 DEF Answered

\* A call that runs is settled by the message appended.
LEMMA ExecuteAnswered ==
    ASSUME AgentTypeOK, Answered, stage = "tools", pending # <<>>,
           pending[1] \in ModelCalls,
           transcript' = Append(transcript, ToolMessage(pending[1])),
           pending' = Tail(pending), stage' = "tools"
    PROVE  Answered'
  <1> DEFINE last == Len(transcript)
             m == ToolMessage(pending[1])
  <1>1. m \in Messages /\ m.role = "tool"
    BY MessageTypes, MessageFields
  <1> HIDE DEF m
  <1>2. /\ last \in Nat
        /\ Len(transcript') = last + 1
        /\ DOMAIN transcript = 1 .. last
        /\ DOMAIN transcript' = 1 .. last + 1
        /\ \A j \in 1 .. last : transcript'[j] = transcript[j]
        /\ transcript'[last + 1] = m
    BY <1>1, AnswerTypes, AppendMessage DEF m
  <1>3. /\ Assistants \subseteq 1 .. last
        /\ Assistants' = Assistants
    BY <1>1, AnswerTypes, AppendAssistants DEF m
  <1>4. /\ Len(pending) \in Nat \ {0}
        /\ Len(pending') = Len(pending) - 1
        /\ \A p \in 1 .. Len(pending) - 1 : pending'[p] = pending[p + 1]
    BY AnswerTypes, EmptySeq, HeadTailProperties
  <1>5. ASSUME NEW i \in Assistants'
        PROVE  /\ transcript'[i].calls # <<>>
               /\ \A k \in 1 .. Len(transcript'[i].calls) : Settled(i, k)'
    <2>1. i \in Assistants /\ i \in 1 .. last /\ transcript'[i] = transcript[i]
      BY <1>2, <1>3
    <2>2. ASSUME NEW k \in 1 .. Len(transcript[i].calls)
          PROVE  Settled(i, k)'
      <3>1. Settled(i, k) /\ k \in Nat /\ k >= 1 /\ i \in Nat
        BY <1>2, <2>1, <2>2, AnswerTypes DEF Answered
      <3>2. CASE i + k <= last
        <4>1. transcript[i + k] = ToolMessage(transcript[i].calls[k])
          BY <1>2, <3>1, <3>2 DEF Settled
        <4>2. transcript'[i + k] = transcript[i + k]
          BY <1>2, <2>1, <3>1, <3>2
        <4> QED
          BY <1>2, <2>1, <3>1, <3>2, <4>1, <4>2 DEF Settled
      <3>3. CASE i + k = last + 1
        <4>1. pending[1] = transcript[i].calls[k]
          <5>1. /\ i + k - last <= Len(pending)
                /\ pending[i + k - last] = transcript[i].calls[k]
            BY <1>2, <3>1, <3>3 DEF Settled
          <5>2. i + k - last = 1
            BY <1>2, <3>1, <3>3
          <5> QED
            BY <5>1, <5>2
        <4> QED
          BY <1>2, <2>1, <3>1, <3>3, <4>1 DEF Settled, m
      <3>4. CASE i + k > last + 1
        <4>1. /\ i + k - last <= Len(pending)
              /\ pending[i + k - last] = transcript[i].calls[k]
          BY <1>2, <3>1, <3>4 DEF Settled
        <4> DEFINE p == i + k - (last + 1)
        <4>2. p \in 1 .. Len(pending) - 1 /\ p + 1 = i + k - last
          BY <1>2, <1>4, <3>1, <3>4, <4>1
        <4>3. pending'[p] = transcript[i].calls[k]
          BY <1>4, <4>1, <4>2
        <4> QED
          BY <1>2, <1>4, <2>1, <3>1, <3>4, <4>2, <4>3 DEF Settled
      <3> QED
        BY <1>2, <3>1, <3>2, <3>3, <3>4
    <2> QED
      BY <2>1, <2>2 DEF Answered
  <1>6. ASSUME NEW j \in DOMAIN transcript', transcript'[j].role = "tool"
        PROVE  \E i \in Assistants' : j - i \in 1 .. Len(transcript'[i].calls)
    <2>1. CASE j \in 1 .. last
      <3>1. PICK i \in Assistants : j - i \in 1 .. Len(transcript[i].calls)
        BY <1>2, <1>6, <2>1 DEF Answered
      <3> QED
        BY <1>2, <1>3, <3>1
    <2>2. CASE j = last + 1
      <3>1. PICK i \in Assistants : last + 1 - i \in 1 .. Len(transcript[i].calls)
        BY <1>4 DEF Answered
      <3> QED
        BY <1>2, <1>3, <2>2, <3>1
    <2>3. j \in 1 .. last \/ j = last + 1
      <3>1. j \in 1 .. last + 1
        BY <1>2, <1>6
      <3> QED
        BY <1>2, <3>1
    <2> QED
      BY <2>1, <2>2, <2>3
  <1>7. ASSUME NEW p \in 1 .. Len(pending')
        PROVE  \E i \in Assistants' :
                 Len(transcript') + p - i \in 1 .. Len(transcript'[i].calls)
    <2>1. p + 1 \in 1 .. Len(pending)
      BY <1>4
    <2>2. PICK i \in Assistants :
            last + (p + 1) - i \in 1 .. Len(transcript[i].calls)
      BY <2>1 DEF Answered
    <2>3. Len(transcript') + p - i = last + (p + 1) - i
      BY <1>2, <1>3, <1>4
    <2> QED
      BY <1>2, <1>3, <2>2, <2>3
  <1> QED
    BY <1>5, <1>6, <1>7 DEF Answered

LEMMA StepAnswered ==
    AgentTypeOK /\ Answered /\ [AgentNext]_agentVars => Answered'
  <1> SUFFICES ASSUME AgentTypeOK, Answered, [AgentNext]_agentVars
               PROVE  Answered'
    OBVIOUS
  <1>1. ASSUME stage' \in {"failed", "done"}
        PROVE  Answered'
    BY <1>1 DEF Answered
  <1>2. ASSUME UNCHANGED <<transcript, pending>>
        PROVE  \A i, k : Settled(i, k)' = Settled(i, k)
    BY <1>2 DEF Settled
  <1>3. CASE StartAnalysis
    <2>1. CASE agent.analyzer = "heuristic"
      BY <1>1, <1>3, <2>1 DEF StartAnalysis
    <2>2. CASE agent.analyzer # "heuristic"
      <3>1. DOMAIN Prompt = 1 .. 2
        BY MessageFields, MessageTypes, LenProperties
      <3>2. transcript' = Prompt /\ stage' = "wait" /\ pending' = <<>>
        BY <1>3, <2>2 DEF StartAnalysis, Answered
      <3>3. Assistants' = {}
        BY <3>1, <3>2, MessageFields DEF Assistants
      <3> QED
        BY <3>1, <3>2, <3>3, MessageFields DEF Answered
    <2> QED
      BY <2>1, <2>2
  <1>4. CASE RequestFails
    BY <1>1, <1>4 DEF RequestFails, Fail
  <1>5. CASE ReceiveFinal
    BY <1>1, <1>5 DEF ReceiveFinal, Fail
  <1>6. CASE ReceiveCalls
    <2>1. stage = "wait"
      BY <1>6, ReceivedCalls
    <2>2. PICK c \in Seq(ModelCalls) :
            /\ c # <<>>
            /\ transcript' = Append(transcript, Answer(c))
            /\ (stage' = "tools" /\ pending' = c) \/ stage' = "failed"
      BY <1>6, ReceivedCalls DEF Fail
    <2> QED
      BY <1>1, <2>1, <2>2, ReceiveAnswered
  <1>7. CASE ExecuteCall
    <2>1. CASE Fail
      BY <1>1, <2>1 DEF Fail
    <2>2. CASE /\ transcript' = Append(transcript, ToolMessage(pending[1]))
               /\ pending' = Tail(pending)
               /\ UNCHANGED stage
      <3>1. stage = "tools" /\ pending # <<>> /\ pending[1] \in ModelCalls
        BY <1>7, ExecutedCall
      <3> QED
        BY <2>2, <3>1, ExecuteAnswered
    <2> QED
      BY <1>7, <2>1, <2>2, ExecutedCall
  <1>8. CASE NextRound
    <2>1. CASE stage' = "failed"
      BY <1>1, <2>1
    <2>2. CASE stage' # "failed"
      <3>1. /\ stage = "tools"
            /\ stage' = "wait"
            /\ pending' = <<>>
            /\ UNCHANGED <<transcript, pending>>
        BY <1>8, <2>2 DEF NextRound, Fail
      <3>2. Assistants' = Assistants
        BY <3>1 DEF Assistants
      <3> QED
        BY <1>2, <3>1, <3>2 DEF Answered
    <2> QED
      BY <2>1, <2>2
  <1>9. CASE FallBack
    BY <1>1, <1>9 DEF FallBack
  <1>10. CASE UNCHANGED agentVars
    <2>1. UNCHANGED <<transcript, pending, stage>>
      BY <1>10 DEF agentVars, loop
    <2>2. Assistants' = Assistants
      BY <2>1 DEF Assistants
    <2> QED
      BY <1>2, <2>1, <2>2 DEF Answered
  <1> QED
    BY <1>3, <1>4, <1>5, <1>6, <1>7, <1>8, <1>9, <1>10
       DEF AgentNext, Analyze

\* Whatever calls the model asks for, every request it is sent has each of its
\* earlier calls followed by the result, in order, and no other tool results.
THEOREM EveryCallHasItsResult == AgentSpec => []CallsAnswered
  <1>1. AgentTypeOK /\ Answered => CallsAnswered
    <2> SUFFICES ASSUME AgentTypeOK, Answered, stage = "wait"
                 PROVE  CallsAnswered
      BY DEF CallsAnswered
    <2>1. pending = <<>> /\ Len(pending) = 0
      BY DEF Answered
    <2>2. ASSUME NEW i \in Assistants, NEW k \in DOMAIN transcript[i].calls
          PROVE  /\ i + k \in DOMAIN transcript
                 /\ transcript[i + k] = ToolMessage(transcript[i].calls[k])
      <3>1. k \in 1 .. Len(transcript[i].calls)
        BY <2>2, AnswerTypes
      <3>2. Settled(i, k) /\ k \in Nat /\ k >= 1 /\ i \in Nat /\ i >= 1
        BY <2>2, <3>1, AnswerTypes DEF Answered
      <3> QED
        BY <2>1, <3>2, AnswerTypes DEF Settled
    <2>3. \A i \in Assistants : transcript[i].calls # <<>>
      BY DEF Answered
    <2>4. \A j \in DOMAIN transcript :
            transcript[j].role = "tool" =>
              \E i \in Assistants : j - i \in DOMAIN transcript[i].calls
      BY AnswerTypes DEF Answered
    <2> QED
      BY <2>2, <2>3, <2>4 DEF CallsAnswered
  <1> QED
    BY <1>1, InitAnswered, StepAnswered, AgentTypeCorrect, PTL DEF AgentSpec
=============================================================================
