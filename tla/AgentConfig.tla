---------------------------- MODULE AgentConfig ----------------------------
(***************************************************************************)
(* The configuration of the review agent (internal/review/agent_config.go):*)
(* a public file and an optional local one that overrides it, merged,      *)
(* validated and turned into the choice of an analyzer.                    *)
(*                                                                         *)
(* Of the three credentials only their presence matters.  The three limits *)
(* merge and default alike and are one function.                           *)
(***************************************************************************)
EXTENDS Integers

Credentials == {"base_url", "model", "api_key"}

Limits == {"max_rounds", "timeout_ms", "max_tool_calls_per_round"}

Default == [max_rounds |-> 3, timeout_ms |-> 15000,
            max_tool_calls_per_round |-> 4]

\* The two booleans are pointers in the document: absent is not false.
Flags == {"unset", "false", "true"}

Documents == [enabled : Flags, tools : Flags, given : SUBSET Credentials,
              limits : [Limits -> Int]]

\* What reading a file gives: its document, "missing" or "malformed".  The
\* document of a file that cannot be read has no meaning.
Files == [read : {"ok", "missing", "malformed"}, doc : Documents]

EmptyDocument == [enabled |-> "unset", tools |-> "unset", given |-> {},
                  limits |-> [l \in Limits |-> 0]]

Override(flag, by) == IF by = "unset" THEN flag ELSE by

\* Mutant: a local "false" is taken for an absent flag.
OverrideByTrue(flag, by) == IF by = "true" THEN by ELSE flag

\* Mutant: the document's local flag cannot turn the agent off.
MergedByTrue(public, local) ==
    [enabled |-> OverrideByTrue(public.enabled, local.enabled),
     tools   |-> OverrideByTrue(public.tools, local.tools),
     given   |-> public.given \cup local.given,
     limits  |-> [l \in Limits |-> IF local.limits[l] # 0
                                     THEN local.limits[l]
                                     ELSE public.limits[l]]]

\* applyTo: what the local document states overrides the public one.
Merged(public, local) ==
    [enabled |-> Override(public.enabled, local.enabled),
     tools   |-> Override(public.tools, local.tools),
     given   |-> public.given \cup local.given,
     limits  |-> [l \in Limits |-> IF local.limits[l] # 0
                                     THEN local.limits[l]
                                     ELSE public.limits[l]]]

\* The public file must be readable; the local one may be missing.
Readable(public, local) == public.read = "ok" /\ local.read # "malformed"

MergedFiles(public, local) ==
    Merged(public.doc, IF local.read = "ok" THEN local.doc ELSE EmptyDocument)

\* LoadAgentConfig and validateAgentConfig.  Whatever is wrong with the files
\* the service starts with the heuristic analyzer.
LoadAnalyzer(public, local) ==
    LET merged == MergedFiles(public, local)
        usable == /\ Readable(public, local)
                  /\ merged.enabled = "true"
                  /\ merged.given = Credentials
    IN  [analyzer |-> IF usable THEN "agent" ELSE "heuristic",
         tools    |-> merged.tools = "true",
         limits   |-> [l \in Limits |-> IF merged.limits[l] > 0
                                          THEN merged.limits[l]
                                          ELSE Default[l]]]
=============================================================================
