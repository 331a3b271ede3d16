------------------------------ MODULE Gateway ------------------------------
(***************************************************************************)
(* What the clients see of the gateway between a request and its stream:   *)
(* the names and the answers (ModelRouting), the body a provider is sent   *)
(* (RequestBody), the tools of Codex (ResponsesTools), the web tools it    *)
(* runs itself (LocalWebTools), the transcript of a turn in the chat       *)
(* (Transcript), and the usage it reports (UsageReport).                   *)
(*                                                                         *)
(* part: the one that is busy. They share no state but the settings: a     *)
(* request is routed, then converted, then streamed.                       *)
(***************************************************************************)
EXTENDS ModelRouting, RequestBody, ResponsesTools, LocalWebTools, Transcript, UsageReport

VARIABLES part

gateway_vars == <<part, routing_vars, body_vars, tools_vars, web_vars, transcript_vars, usage_vars>>

GatewayInit ==
  /\ part \in {"routing", "body", "tools", "web", "transcript", "usage"}
  /\ BodyInit /\ ToolsInit /\ WebInit /\ UsageInit
  /\ IF part = "routing" THEN RoutingInit ELSE RoutingRests
  /\ IF part = "transcript" THEN TranscriptInit ELSE TranscriptRests

GatewayNext ==
  /\ UNCHANGED part
  /\ \/ /\ part = "routing" /\ RoutingNext
        /\ UNCHANGED <<body_vars, tools_vars, web_vars, transcript_vars, usage_vars>>
     \/ /\ part = "body" /\ BodyNext
        /\ UNCHANGED <<routing_vars, tools_vars, web_vars, transcript_vars, usage_vars>>
     \/ /\ part = "tools" /\ ToolsNext
        /\ UNCHANGED <<routing_vars, body_vars, web_vars, transcript_vars, usage_vars>>
     \/ /\ part = "web" /\ WebNext
        /\ UNCHANGED <<routing_vars, body_vars, tools_vars, transcript_vars, usage_vars>>
     \/ /\ part = "transcript" /\ TranscriptNext
        /\ UNCHANGED <<routing_vars, body_vars, tools_vars, web_vars, usage_vars>>
     \/ /\ part = "usage" /\ UsageNext
        /\ UNCHANGED <<routing_vars, body_vars, tools_vars, web_vars, transcript_vars>>

GatewaySpec == GatewayInit /\ [][GatewayNext]_gateway_vars

-----------------------------------------------------------------------------
(* Names and instances for the model checker.                               *)

ModelRefs == {<<"nvidia_nim", "glm">>, <<"open_router", "anthropic", "opus">>,
              <<"open_router", "nvidia_nim", "glm">>}
ModelFree == {<<"nvidia_nim", "glm">>}
ModelDiscovered == {<<"open_router", "anthropic", "opus">>, <<"open_router", "nvidia_nim", "glm">>}
ModelNeverThink == {<<"open_router", "nvidia_nim", "glm">>}
ModelClaudeNames == {<<"opus">>, <<"sonnet">>}
ModelPrompts ==
  {{}, {"quota"}, {"policy", "command"}, {"policy", "command", "output", "filepaths"},
   {"command", "output"}, {"title"}, {"title", "extract", "command", "output"},
   {"suggestion"}, {"transcript", "verdict"}, {"transcript", "verdict", "suggestion"}}

ModelToolNames == {<<"read">>, <<"fs", "read">>, <<"re.ad">>}
ModelNamespaces == {<<"fs">>, <<"f.s">>}
ModelCleaned == [dirty \in {"re.ad", "f.s"} |-> IF dirty = "re.ad" THEN "re_ad" ELSE "f_s"]

ModelUsage == {<<"p", "a">>, <<"p", "b">>, <<"q", "a">>}

-----------------------------------------------------------------------------
(* Properties.                                                              *)

\* What the gateway lists. The picker shows each name once, the working models first, and a
\* name of it leads back to the provider and the model whose health put it there; the usage
\* report is about every answer the bounded record still has.
ListsSound ==
  /\ ListedInOrder /\ NamesLead
  /\ UsageTypeOK /\ RecordsNewest /\ ReportAgrees

\* Who answers: a provider whenever an agent is at work, and the gateway itself only the
\* prompts it knows; its own web answers are whole streams whatever fails, and a call of a
\* tool is told back to Codex as the tool it declared.
AnswersSound == PromptsLead /\ WebAnswerWhole /\ ToolsAgree
=============================================================================
