---------------------------- MODULE ModelRouting ----------------------------
(***************************************************************************)
(* What becomes of a request: the list of models a client picks from       *)
(* (api/model_catalog.py), the provider and the model its name stands for  *)
(* (api/model_router.py, api/gateway_model_ids.py), and who answers it: a  *)
(* provider, the local web tools, or one of the shortcuts for Claude       *)
(* Code's housekeeping prompts (api/handlers, api/detection.py,            *)
(* api/optimization_handlers.py).                                          *)
(*                                                                         *)
(* A model's name is the sequence of its parts between slashes; a part     *)
(* that contains "opus" is the part "opus". Of the prompts only the marks  *)
(* are kept that the gateway looks for.                                    *)
(***************************************************************************)
EXTENDS Integers, Sequences, FiniteSets, SequencesExt

CONSTANTS
  Refs,           \* provider/model references
  ChatProviders,  \* the providers behind an OpenAI chat API
  OtherProviders, \* the others
  FreeRefs,       \* what is_free_model_ref accepts
  ClaudeNames,    \* SUPPORTED_CLAUDE_MODELS
  Discovered,     \* the references in the providers' cached lists
  NeverThink,     \* those known not to think
  Prompts         \* sets of marks

Supported == ChatProviders \cup OtherProviders
Tiers == <<"opus", "haiku", "sonnet">>
NoRef == <<>>

ASSUME RoutingAssumption ==
  /\ IsFiniteSet(Refs) /\ FreeRefs \subseteq Refs /\ NeverThink \subseteq Discovered
  /\ Discovered \subseteq Refs
  /\ \A ref \in Refs : ref \in Seq(STRING) /\ Len(ref) >= 2 /\ ref[1] \in Supported
  /\ {"anthropic", "claude-3-freecc-no-thinking"} \cap Supported = {}

VARIABLES
  settings,
  statuses,       \* what ModelHealth.status says of each reference
  picker,         \* the list a client was shown
  request,
  answer

routing_vars == <<settings, statuses, picker, request, answer>>

-----------------------------------------------------------------------------
(* The list.                                                                *)

GatewayId(ref) == <<"anthropic">> \o ref
NoThinkingId(ref) == <<"claude-3-freecc-no-thinking">> \o ref

\* configured_chat_model_refs.
Configured(s) == ({s.model} \cup {s.models[t] : t \in Range(Tiers)}) \ {NoRef}

\* mode "untracked": model_health_enabled is off.
IsListable(s, ref) ==
  \/ s.mode \in {"all", "untracked"}
  \/ s.mode = "healthy_only" /\ statuses[ref] = "healthy"
  \/ s.mode = "exclude_unhealthy" /\ statuses[ref] # "unhealthy"

IsHealthy(s, ref) == s.mode # "untracked" /\ statuses[ref] = "healthy"

\* _rank_key; references of the same rank are in a fixed order.
RankKey(s, ref) == (IF IsHealthy(s, ref) THEN 0 ELSE 2) + (IF ref \in FreeRefs THEN 0 ELSE 1)

\* _append_provider_model_variants.
Variants(ref) ==
  (IF ref \in NeverThink THEN <<>> ELSE <<GatewayId(ref)>>) \o <<NoThinkingId(ref)>>

\* build_models_list_response.
ModelList(s) ==
  LET listed == {ref \in Configured(s) \cup Discovered : IsListable(s, ref)}
      place(ref) == <<RankKey(s, ref), SelectInSeq(SetToSeq(Refs), LAMBDA q : q = ref)>>
      before(r, q) == \/ place(r)[1] < place(q)[1]
                      \/ place(r)[1] = place(q)[1] /\ place(r)[2] < place(q)[2]
  IN  FlattenSeq([i \in 1 .. Cardinality(listed) |-> Variants(SetToSortSeq(listed, before)[i])])
        \o SetToSeq(ClaudeNames)

-----------------------------------------------------------------------------
(* The names.                                                               *)

\* decode_gateway_model_id.
Decoded(name) ==
  IF Len(name) >= 3 /\ Head(name) \in {"anthropic", "claude-3-freecc-no-thinking"}
  THEN Tail(name) ELSE name

\* Slip: a model called "anthropic" is taken for the prefix.
DirectInner(name) ==
  LET at == {i \in DOMAIN name : name[i] \in {"anthropic", "claude-3-freecc-no-thinking"}}
      rest == IF at = {} THEN name
              ELSE SubSeq(name, 1 + CHOOSE i \in at : \A j \in at : j <= i, Len(name))
  IN  IF Len(rest) >= 2 /\ Head(rest) \in Supported THEN rest ELSE NoRef

\* _direct_provider_model.
Direct(name) ==
  LET ref == Decoded(name)
  IN  IF Len(ref) >= 2 /\ Head(ref) \in Supported THEN ref ELSE NoRef

\* The first of opus, haiku and sonnet that is in the name and has a setting of its own.
OfTier(name, values, unset, otherwise) ==
  LET set == {k \in DOMAIN Tiers : Tiers[k] \in Range(name) /\ values[Tiers[k]] # unset}
  IN  IF set = {} THEN otherwise ELSE values[Tiers[Min(set)]]

\* ModelRouter.resolve, _resolve_model_ref and _resolve_thinking.
Resolve(s, name) ==
  LET direct == Direct(name)
      thinks(n) == OfTier(n, s.thinking, "unset", s.think) = "on"
  IN  IF direct # NoRef
      THEN [ref |-> direct,
            thinking |-> Head(name) # "claude-3-freecc-no-thinking" /\ thinks(Tail(direct))]
      ELSE [ref |-> OfTier(name, s.models, NoRef, s.model), thinking |-> thinks(name)]

-----------------------------------------------------------------------------
(* The housekeeping prompts. marks: of the system prompt ("title",          *)
(* "extract") and of the messages.                                          *)

Alone(r) == r.messages = 1
NoTools(r) == r.tools = "none"

IsQuota(r) == r.probe /\ Alone(r) /\ "quota" \in r.marks
IsPrefixDetection(r) == Alone(r) /\ {"policy", "command"} \subseteq r.marks
IsTitle(r) == NoTools(r) /\ "title" \in r.marks
IsSuggestion(r) == "suggestion" \in r.marks
IsFilepaths(r) ==
  /\ Alone(r) /\ NoTools(r)
  /\ {"command", "output"} \subseteq r.marks /\ {"filepaths", "extract"} \cap r.marks # {}
IsClassifier(r) == NoTools(r) /\ {"transcript", "verdict"} \subseteq r.marks

\* try_optimizations: the first that is switched on and matches.
Shortcuts == <<"quota", "prefix", "title", "suggestion", "filepaths">>
Matches(r, shortcut) ==
  CASE shortcut = "quota" -> IsQuota(r)
    [] shortcut = "prefix" -> IsPrefixDetection(r)
    [] shortcut = "title" -> IsTitle(r)
    [] shortcut = "suggestion" -> IsSuggestion(r)
    [] shortcut = "filepaths" -> IsFilepaths(r)

Shortcut(s, r) ==
  LET matching == {k \in DOMAIN Shortcuts : Shortcuts[k] \in s.shortcuts /\ Matches(r, Shortcuts[k])}
  IN  IF matching = {} THEN "none" ELSE Shortcuts[Min(matching)]

-----------------------------------------------------------------------------
(* The server tools web_search and web_fetch, in the list or forced.        *)

WebTools == {"web_search", "web_fetch"}

\* openai_chat_upstream_server_tool_error.
ServerToolError(s, r) ==
  IF r.forced # "none" THEN ~ s.web ELSE r.tools \in WebTools

\* is_web_server_tool_request.
IsWebRequest(r) == r.forced # "none" /\ r.tools = r.forced

-----------------------------------------------------------------------------
(* The answer.                                                              *)

Refused(r) == [by |-> "error", ref |-> NoRef, thinking |-> FALSE]

\* BaseProvider._is_thinking_enabled: the request may only switch thinking off.
Provided(resolved, r) ==
  [by |-> "provider", ref |-> resolved.ref,
   thinking |-> resolved.thinking /\ r.thinking \notin {"disabled", "enabled: false"}]

Locally(by) == [by |-> by, ref |-> NoRef, thinking |-> FALSE]

\* MessagesHandler.create.
Messages(s, r) ==
  LET routed == Resolve(s, r.name)
      resolved == IF IsClassifier(r) THEN [routed EXCEPT !.thinking = FALSE] ELSE routed
  IN  IF r.messages = 0 THEN Refused(r)
      ELSE IF resolved.ref[1] \in ChatProviders /\ ServerToolError(s, r) THEN Refused(r)
      ELSE IF s.web /\ IsWebRequest(r) THEN Locally("web")
      ELSE IF Shortcut(s, r) # "none" THEN Locally(Shortcut(s, r))
      ELSE Provided(resolved, r)

\* ResponsesHandler.create: no shortcuts; the server tools of a list are left out.
Responses(s, r) ==
  IF r.messages = 0 THEN Refused(r) ELSE Provided(Resolve(s, r.name), r)

\* TokenCountHandler.count names the model it counts for in its trace only.
Counted(s, r) == IF r.messages = 0 THEN Refused(r)
                 ELSE [by |-> "count", ref |-> Resolve(s, r.name).ref, thinking |-> FALSE]

-----------------------------------------------------------------------------
(* A client.                                                                *)

NoRequest == [name |-> <<>>, api |-> "none"]
NoAnswer == [by |-> "none", ref |-> NoRef, thinking |-> FALSE]

\* The settings that matter to the list, to the names, and to the prompts and tools.
Only(tier, value, other) == [t \in Range(Tiers) |-> IF t = tier THEN value ELSE other]
SomeSettings(models, thinks, thinking, modes, webs, shortcuts) ==
  [model: Refs, models: {Only("opus", ref, NoRef) : ref \in models}, think: thinks,
   thinking: {Only("opus", v, "unset") : v \in thinking}, mode: modes, web: webs,
   shortcuts: shortcuts]
AllShortcuts == Range(Shortcuts)
ListSettings ==
  SomeSettings(Refs \cup {NoRef}, {"on"}, {"unset"},
               {"untracked", "all", "healthy_only", "exclude_unhealthy"}, {TRUE}, {AllShortcuts})
NameSettings ==
  SomeSettings(Refs \cup {NoRef}, {"on", "off"}, {"unset", "on", "off"}, {"all"},
               {TRUE}, {AllShortcuts})
PromptSettings ==
  SomeSettings({NoRef}, {"on"}, {"unset"}, {"all"}, BOOLEAN,
               {{}, AllShortcuts} \cup {{x} : x \in AllShortcuts})

TurnRequests(name) ==
  [name: {name}, api: {"messages", "responses", "count"}, messages: {2}, tools: {"own"},
   forced: {"none"}, marks: {{}}, probe: {FALSE},
   thinking: {"absent", "enabled", "disabled", "enabled: false"}]
PromptRequests ==
  [name: {<<"unknown">>}, api: {"messages", "responses"}, messages: 0 .. 2,
   tools: {"none", "own"} \cup WebTools, forced: {"none"} \cup WebTools, marks: Prompts,
   probe: BOOLEAN, thinking: {"absent"}]

RoutingInit ==
  /\ \/ settings \in ListSettings /\ statuses \in [Refs -> {"unknown", "healthy", "unhealthy"}]
     \/ /\ settings \in NameSettings \cup PromptSettings
        /\ statuses = [ref \in Refs |-> "unknown"]
  /\ picker = <<>> /\ request = NoRequest /\ answer = NoAnswer

RoutingRests ==
  /\ settings = CHOOSE s \in PromptSettings : s.web /\ s.shortcuts = AllShortcuts
  /\ statuses = [ref \in Refs |-> "unknown"]
  /\ picker = <<>> /\ request = NoRequest /\ answer = NoAnswer

ListModels ==
  /\ picker = <<>> /\ picker' = ModelList(settings)
  /\ UNCHANGED <<settings, statuses, request, answer>>

Ask ==
  /\ picker # <<>> /\ request = NoRequest
  /\ request' \in (UNION {TurnRequests(name) : name \in Range(picker) \cup Configured(settings)})
                   \cup (IF settings \in PromptSettings THEN PromptRequests ELSE {})
  /\ request'.api = "responses" => request'.forced = "none"
  /\ UNCHANGED <<settings, statuses, picker, answer>>

AnswerTo(s, r) ==
  CASE r.api = "messages" -> Messages(s, r)
    [] r.api = "responses" -> Responses(s, r)
    [] r.api = "count" -> Counted(s, r)

Answer ==
  /\ request # NoRequest /\ answer = NoAnswer
  /\ answer' = AnswerTo(settings, request)
  /\ UNCHANGED <<settings, statuses, picker, request>>

RoutingNext == ListModels \/ Ask \/ Answer

-----------------------------------------------------------------------------
(* Properties.                                                              *)

Advertised == {name \in Range(picker) : name \notin ClaudeNames}
RefOf(name) == IF name \in Advertised THEN Tail(name) ELSE name

\* The picker shows a name once, the models known to work before the others, and with
\* a mode only those it admits.
ListedInOrder ==
  LET shown == SelectSeq(picker, LAMBDA name : name \in Advertised)
      status(i) == statuses[RefOf(shown[i])]
  IN  /\ IsInjective(picker)
      /\ settings.mode # "untracked" =>
           \A i, j \in DOMAIN shown : i < j /\ status(j) = "healthy" => status(i) = "healthy"
      /\ \A ref \in Discovered : statuses[ref] = "healthy" /\ picker # <<>> =>
           NoThinkingId(ref) \in Advertised

\* A name of the picker leads to the very model whose health put it there, whatever that
\* model is called; a Claude name to a configured one. The variant without thinking
\* does not think, and nothing thinks that the request told not to.
NamesLead ==
  answer.ref # NoRef =>
    /\ request.name \in Advertised \cup Configured(settings) => answer.ref = RefOf(request.name)
    /\ request.name \in ClaudeNames \cup {<<"unknown">>} => answer.ref \in Configured(settings)
    /\ answer.thinking => /\ Head(request.name) # "claude-3-freecc-no-thinking"
                          /\ request.thinking \in {"absent", "enabled"}

\* A turn of an agent, with tools of its own and a history, is answered by a provider,
\* unless it quotes Claude Code's suggestion prompt; and so is everything on
\* /v1/responses. A chat provider is not sent server tools it cannot run, except those
\* listed beside another one that is forced.
PromptsLead ==
  answer.by # "none" /\ request.api # "count" =>
    /\ request.tools = "own" /\ request.messages = 2 /\ "suggestion" \notin request.marks =>
         answer.by = "provider" \/ (request.forced # "none" /\ ~ settings.web)
    /\ request.api = "responses" => answer.by \in {"provider", "error"}
    /\ /\ answer.by = "provider" /\ answer.ref[1] \in ChatProviders
       /\ request.api = "messages" /\ request.forced = "none"
       => request.tools \notin WebTools

=============================================================================
