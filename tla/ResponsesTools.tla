--------------------------- MODULE ResponsesTools ---------------------------
(***************************************************************************)
(* The tools of an OpenAI Responses request                                *)
(* (core/openai_responses/tools.py). The model behind the gateway knows a  *)
(* tool by one flat name; Codex knows it by its kind, its namespace and    *)
(* its name, and gets a call of it back under those. The calls of earlier  *)
(* turns are renamed on the way in (input.py).                             *)
(*                                                                         *)
(* A name is the sequence of its parts between double underscores. The     *)
(* digest that shortens names over 64 characters is taken to be unique and *)
(* left out.                                                               *)
(***************************************************************************)
EXTENDS Integers, Sequences, FiniteSets, SequencesExt

CONSTANTS
  ToolNames,      \* names of tools
  Namespaces,     \* names of namespaces
  Cleaned,        \* part with characters that a tool's name cannot have -> part
  MaxTools        \* tools of a request

TopLevel == <<>>
ToolKinds == {"function", "custom", "web_search"}
Passive == {"web_search"}

ASSUME ToolsAssumption ==
  /\ MaxTools \in Nat /\ TopLevel \notin ToolNames \cup Namespaces
  /\ \A name \in ToolNames \cup Namespaces : name \in Seq(STRING)

VARIABLES
  tools,          \* of the request
  choice,         \* its tool_choice, as converted
  chosen,         \* the tool it was meant for
  called,         \* the flat name the model calls
  reported        \* the tool Codex is told of

tools_vars == <<tools, choice, chosen, called, reported>>

Tool(kind, namespace, name) == [kind |-> kind, namespace |-> namespace, name |-> name]
NoTool == Tool("none", TopLevel, <<>>)

\* _tool_name_part.
NamePart(name) == [i \in DOMAIN name |-> IF name[i] \in DOMAIN Cleaned THEN Cleaned[name[i]] ELSE name[i]]

\* Slip: the namespace is left out of the name.
FlatNameBare(namespace, name) == IF namespace = TopLevel THEN name ELSE NamePart(name)

\* responses_tool_name_to_anthropic_name; a name outside a namespace stays as it is.
FlatName(namespace, name) ==
  IF namespace = TopLevel THEN name ELSE NamePart(namespace) \o NamePart(name)

FlatOf(tool) == FlatName(tool.namespace, tool.name)

\* convert_tools: the places of the tools the model is told of.
ConvertTools == {i \in DOMAIN tools : tools[i].kind \notin Passive}

\* convert_tool_choice, for one tool.
ConvertToolChoice(tool) == FlatOf(tool)

\* responses_tool_identity_from_anthropic_name: the first with that name, or a function.
Identity(flat) ==
  LET same == {i \in ConvertTools : FlatOf(tools[i]) = flat}
  IN  IF same = {} THEN Tool("function", TopLevel, flat) ELSE tools[Min(same)]

ToolsInit ==
  tools = <<>> /\ choice = <<>> /\ chosen = NoTool /\ called = <<>> /\ reported = NoTool

Offer(tool) ==
  /\ chosen = NoTool /\ called = <<>> /\ Len(tools) < MaxTools /\ tool \notin Range(tools)
  /\ tool.kind \in Passive => tool.namespace = TopLevel
  /\ tools' = Append(tools, tool)
  /\ UNCHANGED <<choice, chosen, called, reported>>

Choose(tool) ==
  /\ chosen = NoTool /\ called = <<>>
  /\ chosen' = tool /\ choice' = ConvertToolChoice(tool)
  /\ UNCHANGED <<tools, called, reported>>

\* A model that has to call a tool calls that one; others may invent a name.
Call(flat) ==
  /\ called = <<>> /\ tools # <<>> /\ (choice # <<>> => flat = choice)
  /\ called' = flat /\ reported' = Identity(flat)
  /\ UNCHANGED <<tools, choice, chosen>>

ToolsNext ==
  \/ \E kind \in ToolKinds, namespace \in Namespaces \cup {TopLevel}, name \in ToolNames :
       Offer(Tool(kind, namespace, name))
  \/ \E i \in ConvertTools : Choose(tools[i])
  \/ \E flat \in {FlatOf(tools[i]) : i \in ConvertTools} \cup ToolNames : Call(flat)

\* Names of one part, without characters to clean, that differ in the name or the namespace.
PlainlyDistinct ==
  /\ \A i \in ConvertTools :
       /\ Len(tools[i].name) = 1 /\ Len(tools[i].namespace) <= 1
       /\ (Range(tools[i].namespace) \cup Range(tools[i].name)) \cap DOMAIN Cleaned = {}
  /\ \A i, j \in ConvertTools :
       i # j => tools[i].namespace # tools[j].namespace \/ tools[i].name # tools[j].name

FlatlyDistinct == \A i, j \in ConvertTools : i # j => FlatOf(tools[i]) # FlatOf(tools[j])

\* What Codex is told that the model calls goes by the same flat name when Codex sends
\* the call back with its history. A tool that is called is reported as itself, and the one
\* that was forced is the one called, when no two tools share a flat name; and tools that
\* are plainly distinct do not.
ToolsAgree ==
  reported # NoTool =>
    /\ FlatOf(reported) = called
    /\ FlatlyDistinct \/ PlainlyDistinct =>
         /\ \A i \in ConvertTools : FlatOf(tools[i]) = called => reported = tools[i]
         /\ chosen # NoTool => reported = chosen
=============================================================================
