--------------------------- MODULE ResponsesInput ---------------------------
(***************************************************************************)
(* How the input items of an OpenAI Responses request become Anthropic     *)
(* messages (core/openai_responses/input.py). Codex sends its history back *)
(* with every request; a function call in it whose arguments are not JSON  *)
(* is left out together with its output.                                   *)
(***************************************************************************)
EXTENDS ChatConversion

\* sane: the arguments of a function call parse.
Item(type, at, id, sane) == [type |-> type, at |-> at, id |-> id, sane |-> sane]

\* _append_pending_reasoning: reasoning that no assistant item took is a message of its own.
ReasoningFlushed(reasoning) ==
  IF reasoning = <<>> THEN <<>> ELSE <<Plain("assistant", <<>>, reasoning)>>

Start == [messages |-> <<>>, system |-> <<>>, reasoning |-> <<>>, quarantined |-> {}]

Said(acc, messages) ==
  [acc EXCEPT !.messages = @ \o ReasoningFlushed(acc.reasoning) \o messages, !.reasoning = <<>>]

SaidByAssistant(acc, message) ==
  [acc EXCEPT !.messages = Append(@, [message EXCEPT !.reasoning = acc.reasoning]),
              !.reasoning = <<>>]

\* Slip: the output of a call that was left out stays.
AppendOutputAlways(acc, item) ==
  Said(acc, <<Message("user", <<Block("result", item.at, item.id)>>)>>)

\* function_call_output; a custom call's output is never left out.
AppendOutput(acc, item) ==
  IF item.type = "function_call_output" /\ item.id \in acc.quarantined THEN acc
  ELSE Said(acc, <<Message("user", <<Block("result", item.at, item.id)>>)>>)

\* function_call and custom_tool_call.
AppendCall(acc, item) ==
  IF item.type = "function_call" /\ ~ item.sane
  THEN [acc EXCEPT !.quarantined = @ \cup {item.id}]
  ELSE SaidByAssistant(acc, Message("assistant", <<Block("use", item.at, item.id)>>))

\* _append_input_item.
AppendItem(acc, item) ==
  LET text == <<Block("text", item.at, NoId)>>
  IN  CASE item.type = "user" -> Said(acc, <<Plain("user", text, <<>>)>>)
        [] item.type = "developer" -> [Said(acc, <<>>) EXCEPT !.system = Append(@, item.at)]
        [] item.type = "assistant" -> SaidByAssistant(acc, Plain("assistant", text, <<>>))
        [] item.type = "reasoning" -> [acc EXCEPT !.reasoning = Append(@, item.at)]
        [] item.type \in {"function_call", "custom_tool_call"} -> AppendCall(acc, item)
        [] OTHER -> AppendOutput(acc, item)

\* convert_request_to_anthropic_payload; no message at all is an error.
FromItems(items) ==
  LET done == FoldLeft(AppendItem, Start, items)
  IN  Said(done, <<>>)
=============================================================================
