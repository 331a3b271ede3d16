----------------------------- MODULE NativeBody -----------------------------
(***************************************************************************)
(* The bodies sent to providers that speak the Anthropic protocol:         *)
(* core/anthropic/native_messages_request.py for most of them and for      *)
(* OpenRouter, providers/deepseek/compat.py for DeepSeek.                  *)
(***************************************************************************)
EXTENDS ChatConversion

ForMessages(Op(_), messages) == [i \in DOMAIN messages |-> Op(messages[i])]

\* sanitize_..._thinking_policy; content that becomes empty turns into "".
Without(kinds, m) ==
  IF m.role # "assistant" \/ m.plain THEN m
  ELSE LET kept == SelectSeq(m.content, LAMBDA b : b.kind \notin kinds)
       IN  [m EXCEPT !.content = kept, !.plain = kept = <<>>]

\* Slip: redacted thinking stays when thinking is disabled.
HiddenSigned(thinking) == {"thinking"} \cup (IF thinking THEN {} ELSE {"signed"})

\* Unsigned thinking cannot be replayed; nothing of it is when thinking is disabled.
Hidden(thinking) == {"thinking"} \cup (IF thinking THEN {} ELSE {"signed", "redacted"})

\* build_base_native_anthropic_request_body, build_openrouter_native_request_body.
NativeMessages(messages, thinking) ==
  ForMessages(LAMBDA m : Without(Hidden(thinking), m), messages)

Native(messages, thinking) ==
  [ok |-> TRUE, thinking |-> thinking, messages |-> NativeMessages(messages, thinking)]

-----------------------------------------------------------------------------
(* DeepSeek.                                                                *)

\* _strip_unsupported_attachment_blocks, at the top of a message and in its results.
WithoutAttachments(m) ==
  LET kept == SelectSeq(m.content, LAMBDA b : b.kind # "image")
      omitted == Block("text", <<"attachment omitted">>, NoId)
  IN  IF m.plain THEN m
      ELSE [m EXCEPT !.content =
              IF kept = <<>> /\ m.content # <<>> THEN <<omitted>>
              ELSE [j \in DOMAIN kept |-> IF kept[j].kind = "image_result"
                                          THEN [kept[j] EXCEPT !.kind = "result"] ELSE kept[j]]]

\* _walk_block_list_for_unsupported, once the attachments are gone.
Unsupported(messages) ==
  \E i \in DOMAIN messages : \E j \in DOMAIN messages[i].content :
    messages[i].content[j].kind \in {"image", "server"}

HasToolHistory(messages) ==
  \E i \in DOMAIN messages : \E j \in DOMAIN messages[i].content :
    LET kind == messages[i].content[j].kind
    IN  \/ kind = "use" /\ messages[i].role = "assistant"
        \/ kind = "result" /\ messages[i].role = "user"

\* _has_replayable_thinking_before_tool_use, of some message.
HasReplayableToolThinking(messages) ==
  \E i \in DOMAIN messages :
    LET content == messages[i].content
        first == FirstUse(content)
    IN  /\ messages[i].role = "assistant" /\ first # 0
        /\ \E j \in 1 .. first - 1 : content[j].kind \in {"thinking", "signed"}

\* Slip: a follow-up to a tool call keeps thinking enabled.
DeepSeekThinksAlways(messages, thinking) == thinking

DeepSeekThinks(messages, thinking) ==
  thinking /\ (HasToolHistory(messages) => HasReplayableToolThinking(messages))

\* sanitize_deepseek_messages_for_native: unsigned thinking stays, opaque thinking does not.
DeepSeekHidden(thinks) == {"redacted"} \cup (IF thinks THEN {} ELSE {"thinking", "signed"})

\* build_deepseek_request_body.
DeepSeek(messages, thinking) ==
  LET seen == ForMessages(WithoutAttachments, messages)
      thinks == DeepSeekThinks(seen, thinking)
  IN  [ok |-> ~ Unsupported(seen), thinking |-> thinks,
       messages |-> ForMessages(LAMBDA m : [Without(DeepSeekHidden(thinks), m) EXCEPT
                                              !.reasoning = <<>>], seen)]
=============================================================================
