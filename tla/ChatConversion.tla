--------------------------- MODULE ChatConversion ---------------------------
(***************************************************************************)
(* How an Anthropic Messages conversation becomes an OpenAI chat           *)
(* conversation (core/anthropic/conversion.py). OpenAI has no assistant    *)
(* text after tool calls: what Claude said after its calls is held back    *)
(* until their results have been replayed.                                 *)
(*                                                                         *)
(* A text is known by its place in the conversation; how texts are joined  *)
(* and serialised is left out. The providers use two replay modes.         *)
(***************************************************************************)
EXTENDS Integers, Sequences, FiniteSets, SequencesExt

NoId == 0

\* A content block; at: its place, id: of the tool call it makes or answers.
Block(kind, at, id) == [kind |-> kind, at |-> at, id |-> id]

ThinkingKinds == {"thinking", "signed", "redacted"}
ResultKinds == {"result", "image_result"}

\* plain: the content is a string; reasoning: the message's reasoning_content.
Message(role, content) == [role |-> role, content |-> content, plain |-> FALSE, reasoning |-> <<>>]
Plain(role, content, reasoning) ==
  [role |-> role, content |-> content, plain |-> TRUE, reasoning |-> reasoning]

OfKind(blocks, kinds) == SelectSeq(blocks, LAMBDA b : b.kind \in kinds)
Places(blocks, kinds) == [i \in 1 .. Len(OfKind(blocks, kinds)) |-> OfKind(blocks, kinds)[i].at]
CallIds(blocks) == [i \in 1 .. Len(OfKind(blocks, {"use"})) |-> OfKind(blocks, {"use"})[i].id]

\* A message of the chat request. answers: the id of a tool message.
Out(role, text) ==
  [role |-> role, text |-> text, calls |-> <<>>, answers |-> NoId, reasoning |-> <<>>]

\* _convert_assistant_message. Redacted thinking is dropped, and so are the thinking
\* blocks when the message has a reasoning_content.
AssistantMessage(blocks, reasoning, replay) ==
  [Out("assistant", Places(blocks, {"text"})) EXCEPT
     !.calls = CallIds(blocks),
     !.reasoning = IF ~ replay THEN <<>>
                   ELSE IF reasoning # <<>> THEN reasoning
                   ELSE Places(blocks, {"thinking", "signed"})]

FirstUse(blocks) == SelectInSeq(blocks, LAMBDA b : b.kind = "use")

\* _PendingAfterTools: left, the calls that have no result yet.
NoPending == [left |-> {}, said |-> <<>>]

\* _deferred_post_tool_blocks, to be replayed as one assistant message.
Deferred(blocks, reasoning, replay) ==
  LET after == OfKind(SubSeq(blocks, FirstUse(blocks) + 1, Len(blocks)),
                      ThinkingKinds \cup {"text"})
  IN  IF after = <<>> THEN NoPending
      ELSE [left |-> Range(CallIds(blocks)), said |-> <<AssistantMessage(after, reasoning, replay)>>]

\* _convert_assistant_message_with_split: the calls go with what was said before them.
SplitMessage(blocks, reasoning, replay) ==
  [AssistantMessage(SubSeq(blocks, 1, FirstUse(blocks) - 1), reasoning, replay) EXCEPT
     !.calls = CallIds(blocks)]

-----------------------------------------------------------------------------
(* User messages: the text between results is one message.                  *)

TextFlushed(texts) == IF texts = <<>> THEN <<>> ELSE <<Out("user", texts)>>

\* Slip: the deferred text is replayed after the first result.
UserBlockEager(pending, acc, b) ==
  IF b.kind \in ResultKinds
  THEN [out |-> acc.out \o TextFlushed(acc.texts)
                  \o <<[Out("tool", <<b.at>>) EXCEPT !.answers = b.id]>>
                  \o (IF acc.left = pending.left THEN pending.said ELSE <<>>),
        texts |-> <<>>, left |-> acc.left \ {b.id}]
  ELSE IF b.kind = "text" THEN [acc EXCEPT !.texts = Append(@, b.at)] ELSE acc

\* One block; with a pending message, its text follows as soon as, and each time that,
\* a result leaves no call without one.
UserBlock(pending, acc, b) ==
  LET left == acc.left \ {b.id}
  IN  CASE b.kind = "text" -> [acc EXCEPT !.texts = Append(@, b.at)]
        [] b.kind \in ResultKinds ->
             [out |-> acc.out \o TextFlushed(acc.texts)
                        \o <<[Out("tool", <<b.at>>) EXCEPT !.answers = b.id]>>
                        \o (IF left = {} THEN pending.said ELSE <<>>),
              texts |-> <<>>, left |-> left]
        [] OTHER -> acc

\* _convert_user_message and _convert_user_message_with_injection.
UserMessages(blocks, pending) ==
  LET done == FoldLeft(LAMBDA acc, b : UserBlock(pending, acc, b),
                       [out |-> <<>>, texts |-> <<>>, left |-> pending.left], blocks)
  IN  [out |-> done.out \o TextFlushed(done.texts), left |-> done.left]

-----------------------------------------------------------------------------
(* convert_messages: one message after the other.                           *)

FromAssistant(acc, m, replay) ==
  IF FirstUse(m.content) = 0
  THEN [out |-> acc.out \o acc.pending.said \o <<AssistantMessage(m.content, m.reasoning, replay)>>,
        pending |-> NoPending]
  ELSE [out |-> acc.out \o acc.pending.said \o <<SplitMessage(m.content, m.reasoning, replay)>>,
        pending |-> Deferred(m.content, m.reasoning, replay)]

\* A string; an assistant's leaves the pending text pending.
FromPlain(acc, m, replay) ==
  LET texts == Places(m.content, {"text"})
  IN  IF m.role = "user"
      THEN [out |-> acc.out \o acc.pending.said \o <<Out("user", texts)>>, pending |-> NoPending]
      ELSE [acc EXCEPT !.out = @ \o <<[Out("assistant", texts) EXCEPT
                                         !.reasoning = IF replay THEN m.reasoning ELSE <<>>]>>]

FromUser(acc, m) ==
  LET resolved == acc.pending.left = {}
      converted == UserMessages(m.content, IF resolved THEN NoPending ELSE acc.pending)
  IN  IF resolved
      THEN [out |-> acc.out \o acc.pending.said \o converted.out, pending |-> NoPending]
      ELSE [out |-> acc.out \o converted.out,
            pending |-> IF converted.left = {} THEN NoPending
                        ELSE [acc.pending EXCEPT !.left = converted.left]]

Converted(acc, m, replay) ==
  IF m.plain THEN FromPlain(acc, m, replay)
  ELSE IF m.role = "assistant" THEN FromAssistant(acc, m, replay) ELSE FromUser(acc, m)

\* Slip: what is still pending at the end is forgotten.
ChatMessagesUnflushed(messages, replay) ==
  FoldLeft(LAMBDA acc, m : Converted(acc, m, replay),
           [out |-> <<>>, pending |-> NoPending], messages).out

ChatMessages(messages, replay) ==
  LET done == FoldLeft(LAMBDA acc, m : Converted(acc, m, replay),
                       [out |-> <<>>, pending |-> NoPending], messages)
  IN  done.out \o done.pending.said

\* OpenAIConversionError: images, and server tools of an assistant.
NotForChat(messages) ==
  \E i \in DOMAIN messages : \E j \in DOMAIN messages[i].content :
    LET kind == messages[i].content[j].kind
    IN  kind = "image" \/ (kind = "server" /\ messages[i].role = "assistant")

\* build_base_request_body, as far as the messages go.
ChatBody(messages, thinking) ==
  [ok |-> ~ NotForChat(messages), thinking |-> thinking, messages |-> ChatMessages(messages, thinking)]
=============================================================================
