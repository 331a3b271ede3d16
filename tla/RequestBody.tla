----------------------------- MODULE RequestBody -----------------------------
(***************************************************************************)
(* One request on its way to a provider: a client composes its history, as *)
(* Anthropic messages (Claude Code) or as Responses items (Codex), the     *)
(* gateway turns items into messages (api/handlers/responses.py) and the   *)
(* provider's adapter builds the body it sends                             *)
(* (providers/transports/*/request_policy.py).                             *)
(***************************************************************************)
EXTENDS NativeBody, ResponsesInput

CONSTANTS
  MaxBlocks,     \* blocks of a history of messages
  MaxMessages,   \* its messages
  MaxOdd,        \* its images and thinking blocks that are signed or redacted
  MaxItems       \* items of a history of items

ASSUME RequestBodyAssumption == {MaxBlocks, MaxMessages, MaxOdd, MaxItems} \subseteq Nat

VARIABLES
  items,         \* the input of a Responses request
  history,       \* the messages
  body           \* what is sent: NoBody, a body, or a rejection

body_vars == <<items, history, body>>

NoBody == [ok |-> FALSE, thinking |-> FALSE, messages |-> <<>>, provider |-> "none"]

BlockKinds(role) ==
  IF role = "assistant" THEN {"text", "thinking", "signed", "redacted", "use"}
  ELSE {"text", "image", "result", "image_result"}

OddKinds == {"signed", "redacted", "image", "image_result"}

OddBlocks(messages) == FoldLeft(LAMBDA n, m : n + Len(OfKind(m.content, OddKinds)), 0, messages)
Size(messages) == FoldLeft(LAMBDA n, m : n + Len(m.content), 0, messages)

\* The calls of a history, in the order they were made.
Calls(messages) ==
  FoldLeft(LAMBDA ids, m : ids \o IF m.role = "assistant" THEN CallIds(m.content) ELSE <<>>,
           <<>>, messages)

BodyInit == items = <<>> /\ history = <<>> /\ body = NoBody

-----------------------------------------------------------------------------
(* The client.                                                              *)

\* A call gets a new id, a result answers a call made before.
IdsFor(kind) ==
  CASE kind = "use" -> {Len(Calls(history)) + 1}
    [] kind \in ResultKinds -> Range(Calls(history))
    [] OTHER -> {NoId}

SaysBlock(role, newMessage) ==
  /\ body = NoBody /\ items = <<>> /\ Size(history) < MaxBlocks
  /\ IF newMessage THEN Len(history) < MaxMessages
     ELSE history # <<>> /\ Last(history).role = role
  /\ \E kind \in BlockKinds(role) : \E id \in IdsFor(kind) :
       /\ kind \in OddKinds => OddBlocks(history) < MaxOdd
       /\ LET n == Len(history) + (IF newMessage THEN 1 ELSE 0)
              at == <<n, IF newMessage THEN 1 ELSE Len(Last(history).content) + 1>>
              block == Block(kind, at, id)
          IN  history' = IF newMessage THEN Append(history, Message(role, <<block>>))
                         ELSE [history EXCEPT ![n].content = Append(@, block)]
  /\ UNCHANGED <<items, body>>

ItemTypes == {"user", "developer", "assistant", "reasoning", "function_call", "custom_tool_call",
              "function_call_output", "custom_tool_call_output"}

CallOf(type) == IF type = "function_call_output" THEN "function_call" ELSE "custom_tool_call"

SaysItem(type) ==
  LET made == {i \in DOMAIN items : items[i].type = CallOf(type)}
      ids == IF type \in {"function_call", "custom_tool_call"} THEN {Len(items) + 1}
             ELSE IF type \in {"function_call_output", "custom_tool_call_output"} THEN made
             ELSE {NoId}
  IN  /\ body = NoBody /\ history = <<>> /\ Len(items) < MaxItems
      /\ \E id \in ids : \E sane \in IF type = "function_call" THEN BOOLEAN ELSE {TRUE} :
           items' = Append(items, Item(type, <<Len(items) + 1, 1>>, id, sane))
      /\ UNCHANGED <<history, body>>

-----------------------------------------------------------------------------
(* The gateway.                                                             *)

\* ResponsesHandler.create; the history stays empty when nothing but left-out calls
\* and developer messages came.
Receive ==
  /\ body = NoBody /\ items # <<>> /\ history = <<>> /\ FromItems(items).messages # <<>>
  /\ history' = FromItems(items).messages
  /\ UNCHANGED <<items, body>>

Bodies(thinking) ==
  [chat |-> ChatBody(history, thinking), native |-> Native(history, thinking),
   deepseek |-> DeepSeek(history, thinking)]

\* A body that is not ok is not sent: the client gets an error.
Build(provider, thinking) ==
  /\ body = NoBody /\ history # <<>>
  /\ body' = [ok |-> Bodies(thinking)[provider].ok,
              thinking |-> Bodies(thinking)[provider].thinking,
              messages |-> Bodies(thinking)[provider].messages, provider |-> provider]
  /\ UNCHANGED <<items, history>>

BodyNext ==
  \/ \E role \in {"user", "assistant"}, newMessage \in BOOLEAN : SaysBlock(role, newMessage)
  \/ \E type \in ItemTypes : SaysItem(type)
  \/ Receive
  \/ \E provider \in {"chat", "native", "deepseek"}, thinking \in BOOLEAN :
       Build(provider, thinking)

-----------------------------------------------------------------------------
(* Properties.                                                              *)

Sent(provider) == body.ok /\ body.provider = provider

AllPlaces(messages, kinds) ==
  FoldLeft(LAMBDA s, m : s \o Places(m.content, kinds), <<>>, messages)
Flat(f(_), messages) == FoldLeft(LAMBDA s, m : s \o f(m), <<>>, messages)

\* A history as Claude Code keeps it: the calls of an assistant's message are answered,
\* once each, at the beginning of the message that follows.
Answered(messages) ==
  \A i \in DOMAIN messages :
    LET calls == Range(CallIds(messages[i].content))
        n == Cardinality(calls)
    IN  IF messages[i].role = "assistant"
        THEN calls # {} => /\ i < Len(messages) /\ messages[i + 1].role = "user"
                           /\ Len(messages[i + 1].content) >= n
        ELSE LET asked == IF i = 1 THEN {} ELSE Range(CallIds(messages[i - 1].content))
                 k == Cardinality(asked)
                 content == messages[i].content
             IN  /\ {j \in DOMAIN content : content[j].kind \in ResultKinds} = 1 .. k
                 /\ k <= Len(content)
                 /\ {content[j].id : j \in 1 .. k} = asked

\* Every text and every result of the history is in the chat request exactly once,
\* and every call is directly followed by the answers to it and its message's other
\* calls: text that came after the calls waits for the answers, and is not forgotten.
ChatKept ==
  Sent("chat") =>
    /\ LET texts == Flat(LAMBDA m : m.text, body.messages)
       IN  /\ Range(AllPlaces(history, {"text"} \cup ResultKinds)) \subseteq Range(texts)
           /\ Answered(history) => IsInjective(texts)
    /\ Answered(history) =>
         \A i \in DOMAIN body.messages :
           LET calls == body.messages[i].calls
               n == Len(calls)
           IN  calls # <<>> =>
                 /\ i + n <= Len(body.messages)
                 /\ {body.messages[i + j].answers : j \in 1 .. n} = Range(calls)

\* A native body has the messages of the history, and in each the same texts, calls
\* and results in the same order.
NativeKept ==
  (Sent("native") \/ Sent("deepseek")) =>
    /\ Len(body.messages) = Len(history)
    /\ \A i \in DOMAIN history :
         LET kinds == {"text", "use", "result", "image_result"}
             then == Places(history[i].content, kinds)
             now == Places(body.messages[i].content, kinds)
         IN  /\ body.messages[i].role = history[i].role
             /\ now = then \/ (then = <<>> /\ Len(now) = 1)

\* A function call that is left out takes its output along, everything else of the
\* input is there, once: the messages answer only calls they make, and no reasoning is
\* lost on the way to the next assistant message.
ItemsKept ==
  items # <<>> /\ history # <<>> =>
    LET wanted == {i \in DOMAIN items :
                     /\ items[i].type # "developer"
                     /\ ~ \E j \in DOMAIN items :
                            /\ ~ items[j].sane
                            /\ items[i].id = items[j].id}
        told == AllPlaces(history, {"text", "use", "result"})
                  \o Flat(LAMBDA m : m.reasoning, history)
    IN  /\ Range(told) = {items[i].at : i \in wanted}
        /\ IsInjective(told)
        /\ \A i \in DOMAIN history : history[i].role = "user" =>
             \A b \in Range(history[i].content) :
               b.kind = "result" => \E j \in 1 .. i - 1 : b.id \in Range(CallIds(history[j].content))

ConversationKept == ChatKept /\ NativeKept /\ ItemsKept

\* native_messages_request.py:118-119: "remove thinking and redacted_thinking history so
\* disabled policy is not undermined by prior turns": no body shows thinking that is
\* disabled; and DeepSeek is not asked to think when a call it is told of has no thinking
\* before it.
ThinkingKept ==
  body.ok =>
    /\ ~ body.thinking =>
         IF body.provider = "chat" THEN Flat(LAMBDA m : m.reasoning, body.messages) = <<>>
         ELSE AllPlaces(body.messages, ThinkingKinds) = <<>>
    /\ body.provider = "deepseek" /\ body.thinking /\ Len(Calls(history)) = 1 =>
         \E i \in DOMAIN body.messages :
           /\ CallIds(body.messages[i].content) # <<>>
           /\ \E j \in 1 .. FirstUse(body.messages[i].content) :
                body.messages[i].content[j].kind \in {"thinking", "signed"}

\* What a provider is sent is the client's conversation, and no more thinking than it may have.
BodySound == ConversationKept /\ ThinkingKept
=============================================================================
