------------------------------- MODULE Streams -------------------------------
(***************************************************************************)
(* One streamed answer from the provider to the client: the transport the  *)
(* provider uses, a chat-completions or a native one, and both public APIs *)
(* fed by it - /v1/messages, which passes the events on, and /v1/responses,*)
(* which assembles a response from them (api/handlers, api/runtime.py).    *)
(***************************************************************************)
EXTENDS OpenAIChatStream, NativeStream, ResponsesStream

VARIABLES
  transport,   \* which transport the provider uses: fixed for a request
  assembler,   \* the ResponsesStreamAssembler
  reader       \* what a client of /v1/responses was told

streams_vars == <<transport, chat_vars, native_vars, assembler, reader>>

Init ==
  /\ transport \in {"chat", "native"}
  /\ ChatInit
  /\ NativeInit
  /\ transport = "chat" => native_thinking  \* of no use there: one value is enough
  /\ assembler = NewAssembler
  /\ reader = FreshReader

\* iter_responses_sse_from_anthropic: each event the transport yields is
\* assembled when it is taken.
Translate(wire) ==
  IF wire = <<>> THEN UNCHANGED <<assembler, reader>>
  ELSE LET w == Assemble(assembler, Head(wire))
       IN  /\ assembler' = w.a
           /\ reader' = ReadAll(reader, w.said)

Chat ==
  /\ transport = "chat"
  /\ ChatNext
  /\ Translate(chat_buffer.wire)
  /\ UNCHANGED <<transport, native_vars>>

Native ==
  /\ transport = "native"
  /\ NativeNext
  /\ Translate(native_buffer.wire)
  /\ UNCHANGED <<transport, chat_vars>>

Next == Chat \/ Native

Done == IF transport = "chat" THEN ChatDone ELSE NativeDone

\* Weak fairness of Next, which is enabled until Done (see ChatFairness).
Spec == Init /\ [][Next]_streams_vars /\ ([]<>Done \/ []<><<Next>>_streams_vars)

-----------------------------------------------------------------------------
(* Properties.                                                              *)

TypeOK == transport \in {"chat", "native"} /\ ChatTypeOK /\ NativeTypeOK

\* Over either transport, no retry, continuation or block policy repeats text of the
\* answer, leaves some out or swaps it, and no retry is made beyond their number
\* (recovery.py, native_sse_block_policy.py).
TextInOrder == TypeOK /\ ChatTextInOrder /\ NativeTextInOrder

\* Over either transport the client of /v1/messages ends up with a whole answer,
\* calls with whole arguments after a repair, or is told that the answer failed.
AnswerOrFailure ==
  /\ ChatAnswerWhole /\ ChatRepairsWhole /\ NativeAnswerWhole
  /\ ChatFailureIsTold /\ NativeFailureIsTold

\* Each transport implements the abstract stream of StreamContract, whatever fails,
\* is retried, continued or repaired (stream_contracts.py).
KeepsContract == ChatKeepsContract /\ NativeKeepsContract

\* What the client of /v1/messages was sent.
Messages == IF transport = "chat" THEN chat_client ELSE native_client

\* A client of /v1/responses is sent a well-formed response whatever happens to the
\* stream behind it: created first, items added in order, grown only while open,
\* completed once with exactly what their deltas said, and one final event
\* (stream_state.py process_anthropic_event).
ResponseWellFormed ==
  /\ ~ reader.strange
  /\ reader.status = "completed" =>
       /\ \A k \in DOMAIN reader.items : reader.items[k].done
       /\ reader.output = reader.items

\* "refusing to emit replay-unsafe Responses output" (stream_state.py:544): a
\* response that completed, after whatever cut or repair, has no function call whose
\* arguments are not a whole JSON object.
ReplaySafe ==
  reader.status = "completed" =>
    \A k \in DOMAIN reader.output :
      reader.output[k].kind = "function_call" =>
        reader.output[k].data \in {<<>>, Whole, EmptyObject}

\* Both APIs tell the same answer: the same text, and failure when there was one.
SameAnswer ==
  Done =>
    LET texts == {k \in DOMAIN reader.items : reader.items[k].kind = "message"}
    IN  /\ reader.status \in {"completed", "failed"}
        /\ Messages.error => reader.status = "failed"
        /\ reader.status = "completed" =>
             UNION {Range(reader.items[k].data) : k \in texts} = Range(Messages.text)

\* Both public APIs: what /v1/responses says is well formed, safe to replay and the
\* answer /v1/messages says (stream_state.py).
ResponseFaithful == ResponseWellFormed /\ ReplaySafe /\ SameAnswer

\* Every stream ends, for both APIs, whatever the upstream does.
EveryStreamEnds ==
  <>(Messages.phase = "stopped" /\ reader.status \in {"completed", "failed"})
=============================================================================
