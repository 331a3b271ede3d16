---------------------------- MODULE NativeStream ----------------------------
(***************************************************************************)
(* AnthropicMessagesStreamAdapter.run: a native Anthropic stream, passed   *)
(* through the block policy and recorded in a ledger, with the holdback    *)
(* buffer, the invisible retry, the continuation after a cut and the error *)
(* tail (providers/transports/anthropic_messages).                         *)
(*                                                                         *)
(* The upstream opens its blocks in order but may overlap them, repeat a   *)
(* block's end, and leave out the start of a text or tool block.           *)
(***************************************************************************)
EXTENDS NativeBlockPolicy, StreamRecovery

CONSTANTS
  NativeBlocks,    \* content blocks the upstream may begin in one attempt
  NativeChunks,    \* block events one attempt may carry
  NativeOddities   \* what else the upstream may do:
    \* "split_tools" a tool block overlaps another block before it is whole
    \* "bad_tools"   a tool block ends before its arguments are complete
    \* "late_cut"    the connection breaks after message_stop
    \* "empty"       an answer without a block, or with unwanted thinking only

ASSUME NativeAssumption ==
  /\ NativeBlocks \in Nat /\ NativeChunks \in Nat
  /\ NativeOddities \subseteq {"split_tools", "bad_tools", "late_cut", "empty"}

VARIABLES
  native_phase,     \* what the adapter is doing
  native_thinking,  \* thinking_enabled, fixed for a request
  native_ledger, native_buffer, native_retries,
  native_policy,    \* the NativeSseBlockPolicyState
  native_upstream,  \* what the provider has sent in this attempt
  native_client

native_vars == <<native_phase, native_thinking, native_ledger, native_buffer,
                 native_retries, native_policy, native_upstream, native_client>>

NativePhase == {"opening", "streaming", "recovering", "answered", "continued", "failed"}
NativeOver == {"answered", "continued", "failed"}

FreshNativeUpstream ==
  [stage |-> "new", blocks |-> <<>>, events |-> 0, text |-> 0, thinking |-> 0]

NativeTypeOK ==
  /\ native_phase \in NativePhase
  /\ native_buffer \in Buffer
  /\ native_retries \in 0 .. EarlyRetries
  /\ \A u \in DOMAIN native_policy.by_upstream :
       native_policy.by_upstream[u].down \in 0 .. native_policy.next - 1
  /\ native_upstream.stage \in {"new", "open", "reason", "stopped", "broken"}
  /\ native_client.phase \in {"new", "open", "stopped"}

NativeInit ==
  /\ native_phase = "opening"
  /\ native_thinking \in BOOLEAN
  /\ native_ledger = NewLedger
  /\ native_buffer = FreshBuffer
  /\ native_retries = 0
  /\ native_policy = FreshPolicy
  /\ native_upstream = FreshNativeUpstream
  /\ native_client = FreshClient

NativeReady(p) == native_buffer.wire = <<>> /\ native_phase = p

\* The client takes the next event.
NativeDeliver ==
  /\ native_buffer.wire # <<>>
  /\ native_client' = Read(native_client, Head(native_buffer.wire))
  /\ native_buffer' = [native_buffer EXCEPT !.wire = Tail(@)]
  /\ UNCHANGED <<native_phase, native_thinking, native_ledger, native_retries,
                 native_policy, native_upstream>>

NativeOpens ==
  /\ NativeReady("opening")
  /\ native_phase' = "streaming"
  /\ UNCHANGED <<native_thinking, native_ledger, native_buffer, native_retries,
                 native_policy, native_upstream, native_client>>

-----------------------------------------------------------------------------
(* Events of the upstream.                                                  *)

\* An event goes through the policy, the ledger and the holdback buffer.
Pass(e, upstream) ==
  LET t == Transform(native_policy, e, native_thinking)
      w == IngestAll(Work(native_ledger), t.out)
  IN  /\ NativeReady("streaming")
      /\ upstream.events <= NativeChunks
      /\ native_policy' = t.policy
      /\ native_ledger' = w.l
      /\ native_buffer' \in Push(native_buffer, w.out)
      /\ native_upstream' = upstream
      /\ UNCHANGED <<native_phase, native_thinking, native_retries, native_client>>

Stage(s) == native_upstream.stage = s

\* How an open block of the upstream grows: its next fragment.
Grown(upstream, u) ==
  LET type == upstream.blocks[u].type
  IN  CASE type = "text" -> [upstream EXCEPT !.text = @ + 1]
        [] type = "thinking" -> [upstream EXCEPT !.thinking = @ + 1]
        [] OTHER -> [upstream EXCEPT !.blocks[u].sent = @ + 1]
Fragment(upstream, u) ==
  LET type == upstream.blocks[u].type
  IN  CASE type = "text" -> upstream.text
        [] type = "thinking" -> upstream.thinking
        [] OTHER -> upstream.blocks[u].sent

WholeTool(b) == b.type # "tool_use" \/ b.sent = Len(Whole)
MayOverlap ==
  \/ "split_tools" \in NativeOddities
  \/ \A u \in DOMAIN native_upstream.blocks :
       native_upstream.blocks[u].open => WholeTool(native_upstream.blocks[u])
Begun(type) ==
  [native_upstream EXCEPT !.blocks = Append(@, [type |-> type, open |-> TRUE, sent |-> 0]),
                          !.events = @ + 1]

NativeMessageStart ==
  /\ Stage("new")
  /\ Pass(Ev("message_start", NoIndex, "", <<>>), [native_upstream EXCEPT !.stage = "open"])

NativeBlockStart(type) ==
  /\ Stage("open") /\ Len(native_upstream.blocks) < NativeBlocks /\ MayOverlap
  /\ Pass(Ev("content_block_start", Len(native_upstream.blocks) + 1, type, <<>>), Begun(type))

NativeDelta(upstream, u) ==
  LET grown == [Grown(upstream, u) EXCEPT !.events = native_upstream.events + 1]
  IN  Pass(Ev("content_block_delta", u, upstream.blocks[u].type, <<Fragment(grown, u)>>), grown)

NativeBlockDelta(u) ==
  /\ Stage("open") /\ u <= Len(native_upstream.blocks)
  /\ LET b == native_upstream.blocks[u]
     IN  /\ b.open /\ b.type # "redacted_thinking"
         /\ b.type = "tool_use" => b.sent < Len(Whole)
  /\ NativeDelta(native_upstream, u)

\* A delta without its block's start.
NativeUnstarted(type) ==
  /\ Stage("open") /\ Len(native_upstream.blocks) < NativeBlocks /\ MayOverlap
  /\ NativeDelta(Begun(type), Len(native_upstream.blocks) + 1)

\* The end of a block, perhaps not for the first time.
NativeBlockStop(u) ==
  /\ Stage("open") /\ u <= Len(native_upstream.blocks)
  /\ WholeTool(native_upstream.blocks[u]) \/ "bad_tools" \in NativeOddities
  /\ Pass(Ev("content_block_stop", u, "", <<>>),
          [native_upstream EXCEPT !.blocks[u].open = FALSE, !.events = @ + 1])

Reason == IF \E u \in DOMAIN native_upstream.blocks :
                native_upstream.blocks[u].type = "tool_use" THEN "tool_use" ELSE "end_turn"

NativeMessageDelta ==
  /\ Stage("open")
  /\ \A u \in DOMAIN native_upstream.blocks : ~ native_upstream.blocks[u].open
  /\ HasContentBlock(native_ledger) \/ "empty" \in NativeOddities
  /\ Pass(Ev("message_delta", NoIndex, Reason, <<>>),
          [native_upstream EXCEPT !.stage = "reason"])

NativeMessageStop ==
  /\ Stage("reason")
  /\ Pass(Ev("message_stop", NoIndex, "", <<>>), [native_upstream EXCEPT !.stage = "stopped"])

\* The upstream says that it failed, and sends nothing more.
NativeErrorEvent ==
  /\ Stage("open")
  /\ Pass(Ev("error", NoIndex, "", <<>>), [native_upstream EXCEPT !.stage = "broken"])

-----------------------------------------------------------------------------
(* The end of an attempt.                                                   *)

\* The stream ended after message_stop.
NativeAnswered ==
  /\ NativeReady("streaming") /\ native_ledger.stopped
  /\ native_buffer' = FlushThen(native_buffer, <<>>)
  /\ native_phase' = "answered"
  /\ UNCHANGED <<native_thinking, native_ledger, native_retries, native_policy,
                 native_upstream, native_client>>

\* The error ends the message that was begun, or is a message of its own.
NativeGivesUp ==
  LET begun == native_buffer.committed \/ native_buffer.held # <<>>
      w == MidstreamErrorTail(Work(native_ledger))
  IN  /\ native_buffer' = IF begun THEN FlushThen(native_buffer, w.out)
                          ELSE [native_buffer EXCEPT !.wire = ErrorSequence(FALSE)]
      /\ native_ledger' = IF begun THEN w.l ELSE native_ledger
      /\ native_phase' = "failed"
      /\ UNCHANGED <<native_thinking, native_retries, native_policy, native_upstream,
                     native_client>>

NativeFails(retryable, opened) ==
  LET again == EarlyRetry(native_buffer, native_retries, retryable, opened,
                          Salvageable(native_ledger))
  IN  CASE again ->
             /\ native_retries' = native_retries + 1
             /\ native_buffer' = Discarded(native_buffer)
             /\ native_ledger' = NewLedger
             /\ native_policy' = FreshPolicy
             /\ native_upstream' = FreshNativeUpstream
             /\ native_phase' = "opening"
             /\ UNCHANGED <<native_thinking, native_client>>
        [] ~ again /\ retryable /\ HasContentBlock(native_ledger) ->
             /\ native_phase' = "recovering"
             /\ UNCHANGED <<native_thinking, native_ledger, native_buffer, native_retries,
                            native_policy, native_upstream, native_client>>
        [] OTHER -> NativeGivesUp

NativeOpenFails ==
  NativeReady("opening") /\ \E retryable \in BOOLEAN : NativeFails(retryable, FALSE)

\* The connection breaks, or the stream ends without message_stop (retryable).
NativeBreaks ==
  /\ NativeReady("streaming")
  /\ Stage("stopped") => HasToolBlock(native_ledger) \/ "late_cut" \in NativeOddities
  /\ \E retryable \in BOOLEAN :
       /\ ~ retryable /\ Stage("stopped") => "late_cut" \in NativeOddities
       /\ NativeFails(retryable, TRUE)

\* The watchdog: nothing came out of the adapter for the idle timeout.
NativeStalls ==
  /\ native_buffer.wire = <<>> /\ native_phase \notin NativeOver
  /\ CanStall(native_client)
  /\ native_buffer' = [native_buffer EXCEPT !.wire = StallEvents(native_client)]
  /\ native_phase' = "failed"
  /\ UNCHANGED <<native_thinking, native_ledger, native_retries, native_policy,
                 native_upstream, native_client>>

-----------------------------------------------------------------------------
(* AnthropicMessagesRecovery.events.                                        *)

NativeContinued(w) ==
  /\ native_ledger' = w.l
  /\ native_buffer' = FlushThen(native_buffer, w.out)
  /\ native_phase' = "continued"
  /\ UNCHANGED <<native_thinking, native_retries, native_policy, native_upstream,
                 native_client>>

NativeContinues(more, candidate, short) ==
  /\ NativeReady("recovering") /\ ~ HasToolBlock(native_ledger)
  /\ native_ledger.said # <<>> \/ native_ledger.thought # <<>>
  /\ CanAppend(native_ledger)
  /\ more => native_thinking
  /\ LET text == ContinuationSuffix(native_ledger.said, candidate, short)
         thought == IF more THEN <<Len(native_ledger.thought) + 1>> ELSE <<>>
         w == Say(Think(Work(native_ledger), thought), text)
     IN  w.out # <<>> /\ NativeContinued(SuccessTail(w))

\* collect_text.
Collected == Stretches(native_ledger.said)

\* append_tool_repair_suffix, for one block whose missing suffix was accepted.
RepairBlock(w, i) ==
  LET parts == w.l.blocks[i].parts
  IN  IF parts = Whole \/ ~ CanAppend(w.l) THEN w
      ELSE BlockDelta(w, i, "tool_use", MissingSuffix(parts))

RepairBlocks(w) ==
  LET tools == ToolBlocks(w.l)
      repair[n \in 0 .. Cardinality(tools)] ==
        IF n = 0 THEN w ELSE RepairBlock(repair[n - 1], Nth(tools, n))
  IN  repair[Cardinality(tools)]

NativeRepairs ==
  /\ NativeReady("recovering") /\ HasToolBlock(native_ledger)
  /\ \A i \in ToolBlocks(native_ledger) : IsPrefix(native_ledger.blocks[i].parts, Whole)
  /\ LET w == RepairBlocks(Work(native_ledger))
     IN  Salvageable(w.l) /\ NativeContinued(SuccessTail(w))

\* The recovery request fails, or what it returns is not usable.
NativeRecoveryFails ==
  /\ NativeReady("recovering")
  /\ Stage("stopped") => "late_cut" \in NativeOddities
  /\ NativeGivesUp

-----------------------------------------------------------------------------
NativeNext ==
  \/ NativeDeliver \/ NativeOpens \/ NativeOpenFails \/ NativeMessageStart
  \/ \E type \in BlockType : NativeBlockStart(type)
  \/ \E u \in 1 .. NativeBlocks : NativeBlockDelta(u) \/ NativeBlockStop(u)
  \/ \E type \in {"text", "tool_use"} : NativeUnstarted(type)
  \/ NativeMessageDelta \/ NativeMessageStop \/ NativeErrorEvent
  \/ NativeAnswered \/ NativeBreaks \/ NativeStalls
  \/ \E more, short \in BOOLEAN, c \in Collected :
       NativeContinues(more, c, short)
  \/ NativeRepairs \/ NativeRecoveryFails

\* The adapter returned and the client has read everything.
NativeDone == native_phase \in NativeOver /\ native_buffer.wire = <<>>

\* Weak fairness of NativeNext, which is enabled until NativeDone: as for the chat
\* adapter.
NativeFairness == []<>NativeDone \/ []<><<NativeNext>>_native_vars
NativeSpec == NativeInit /\ [][NativeNext]_native_vars /\ NativeFairness

-----------------------------------------------------------------------------
(* Properties.                                                              *)

NativeContract == INSTANCE StreamContract
  WITH event <- native_client.event, phase <- native_client.phase,
       open <- native_client.open, seen <- native_client.seen

\* However an upstream overlaps its blocks, repeats their ends or omits their
\* starts, and wherever it breaks off, the client is sent a stream of the Anthropic
\* grammar (native_sse_block_policy.py, ledger.py success_tail, midstream_error_tail).
NativeKeepsContract == NativeContract!ContractSpec

\* No retry or continuation of a native stream repeats text or leaves some out
\* (discard, a new policy state and ledger per attempt, continuation_suffix).
NativeTextInOrder ==
  \A i \in Own(native_client) : native_client.text[i] = i

\* A native answer that ended well reaches the client to its last piece, whatever
\* the policy closed, reopened or dropped on the way; after a repair, too, every
\* tool the client is told to run has complete arguments.
NativeAnswerWhole ==
  native_phase \in {"answered", "continued"} /\ native_buffer.wire = <<>> =>
    /\ \A i \in DOMAIN native_client.args : native_client.args[i] = Whole
    /\ native_phase = "answered" =>
         /\ Own(native_client) = 1 .. native_upstream.text
         /\ Cardinality(DOMAIN native_client.args) =
              Cardinality({u \in DOMAIN native_upstream.blocks :
                             native_upstream.blocks[u].type = "tool_use"})

\* A native answer that failed says so, in a text block or in an error event.
NativeFailureIsTold ==
  native_phase = "failed" /\ native_buffer.wire = <<>> =>
    native_client.error \/ 0 \in Range(native_client.text)

\* Every native stream ends with message_stop, whatever the upstream does.
NativeStops == <>(native_client.phase = "stopped")
=============================================================================
