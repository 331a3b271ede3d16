---------------------------- MODULE StreamLedger ----------------------------
(***************************************************************************)
(* AnthropicStreamLedger (core/anthropic/streaming/ledger.py): the content *)
(* blocks of one answer and the server-sent events that describe them.     *)
(*                                                                         *)
(* A ledger operation takes a work record [l, out] - the ledger and the    *)
(* events produced so far - and returns the next one, as the generators of *)
(* the source do.  Text, thinking and tool arguments are sequences of      *)
(* fragments, numbered in the order in which the model wrote them.         *)
(***************************************************************************)
EXTENDS Integers, Sequences, FiniteSets, Functions

NoIndex == -1
BlockType == {"text", "thinking", "tool_use", "redacted_thinking"}

\* Tool arguments are complete JSON when every fragment is there.
Whole == <<1, 2>>
\* What flush_task_arg_buffers sends for arguments that never became JSON.
EmptyObject == <<0>>

Ev(name, i, type, data) == [name |-> name, i |-> i, type |-> type, data |-> data]
Event == [name : {"message_start", "content_block_start", "content_block_delta",
                  "content_block_stop", "message_delta", "message_stop", "error"},
          i : Int, type : BlockType \cup {"", "end_turn", "tool_use"},
          data : Seq(Nat)]

\* A fresh AnthropicStreamLedger: tools maps the upstream's tool index to its
\* ToolBlockState, blocks an index to its StreamBlockState.
NewLedger ==
  [next |-> 0, text |-> NoIndex, thinking |-> NoIndex, text_on |-> FALSE,
   thinking_on |-> FALSE, tools |-> <<>>, stack |-> <<>>, blocks |-> <<>>,
   said |-> <<>>, thought |-> <<>>, stop_reason |-> "", started |-> FALSE,
   stopped |-> FALSE]

Put(f, k, v) == [x \in DOMAIN f \cup {k} |-> IF x = k THEN v ELSE f[x]]
Emit(w, l, e) == [l |-> l, out |-> Append(w.out, e)]
Work(l) == [l |-> l, out |-> <<>>]

MessageStart(w) ==
  Emit(w, [w.l EXCEPT !.started = TRUE], Ev("message_start", NoIndex, "", <<>>))
MessageDelta(w, reason) ==
  Emit(w, [w.l EXCEPT !.stop_reason = reason], Ev("message_delta", NoIndex, reason, <<>>))
MessageStop(w) ==
  Emit(w, [w.l EXCEPT !.stopped = TRUE], Ev("message_stop", NoIndex, "", <<>>))
TopLevelError(w) == Emit(w, w.l, Ev("error", NoIndex, "", <<>>))

-----------------------------------------------------------------------------
(* Blocks.                                                                  *)

\* _record_block_start: text and thinking become the active block.
RecordStart(l, i, type) ==
  [l EXCEPT !.next = IF @ > i THEN @ ELSE i + 1,
            !.text = IF type = "text" THEN i ELSE @,
            !.text_on = type = "text" \/ @,
            !.thinking = IF type = "thinking" THEN i ELSE @,
            !.thinking_on = type = "thinking" \/ @,
            !.blocks = Put(@, i, [type |-> type, parts |-> <<>>]),
            !.stack = Append(@, i)]
BlockStart(w, i, type) ==
  Emit(w, RecordStart(w.l, i, type), Ev("content_block_start", i, type, <<>>))

\* _record_block_delta: the block's parts, and the text of the whole answer.
RecordDelta(l, i, data) ==
  IF i \notin DOMAIN l.blocks THEN l
  ELSE LET type == l.blocks[i].type IN
       [l EXCEPT !.blocks[i].parts = @ \o data,
                 !.said = IF type = "text" THEN @ \o data ELSE @,
                 !.thought = IF type = "thinking" THEN @ \o data ELSE @]
BlockDelta(w, i, type, data) ==
  Emit(w, RecordDelta(w.l, i, data), Ev("content_block_delta", i, type, data))

\* _record_block_stop and _clear_active_content_block; the stack loses the
\* last occurrence of the index when it is on top, else the first.
DropAt(s, k) == SubSeq(s, 1, k - 1) \o SubSeq(s, k + 1, Len(s))
Unstacked(s, i) ==
  IF s # <<>> /\ s[Len(s)] = i THEN SubSeq(s, 1, Len(s) - 1)
  ELSE IF \E k \in DOMAIN s : s[k] = i
       THEN DropAt(s, CHOOSE k \in DOMAIN s : s[k] = i /\ \A j \in 1 .. k - 1 : s[j] # i)
       ELSE s
Deactivate(l, i) ==
  [l EXCEPT !.text_on = @ /\ ~ (i \in DOMAIN l.blocks /\ l.blocks[i].type = "text" /\ l.text = i),
            !.thinking_on = @ /\ ~ (i \in DOMAIN l.blocks /\ l.blocks[i].type = "thinking"
                                     /\ l.thinking = i)]
RecordStop(l, i) == [Deactivate(l, i) EXCEPT !.stack = Unstacked(l.stack, i)]
BlockStop(w, i) ==
  Emit(w, RecordStop(w.l, i), Ev("content_block_stop", i, "", <<>>))

\* allocate_index, then start: the block gets the next free index.
StartText(w) == BlockStart(w, w.l.next, "text")
StartThinking(w) == BlockStart(w, w.l.next, "thinking")
StopText(w) == IF w.l.text_on THEN BlockStop(w, w.l.text) ELSE w
StopThinking(w) == IF w.l.thinking_on THEN BlockStop(w, w.l.thinking) ELSE w

EnsureText(w) ==
  LET v == StopThinking(w) IN IF v.l.text_on THEN v ELSE StartText(v)
EnsureThinking(w) ==
  LET v == StopText(w) IN IF v.l.thinking_on THEN v ELSE StartThinking(v)
CloseContent(w) == StopText(StopThinking(w))

TextDelta(w, data) == BlockDelta(w, w.l.text, "text", data)
ThinkingDelta(w, data) == BlockDelta(w, w.l.thinking, "thinking", data)

\* ensure_text_block and one delta, nothing for an empty text.
Say(w, data) == IF data = <<>> THEN w ELSE TextDelta(EnsureText(w), data)
Think(w, data) == IF data = <<>> THEN w ELSE ThinkingDelta(EnsureThinking(w), data)

\* emit_error: the message in a text block of its own.
EmitError(w) ==
  LET i == w.l.next
  IN  BlockStop(BlockDelta(BlockStart(w, i, "text"), i, "text", EmptyObject), i)

-----------------------------------------------------------------------------
(* Tools.                                                                   *)

ToolBlocks(l) == {i \in DOMAIN l.blocks : l.blocks[i].type = "tool_use"}
HasToolBlock(l) == ToolBlocks(l) # {}
HasContentBlock(l) == DOMAIN l.blocks # {}

\* can_salvage_tool_use: every tool block holds complete, valid arguments.
Salvageable(l) ==
  HasToolBlock(l) /\ \A i \in ToolBlocks(l) : l.blocks[i].parts = Whole

FinalStopReason(l, fallback) == IF HasToolBlock(l) THEN "tool_use" ELSE fallback

\* A ToolBlockState: its name decides what happens to its arguments.
NewTool == [block |-> NoIndex, name |-> "", buffer |-> <<>>, emitted |-> FALSE,
            early |-> <<>>]
Tool(l, t) == IF t \in DOMAIN l.tools THEN l.tools[t] ELSE NewTool
Started(l, t) == t \in DOMAIN l.tools /\ l.tools[t].block # NoIndex
StartedTools(l) == {t \in DOMAIN l.tools : Started(l, t)}

\* start_tool_block.
StartTool(w, t, name) ==
  LET i == w.l.next
      v == BlockStart(w, i, "tool_use")
  IN  [v EXCEPT !.l.tools = Put(@, t, [Tool(v.l, t) EXCEPT !.block = i, !.name = name])]
ToolDelta(w, t, data) == BlockDelta(w, w.l.tools[t].block, "tool_use", data)

\* close_all_blocks: content, then every started tool, open or not.
CloseTools(w) ==
  LET calls == Cardinality(DOMAIN w.l.tools)
      closing[n \in 0 .. calls] ==
        IF n = 0 THEN w
        ELSE IF Started(w.l, n) THEN BlockStop(closing[n - 1], w.l.tools[n].block)
        ELSE closing[n - 1]
  IN  closing[calls]
CloseAll(w) == CloseTools(CloseContent(w))

\* close_unclosed_blocks: whatever the stack of open blocks says, top first.
CloseUnclosed(w) ==
  LET s == w.l.stack
      closing[n \in 0 .. Len(s)] ==
        IF n = 0 THEN w ELSE BlockStop(closing[n - 1], s[Len(s) + 1 - n])
  IN  closing[Len(s)]

CanAppend(l) == l.stop_reason = "" /\ ~ l.stopped

\* Slip: the tail of a continued answer forgets message_stop.
SuccessTailOpen(w) ==
  LET v == CloseUnclosed(w)
  IN  IF v.l.stop_reason # "" THEN v ELSE MessageDelta(v, FinalStopReason(v.l, "end_turn"))

\* Slip: the error is not told when a block can no longer be added.
MidstreamErrorTailQuiet(w) ==
  LET v == CloseUnclosed(w)
      u == IF CanAppend(v.l) THEN MessageDelta(EmitError(v), "end_turn") ELSE v
  IN  IF u.l.stopped THEN u ELSE MessageStop(u)

\* success_tail and midstream_error_tail: whatever of the end is still missing.
SuccessTail(w) ==
  LET v == CloseUnclosed(w)
      u == IF v.l.stop_reason # "" THEN v
           ELSE MessageDelta(v, FinalStopReason(v.l, "end_turn"))
  IN  IF u.l.stopped THEN u ELSE MessageStop(u)
MidstreamErrorTail(w) ==
  LET v == CloseUnclosed(w)
      u == IF CanAppend(v.l) THEN MessageDelta(EmitError(v), "end_turn") ELSE TopLevelError(v)
  IN  IF u.l.stopped THEN u ELSE MessageStop(u)

\* ingest_native_event: an event of the upstream is recorded and passed on.
Ingest(w, e) ==
  CASE e.name = "message_start" -> MessageStart(w)
    [] e.name = "content_block_start" -> BlockStart(w, e.i, e.type)
    [] e.name = "content_block_delta" -> BlockDelta(w, e.i, e.type, e.data)
    [] e.name = "content_block_stop" -> BlockStop(w, e.i)
    [] e.name = "message_delta" -> MessageDelta(w, e.type)
    [] e.name = "message_stop" -> MessageStop(w)
    [] OTHER -> Emit(w, w.l, e)
IngestAll(w, events) ==
  LET after[n \in 0 .. Len(events)] ==
        IF n = 0 THEN w ELSE Ingest(after[n - 1], events[n])
  IN  after[Len(events)]

\* The kth element of a set of numbers, in their order.
Nth(S, k) == CHOOSE x \in S : Cardinality({y \in S : y < x}) = k - 1
=============================================================================
