-------------------------- MODULE OpenAIChatStream --------------------------
(***************************************************************************)
(* OpenAIChatStreamAdapter.run: one OpenAI-style chat stream turned into   *)
(* Anthropic events, with the parsers for tagged thinking and for tools    *)
(* written as text, the holdback buffer, the invisible retry, the          *)
(* continuation after a cut, and the error tail                            *)
(* (providers/transports/openai_chat, core/anthropic/streaming).           *)
(*                                                                         *)
(* The adapter is a generator: it resumes only when the client has taken   *)
(* the event it yielded, so nothing happens while the wire holds events.  *)
(* The answer is a sequence of text pieces and of thinking pieces; a new   *)
(* attempt writes it from the beginning.                                   *)
(***************************************************************************)
EXTENDS StreamRecovery

CONSTANTS
  ChatCalls,      \* tool calls the upstream may make in one answer
  ChatChunks      \* chunks one attempt may carry before it ends

ASSUME ChatAssumption == ChatCalls \in Nat /\ ChatChunks \in Nat

\* The upstream's tool call indexes, in the order of their first chunks.
ChatTools == 1 .. ChatCalls

VARIABLES
  chat_phase,     \* what the adapter is doing
  chat_ledger,    \* the AnthropicStreamLedger of this attempt
  chat_buffer,    \* the RecoveryHoldbackBuffer, and events yielded and not yet taken
  chat_retries,   \* RecoveryController._early_retry_count
  chat_parser,    \* ThinkTagParser and HeuristicToolParser
  chat_upstream,  \* what the provider has sent in this attempt
  chat_client     \* what the client has been told

chat_vars == <<chat_phase, chat_ledger, chat_buffer, chat_retries, chat_parser,
               chat_upstream, chat_client>>

ChatPhase == {"starting", "opening", "streaming", "recovering", "answered",
              "continued", "failed"}
ChatOver == {"answered", "continued", "failed"}

\* Names that decide how arguments are passed on: Task waits for whole JSON and
\* has its run_in_background forced, aliased keys wait to be renamed.
ToolName == {"plain", "Task", "aliased"}

FreshParser == [in_think |-> FALSE, tag |-> <<>>, state |-> "text", held |-> <<>>]
FreshUpstream == [chunks |-> 0, text |-> 0, thinking |-> 0, finished |-> FALSE,
                  args |-> [t \in ChatTools |-> 0], tools |-> 0, bullets |-> FALSE]
ChatTypeOK ==
  /\ chat_phase \in ChatPhase
  /\ chat_buffer \in Buffer
  /\ chat_retries \in 0 .. EarlyRetries
  /\ chat_parser \in [in_think : BOOLEAN, tag : Seq(Nat), held : Seq(Nat),
                      state : {"text", "matching", "parsing"}]
  /\ chat_upstream.chunks \in 0 .. ChatChunks
  /\ chat_ledger.stop_reason \in {"", "end_turn", "tool_use"}
  /\ chat_client.phase \in {"new", "open", "stopped"}

ChatInit ==
  /\ chat_phase = "starting"
  /\ chat_ledger = NewLedger
  /\ chat_buffer = FreshBuffer
  /\ chat_retries = 0
  /\ chat_parser = FreshParser
  /\ chat_upstream = FreshUpstream
  /\ chat_client = FreshClient

-----------------------------------------------------------------------------
\* The client takes the next event.
ChatDeliver ==
  /\ chat_buffer.wire # <<>>
  /\ chat_client' = Read(chat_client, Head(chat_buffer.wire))
  /\ chat_buffer' = [chat_buffer EXCEPT !.wire = Tail(@)]
  /\ UNCHANGED <<chat_phase, chat_ledger, chat_retries, chat_parser, chat_upstream>>

Ready(p) == chat_buffer.wire = <<>> /\ chat_phase = p

-----------------------------------------------------------------------------
(* Opening.                                                                 *)

\* The top of the loop: message_start, once per ledger.
ChatStarts ==
  /\ Ready("starting")
  /\ LET w == MessageStart(Work(chat_ledger))
     IN  chat_ledger' = w.l /\ chat_buffer' \in Push(chat_buffer, w.out)
  /\ chat_phase' = "opening"
  /\ UNCHANGED <<chat_retries, chat_parser, chat_upstream, chat_client>>

ChatOpens ==
  /\ Ready("opening")
  /\ chat_phase' = "streaming"
  /\ UNCHANGED <<chat_ledger, chat_buffer, chat_retries, chat_parser, chat_upstream,
                 chat_client>>

-----------------------------------------------------------------------------
(* Chunks.                                                                  *)

\* A chunk changes the ledger, the parsers and what the provider has sent.
Handle(w, upstream, parser) ==
  /\ Ready("streaming")
  /\ ~ chat_upstream.finished
  /\ chat_upstream.chunks < ChatChunks
  /\ chat_ledger' = w.l
  /\ chat_buffer' \in Push(chat_buffer, w.out)
  /\ chat_upstream' = [upstream EXCEPT !.chunks = @ + 1]
  /\ chat_parser' = parser
  /\ UNCHANGED <<chat_phase, chat_retries, chat_client>>

\* delta.reasoning_content.
ChatReasoning ==
  LET n == chat_upstream.thinking + 1
  IN  Handle(Think(Work(chat_ledger), <<n>>),
             [chat_upstream EXCEPT !.thinking = n], chat_parser)

\* HeuristicToolParser: the tool it was reading is complete.
HeuristicTool(w) ==
  LET v == CloseContent(w)
      i == v.l.next
  IN  BlockStop(BlockDelta(BlockStart(v, i, "tool_use"), i, "tool_use", Whole), i)

\* What HeuristicToolParser.feed makes of a text part: text to say, the parser
\* afterwards, and whether a tool was completed.  A bullet may begin a tool, so
\* text is held from it on; a plain part after a tool's parameters ends it.
Released(p, text) == [say |-> text, parser |-> [p EXCEPT !.state = "text", !.held = <<>>],
                      tool |-> p.state = "parsing"]
Feed(p, text, bullet) ==
  IF text = <<>> THEN {[say |-> <<>>, parser |-> p, tool |-> FALSE]}
  ELSE CASE p.state = "matching" /\ ~ bullet ->
              {[say |-> <<>>, parser |-> [p EXCEPT !.held = @ \o text], tool |-> FALSE],
               Released(p, p.held \o text)}  \* more than 100 characters held
         [] p.state = "matching" /\ bullet ->
              {[say |-> <<>>, parser |-> [p EXCEPT !.held = @ \o text], tool |-> FALSE],
               [say |-> p.held, parser |-> [p EXCEPT !.held = text], tool |-> FALSE]}
         [] p.state # "matching" /\ bullet ->
              {[say |-> <<>>, parser |-> [p EXCEPT !.state = "matching", !.held = text],
                tool |-> p.state = "parsing"]}
         [] OTHER -> {Released(p, text)}

SayFed(f) ==
  LET w == Say(Work(chat_ledger), f.say)
  IN  IF f.tool THEN HeuristicTool(w) ELSE w

\* delta.content with one piece.  ThinkTagParser keeps a piece that may be the
\* beginning of a tag and returns it with the next one.
ChatContent(bullet, partial) ==
  LET p == chat_parser
      n == IF p.in_think THEN chat_upstream.thinking + 1 ELSE chat_upstream.text + 1
      part == IF partial THEN p.tag ELSE Append(p.tag, n)
      q == [p EXCEPT !.tag = IF partial THEN <<n>> ELSE <<>>]
      sent == IF p.in_think THEN [chat_upstream EXCEPT !.thinking = n]
              ELSE [chat_upstream EXCEPT !.text = n, !.bullets = @ \/ bullet]
  IN  /\ ~ (bullet /\ (partial \/ p.tag # <<>> \/ p.in_think))
      /\ IF p.in_think THEN Handle(Think(Work(chat_ledger), part), sent, q)
         ELSE \E f \in Feed(q, part, bullet) : Handle(SayFed(f), sent, f.parser)

\* A think tag, whole or completed by this chunk.
ChatTag ==
  /\ chat_parser.tag = <<>>
  /\ Handle(Work(chat_ledger), chat_upstream, [chat_parser EXCEPT !.in_think = ~ @])

\* The header of a tool written as text; text held before it is not said.
ChatFunction ==
  /\ chat_parser.tag = <<>> /\ ~ chat_parser.in_think
  /\ Handle(SayFed([say |-> <<>>, tool |-> chat_parser.state = "parsing"]),
            chat_upstream, [chat_parser EXCEPT !.state = "parsing", !.held = <<>>])

-----------------------------------------------------------------------------
(* Tool calls: OpenAIToolCallAssembler.                                     *)

\* _emit_tool_arg_delta.
EmitArgs(w, t, args) ==
  LET s == Tool(w.l, t)
      whole == s.buffer \o args
  IN  IF args = <<>> \/ (s.name = "Task" /\ s.emitted) THEN w
      ELSE IF s.name = "plain" THEN ToolDelta(w, t, args)
      ELSE IF whole = Whole
      THEN [ToolDelta(w, t, whole) EXCEPT !.l.tools[t].buffer = <<>>,
                                          !.l.tools[t].emitted = s.name = "Task"]
      ELSE [w EXCEPT !.l.tools[t].buffer = whole]

\* process_tool_call: the block starts when the name is known; arguments that
\* come before it wait in pre_start_args.
ProcessToolCall(w, t, name, args) ==
  LET v == IF t \in DOMAIN w.l.tools THEN w ELSE [w EXCEPT !.l.tools = Put(@, t, NewTool)]
      early == Tool(v.l, t).early
      u == IF Started(v.l, t) \/ name = "" THEN v
           ELSE EmitArgs([StartTool(v, t, name) EXCEPT !.l.tools[t].early = <<>>], t, early)
  IN  IF Started(u.l, t) THEN EmitArgs(u, t, args)
      ELSE [u EXCEPT !.l.tools[t].early = @ \o args]

\* delta.tool_calls with one call: its name, or a fragment of its arguments, or both.
ChatToolCall(t, name, fragment) ==
  /\ t <= chat_upstream.tools + 1
  /\ name # "" \/ fragment
  /\ Started(chat_ledger, t) => name = ""
  /\ fragment => chat_upstream.args[t] < Len(Whole)
  /\ Handle(ProcessToolCall(CloseContent(Work(chat_ledger)), t, name,
                            IF fragment THEN <<chat_upstream.args[t] + 1>> ELSE <<>>),
            [chat_upstream EXCEPT !.tools = IF t > @ THEN t ELSE @,
                                  !.args[t] = IF fragment THEN @ + 1 ELSE @],
            chat_parser)

\* finish_reason arrives, at the latest in the last chunk.
ChatFinishes ==
  /\ Ready("streaming") /\ ~ chat_upstream.finished
  /\ chat_upstream' = [chat_upstream EXCEPT !.finished = TRUE]
  /\ UNCHANGED <<chat_phase, chat_ledger, chat_buffer, chat_retries, chat_parser,
                 chat_client>>

-----------------------------------------------------------------------------
(* The end.                                                                 *)

\* flush_tool_argument_alias_buffers, then flush_task_arg_buffers.
FlushTool(w, t, name) ==
  LET s == Tool(w.l, t)
  IN  IF s.name # name \/ s.buffer = <<>> THEN w
      ELSE [ToolDelta(w, t, IF name = "Task" THEN EmptyObject ELSE s.buffer)
              EXCEPT !.l.tools[t].buffer = <<>>, !.l.tools[t].emitted = name = "Task"]
FlushTools(w) ==
  LET calls == Cardinality(DOMAIN w.l.tools)
      flush[n \in 0 .. 2 * calls] ==
        IF n = 0 THEN w
        ELSE FlushTool(flush[n - 1], IF n > calls THEN n - calls ELSE n,
                       IF n > calls THEN "Task" ELSE "aliased")
  IN  flush[2 * calls]

\* The answer must have a block, and a block that is not only thinking.
Placeholder(w) ==
  IF HasToolBlock(w.l) \/ w.l.said # <<>> \/ (w.l.text # NoIndex /\ w.l.thought = <<>>)
  THEN w ELSE Say(w, EmptyObject)

Tails(w, reason) == MessageStop(MessageDelta(CloseAll(w), FinalStopReason(w.l, reason)))

\* Slip: text that looked like the beginning of a tag is forgotten.
FlushParsersNoTag(w) ==
  IF chat_parser.state = "parsing" THEN HeuristicTool(w) ELSE w

\* What ThinkTagParser.flush still holds, then the tool of HeuristicToolParser.flush:
\* text held behind a bullet is not said.
FlushParsers(w) ==
  LET p == chat_parser
      v == IF p.in_think THEN Think(w, p.tag) ELSE Say(w, p.tag)
  IN  IF p.state = "parsing" THEN HeuristicTool(v) ELSE v

\* The stream ended with a finish_reason.
ChatAnswered ==
  /\ Ready("streaming") /\ chat_upstream.finished
  /\ LET w == Tails(FlushTools(Placeholder(FlushParsers(Work(chat_ledger)))), "end_turn")
     IN  chat_ledger' = w.l /\ chat_buffer' = FlushThen(chat_buffer, w.out)
  /\ chat_phase' = "answered"
  /\ UNCHANGED <<chat_retries, chat_parser, chat_upstream, chat_client>>

\* has_committed_sse_output.
GeneratedOutput ==
  chat_ledger.text # NoIndex \/ chat_ledger.thinking # NoIndex \/ HasToolBlock(chat_ledger)

\* Slip: an interrupted tool call ends without a word.
ErrorTailQuiet(w) ==
  LET v == CloseAll(w)
  IN  MessageStop(MessageDelta(IF HasToolBlock(v.l) THEN v ELSE EmitError(v), "end_turn"))

\* emit_error_tail.
ErrorTail(w) ==
  LET v == CloseAll(w)
      u == IF HasToolBlock(v.l) THEN TopLevelError(v) ELSE EmitError(v)
  IN  MessageStop(MessageDelta(u, "end_turn"))

ChatGivesUp ==
  /\ LET w == ErrorTail(Work(chat_ledger))
     IN  chat_ledger' = w.l /\ chat_buffer' = FlushThen(chat_buffer, w.out)
  /\ chat_phase' = "failed"
  /\ UNCHANGED <<chat_retries, chat_parser, chat_upstream, chat_client>>

\* An uncommitted attempt is made again, an attempt with output is continued, any
\* other one fails.
ChatFails(retryable, opened) ==
  LET again == EarlyRetry(chat_buffer, chat_retries, retryable, opened,
                          GeneratedOutput /\ Salvageable(chat_ledger))
  IN  CASE again ->
             /\ chat_retries' = chat_retries + 1
             /\ chat_buffer' = Discarded(chat_buffer)
             /\ chat_ledger' = NewLedger
             /\ chat_parser' = FreshParser
             /\ chat_upstream' = FreshUpstream
             /\ chat_phase' = "starting"
             /\ UNCHANGED chat_client
        [] ~ again /\ retryable /\ GeneratedOutput ->
             /\ chat_phase' = "recovering"
             /\ UNCHANGED <<chat_ledger, chat_buffer, chat_retries, chat_parser,
                            chat_upstream, chat_client>>
        [] OTHER -> ChatGivesUp

\* create_stream raises.
ChatOpenFails == Ready("opening") /\ \E retryable \in BOOLEAN : ChatFails(retryable, FALSE)

\* The upstream breaks off, or ends without a finish_reason (retryable).
ChatBreaks ==
  /\ Ready("streaming")
  /\ \E retryable \in BOOLEAN : ChatFails(retryable, TRUE)

-----------------------------------------------------------------------------
(* Continuation and repair: OpenAIChatRecovery.events.                      *)

\* No tool was begun: thinking and text continue where they stopped.
ChatContinues(more, candidate, short) ==
  /\ Ready("recovering") /\ ~ HasToolBlock(chat_ledger)
  /\ LET text == ContinuationSuffix(chat_ledger.said, candidate, short)
         thought == IF more THEN <<Len(chat_ledger.thought) + 1>> ELSE <<>>
         v == Say(Think(Work(chat_ledger), thought), text)
         w == Tails(v, "end_turn")
     IN  /\ v.out # <<>>
         /\ chat_ledger' = w.l
         /\ chat_buffer' = FlushThen(chat_buffer, w.out)
  /\ chat_phase' = "continued"
  /\ UNCHANGED <<chat_retries, chat_parser, chat_upstream, chat_client>>

\* _repair_tool_args for one started tool, its missing suffix accepted.
RepairTool(w, t) ==
  LET parts == w.l.blocks[w.l.tools[t].block].parts
      prefix == IF parts # <<>> THEN parts ELSE w.l.tools[t].buffer
      missing == MissingSuffix(prefix)
      delta == IF parts # <<>> THEN missing ELSE prefix \o missing
  IN  IF ~ Started(w.l, t) \/ parts = Whole THEN w ELSE ToolDelta(w, t, delta)

\* Slip: only the last call is repaired, the others are taken to be complete.
ChatRepairsLast ==
  /\ Ready("recovering") /\ StartedTools(chat_ledger) # {}
  /\ LET w == Tails(RepairTool(Work(chat_ledger), Max(StartedTools(chat_ledger))), "end_turn")
     IN  /\ chat_ledger' = w.l
         /\ chat_buffer' = FlushThen(chat_buffer, w.out)
  /\ chat_phase' = "continued"
  /\ UNCHANGED <<chat_retries, chat_parser, chat_upstream, chat_client>>

RepairTools(w) ==
  LET calls == Cardinality(DOMAIN w.l.tools)
      repair[n \in 0 .. calls] == IF n = 0 THEN w ELSE RepairTool(repair[n - 1], n)
  IN  repair[calls]

\* Tools were begun: their arguments are completed, or were complete.
ChatRepairs ==
  /\ Ready("recovering") /\ HasToolBlock(chat_ledger)
  /\ LET v == RepairTools(Work(chat_ledger))
         w == Tails(v, "end_turn")
     IN  /\ Salvageable(v.l)
         /\ chat_ledger' = w.l
         /\ chat_buffer' = FlushThen(chat_buffer, w.out)
  /\ chat_phase' = "continued"
  /\ UNCHANGED <<chat_retries, chat_parser, chat_upstream, chat_client>>

\* The watchdog: nothing came out of the adapter for the idle timeout.
ChatStalls ==
  /\ chat_buffer.wire = <<>> /\ chat_phase \notin ChatOver
  /\ CanStall(chat_client)
  /\ chat_buffer' = [chat_buffer EXCEPT !.wire = StallEvents(chat_client)]
  /\ chat_phase' = "failed"
  /\ UNCHANGED <<chat_ledger, chat_retries, chat_parser, chat_upstream, chat_client>>

\* The recovery request fails, or what it returns is not usable.
ChatRecoveryFails == Ready("recovering") /\ ChatGivesUp

-----------------------------------------------------------------------------
ChatNext ==
  \/ ChatDeliver \/ ChatStarts \/ ChatOpens \/ ChatOpenFails
  \/ ChatReasoning \/ ChatTag \/ ChatFunction
  \/ \E bullet, partial \in BOOLEAN : ChatContent(bullet, partial)
  \/ \E t \in ChatTools, name \in ToolName \cup {""}, fragment \in BOOLEAN :
       ChatToolCall(t, name, fragment)
  \/ ChatFinishes \/ ChatAnswered \/ ChatBreaks
  \/ \E more, short \in BOOLEAN, c \in Stretches(chat_ledger.said) :
       ChatContinues(more, c, short)
  \/ ChatRepairs \/ ChatRecoveryFails \/ ChatStalls

\* The adapter returned and the client has read everything.
ChatDone == chat_phase \in ChatOver /\ chat_buffer.wire = <<>>

\* Weak fairness of ChatNext, which is enabled until ChatDone: the event loop runs
\* the adapter, the client reads, and the HTTP read timeout cuts off an upstream
\* that stalls.
ChatFairness == []<>ChatDone \/ []<><<ChatNext>>_chat_vars
ChatSpec == ChatInit /\ [][ChatNext]_chat_vars /\ ChatFairness

-----------------------------------------------------------------------------
(* Properties.                                                              *)

Contract == INSTANCE StreamContract
  WITH event <- chat_client.event, phase <- chat_client.phase,
       open <- chat_client.open, seen <- chat_client.seen

\* Whatever fails, is retried, continued or repaired, the client is sent a stream
\* of the Anthropic grammar: blocks opened once, closed once, grown only while
\* open, one message_start, and message_stop last (stream.py, ledger.py).
ChatKeepsContract == Contract!ContractSpec

\* No retry or continuation repeats text or leaves some out: what the client has
\* read is the beginning of the answer (holdback, discard, continuation_suffix).
\* Text behind a bullet may be left out, but never comes out of order.
ChatTextInOrder ==
  LET text == chat_client.text
  IN  /\ \A i, j \in Own(chat_client) : i < j => text[i] < text[j]
      /\ chat_upstream.bullets \/ \A i \in Own(chat_client) : text[i] = i

\* An answer that ended well was passed on to its last piece, whatever parser or
\* buffer was still holding some of it: text, and each call's arguments, or {}
\* for a Task whose arguments never became JSON.
ChatAnswerWhole ==
  chat_phase = "answered" /\ chat_buffer.wire = <<>> =>
    /\ chat_upstream.bullets \/ Own(chat_client) = 1 .. chat_upstream.text
    /\ \A t \in StartedTools(chat_ledger) :
         LET tool == chat_ledger.tools[t]
             got == chat_client.args[tool.block]
         IN  IF tool.name = "Task" /\ chat_upstream.args[t] = 1 THEN got = EmptyObject
             ELSE got = SubSeq(Whole, 1, chat_upstream.args[t])

\* A client told to run tools after an interruption gets complete arguments.
ChatRepairsWhole ==
  chat_phase = "continued" /\ chat_buffer.wire = <<>> /\ chat_ledger.stop_reason = "tool_use" =>
    \A i \in DOMAIN chat_client.args : chat_client.args[i] = Whole

\* An answer that failed says so, in a text block or in an error event.
ChatFailureIsTold ==
  chat_phase = "failed" /\ chat_buffer.wire = <<>> =>
    chat_client.error \/ 0 \in Range(chat_client.text)

\* Every stream ends with message_stop, whatever the upstream does.
ChatStops == <>(chat_client.phase = "stopped")
=============================================================================
