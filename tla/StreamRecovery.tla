--------------------------- MODULE StreamRecovery ---------------------------
(***************************************************************************)
(* What both transports share: the holdback buffer, the decision after a   *)
(* failure and the joining of a continuation                               *)
(* (core/anthropic/streaming/recovery.py), the idle watchdog around a      *)
(* stream (core/anthropic/stream_watchdog.py), and the client that reads   *)
(* the events.                                                             *)
(***************************************************************************)
EXTENDS StreamLedger, SequencesExt

CONSTANTS
  EarlyRetries,   \* EARLY_TRANSPARENT_MAX_RETRIES
  ShortRepeats,   \* a continuation may repeat old text and stop before new text
  LateStalls      \* the upstream may stall after the client was sent something

ASSUME RecoveryAssumption ==
  EarlyRetries \in Nat /\ ShortRepeats \in BOOLEAN /\ LateStalls \in BOOLEAN

-----------------------------------------------------------------------------
(* The client.                                                              *)

FreshClient == [phase |-> "new", open |-> {}, seen |-> {}, text |-> <<>>,
                args |-> <<>>, error |-> FALSE,
                event |-> [name |-> "", i |-> NoIndex, type |-> ""]]

\* How a client reads an event (text_content, event_index).
Read(c, e) ==
  LET type == IF e.name = "content_block_stop" \/ e.i = NoIndex THEN "" ELSE e.type
      seen == [c EXCEPT !.event = [name |-> e.name, i |-> e.i, type |-> type]]
  IN  CASE e.name = "message_start" -> [seen EXCEPT !.phase = "open"]
        [] e.name = "message_stop" -> [seen EXCEPT !.phase = "stopped"]
        [] e.name = "error" -> [seen EXCEPT !.error = TRUE]
        [] e.name = "content_block_start" ->
             [seen EXCEPT !.open = @ \cup {[i |-> e.i, type |-> e.type]},
                          !.seen = @ \cup {e.i},
                          !.args = IF e.type = "tool_use" THEN Put(@, e.i, <<>>) ELSE @]
        [] e.name = "content_block_stop" ->
             [seen EXCEPT !.open = {b \in @ : b.i # e.i}]
        [] e.name = "content_block_delta" ->
             [seen EXCEPT !.text = IF e.type = "text" THEN @ \o e.data ELSE @,
                          !.args = IF e.type = "tool_use" /\ e.i \in DOMAIN @
                                   THEN Put(@, e.i, @[e.i] \o e.data) ELSE @]
        [] OTHER -> seen

\* The places of the answer's own text, without the placeholder and the error message.
Own(c) == {i \in DOMAIN c.text : c.text[i] > 0}

-----------------------------------------------------------------------------
(* RecoveryHoldbackBuffer, and the events yielded and not yet taken: an     *)
(* adapter is a generator and resumes when the client took what it yielded. *)

FreshBuffer == [held |-> <<>>, committed |-> FALSE, wire |-> <<>>]
Buffer == [held : Seq(Event), committed : BOOLEAN, wire : Seq(Event)]

\* flush, then events that bypass the buffer.
FlushThen(b, events) == [held |-> <<>>, committed |-> TRUE, wire |-> b.held \o events]

\* push for each event: held until 0.75 s have passed or 64 KiB are held, then
\* everything goes out and nothing is held again.
Push(b, events) ==
  IF b.committed THEN {[b EXCEPT !.wire = events]}
  ELSE {[b EXCEPT !.held = @ \o events]}
       \cup (IF events = <<>> THEN {} ELSE {FlushThen(b, events)})

\* A new buffer for the next attempt; nothing had gone out.
Discarded(b) == [b EXCEPT !.held = <<>>]

\* Slip: one retry too many.
EarlyRetryOnceMore(b, retries, retryable, opened, salvageable) ==
  retryable /\ opened /\ ~ b.committed /\ ~ salvageable /\ retries <= EarlyRetries

\* Slip: an attempt the client has seen is made again.
EarlyRetryCommitted(b, retries, retryable, opened, salvageable) ==
  retryable /\ opened /\ ~ salvageable /\ retries < EarlyRetries

\* advance_failure: an uncommitted attempt is forgotten and made again, unless
\* its tool calls are complete.
EarlyRetry(b, retries, retryable, opened, salvageable) ==
  retryable /\ opened /\ ~ b.committed /\ ~ salvageable /\ retries < EarlyRetries

-----------------------------------------------------------------------------
(* continuation_suffix.                                                     *)

Overlaps(existing, candidate) ==
  {k \in 1 .. Len(candidate) : k <= Len(existing) /\ IsSuffix(SubSeq(candidate, 1, k), existing)}

\* Slip: an overlap at the joint is not looked for.
SuffixKeepsOverlap(existing, candidate, short) ==
  IF IsPrefix(existing, candidate)
  THEN SubSeq(candidate, Len(existing) + 1, Len(candidate))
  ELSE candidate

\* What a continuation adds; a candidate that neither extends nor overlaps what
\* is there is taken whole if it is short and not at all if it is long.
ContinuationSuffix(existing, candidate, short) ==
  IF candidate = <<>> THEN <<>>
  ELSE IF IsPrefix(existing, candidate)
  THEN SubSeq(candidate, Len(existing) + 1, Len(candidate))
  ELSE IF Overlaps(existing, candidate) # {}
  THEN SubSeq(candidate, Max(Overlaps(existing, candidate)) + 1, Len(candidate))
  ELSE IF short THEN candidate ELSE <<>>

\* What a model asked to continue may write: a stretch of the same answer. collect_text
\* returns it whole, from a stream that reached its end, or raises.
Candidates(existing) ==
  {[k \in 1 .. j - i |-> i + k] : i \in 0 .. Len(existing), j \in 0 .. Len(existing) + 1}
Stretches(existing) ==
  {c \in Candidates(existing) : c = <<>> \/ ShortRepeats \/ c[Len(c)] > Len(existing)}

\* accept_tool_json_repair: of what the model wrote, the suffix after which the arguments
\* are an object that the tool's schema allows.
MissingSuffix(prefix) == SubSeq(Whole, Len(prefix) + 1, Len(Whole))

-----------------------------------------------------------------------------
(* idle_timeout_stream.                                                     *)

CanStall(c) == LateStalls \/ c.phase = "new"

\* iter_provider_stream_error_sse_events: a whole answer that says the error, or
\* only its end, from a fresh ledger.
ErrorSequence(sent_any_event) ==
  LET w == Work(NewLedger)
      v == IF sent_any_event THEN w ELSE MessageStart(w)
  IN  MessageStop(MessageDelta(EmitError(v), "end_turn")).out

\* The adapter is closed and the error sequence takes its place.
StallEvents(c) == ErrorSequence(c.phase # "new")
=============================================================================
