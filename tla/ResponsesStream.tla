--------------------------- MODULE ResponsesStream ---------------------------
(***************************************************************************)
(* ResponsesStreamAssembler (core/openai_responses/stream_state.py): the   *)
(* events of an Anthropic answer translated into the events of an OpenAI   *)
(* response, for the clients of /v1/responses.                             *)
(*                                                                         *)
(* An operation takes a work record [a, said] - the assembler and the      *)
(* events produced so far.  An output slot is numbered from 1.  The three  *)
(* or four events that complete an item together are one, "done"; tool     *)
(* arguments are sent whole when the tool's block stops.                   *)
(***************************************************************************)
EXTENDS StreamLedger

CONSTANT CustomTools   \* block indexes whose tool is declared custom

ASSUME CustomAssumption == CustomTools \subseteq Nat

ItemKind == {"message", "reasoning", "function_call", "custom_tool_call"}
NewAssembler == [slots |-> <<>>, active |-> <<>>, started |-> FALSE, terminal |-> FALSE]

\* An event: its name, output index, the item's kind, text or arguments, and the
\* output of a final response, which leaves out the slots without an item.
Reply(name, slot, kind, data) ==
  [name |-> name, slot |-> slot, kind |-> kind, data |-> data, output |-> <<>>]
Told(w, a, e) == [a |-> a, said |-> Append(w.said, e)]

\* _output: the committed items in the order of their slots.
Output(a) ==
  LET done == {k \in DOMAIN a.slots : a.slots[k].done}
  IN  [n \in 1 .. Cardinality(done) |-> a.slots[Nth(done, n)]]

KindOf(type, i) ==
  CASE type = "text" -> "message"
    [] type \in {"thinking", "redacted_thinking"} -> "reasoning"
    [] OTHER -> IF i \in CustomTools THEN "custom_tool_call" ELSE "function_call"

\* The final event, which carries the output.
Final(w, name) ==
  Told(w, [w.a EXCEPT !.terminal = TRUE],
       [Reply(name, 0, "", <<>>) EXCEPT !.output = Output(w.a)])

\* Slip: arguments are not looked at.
CompleteUnchecked(w, b) ==
  LET v == [w EXCEPT !.a.slots[b.slot] = [kind |-> b.kind, data |-> b.parts, done |-> TRUE]]
  IN  IF b.kind \in {"function_call", "custom_tool_call"} /\ b.parts # <<>>
      THEN Told(Told(v, v.a, Reply("delta", b.slot, b.kind, b.parts)), v.a,
                Reply("done", b.slot, b.kind, b.parts))
      ELSE Told(v, v.a, Reply("done", b.slot, b.kind, b.parts))

\* _complete_block: the item is committed to its slot and told; arguments of a
\* function that are not a JSON object fail the response instead.
ArgumentsValid(data) == data \in {<<>>, Whole, EmptyObject}
Complete(w, b) ==
  LET item == [kind |-> b.kind, data |-> b.parts, done |-> TRUE]
      v == [w EXCEPT !.a.slots[b.slot] = item]
  IN  IF b.kind = "function_call" /\ ~ ArgumentsValid(b.parts) THEN Final(w, "failed")
      ELSE IF b.kind \in {"function_call", "custom_tool_call"} /\ b.parts # <<>>
      THEN Told(Told(v, v.a, Reply("delta", b.slot, b.kind, b.parts)), v.a,
                Reply("done", b.slot, b.kind, b.parts))
      ELSE Told(v, v.a, Reply("done", b.slot, b.kind, b.parts))

\* The active blocks without i.
Idle(a, i) == [a EXCEPT !.active = [j \in DOMAIN @ \ {i} |-> @[j]]]

\* Slip: a completed block stays active.
CompleteAtKeeps(w, i) ==
  IF i \notin DOMAIN w.a.active THEN w ELSE Complete(w, w.a.active[i])

\* _complete_existing_block, and content_block_stop.
CompleteAt(w, i) ==
  IF i \notin DOMAIN w.a.active THEN w
  ELSE Complete([w EXCEPT !.a = Idle(@, i)], w.a.active[i])

\* _start_text_block, _start_reasoning_block, _start_tool_block.
Start(w, i, type) ==
  LET v == CompleteAt(w, i)
      slot == Len(v.a.slots) + 1
      kind == KindOf(type, i)
      none == [kind |-> kind, data |-> <<>>, done |-> FALSE]
  IN  IF v.a.terminal THEN v
      ELSE Told(v, [v.a EXCEPT !.slots = Append(@, none),
                               !.active = Put(@, i, [kind |-> kind, slot |-> slot,
                                                     parts |-> <<>>])],
                Reply("added", slot, kind, <<>>))

\* _emit_text_delta, _emit_reasoning_delta.
DeltaTold(w, slot, kind, data) == Told(w, w.a, Reply("delta", slot, kind, data))

\* _handle_content_block_delta: text and thinking start a block if theirs is not
\* the active one; arguments are only collected, and only for an active tool.
Grow(w, i, type, data) ==
  LET kind == KindOf(type, i)
      mine == i \in DOMAIN w.a.active /\ w.a.active[i].kind = kind
      v == IF mine \/ type = "tool_use" THEN w ELSE Start(w, i, type)
      u == [v EXCEPT !.a.active[i].parts = @ \o data]
  IN  IF type = "tool_use" THEN (IF mine THEN u ELSE w)
      ELSE IF v.a.terminal THEN v
      ELSE DeltaTold(u, u.a.active[i].slot, kind, data)

\* _flush_active_blocks: in the order of their slots, until one of them fails.
FlushNext(w, b) == IF w.a.terminal THEN w ELSE Complete(w, b)
InSlot(active, slot) == CHOOSE i \in DOMAIN active : active[i].slot = slot
Flush(w) ==
  LET active == w.a.active
      slots == {active[i].slot : i \in DOMAIN active}
      flush[n \in 0 .. Cardinality(slots)] ==
        IF n = 0 THEN [w EXCEPT !.a.active = <<>>]
        ELSE FlushNext(flush[n - 1], active[InSlot(active, Nth(slots, n))])
  IN  flush[Cardinality(slots)]

\* Slip: an answer that failed is reported as completed.
FinishCompleted(w, name) ==
  LET v == Flush(w) IN IF v.a.terminal THEN v ELSE Final(v, "completed")

\* complete_response and fail_response.
Finish(w, name) == LET v == Flush(w) IN IF v.a.terminal THEN v ELSE Final(v, name)

\* _ensure_started.
Created(w) ==
  IF w.a.started THEN w
  ELSE Told(w, [w.a EXCEPT !.started = TRUE], Reply("created", 0, "", <<>>))

\* process_anthropic_event.
Assemble(a, e) ==
  LET w == Created([a |-> a, said |-> <<>>])
  IN  CASE a.terminal -> [a |-> a, said |-> <<>>]
        [] ~ a.terminal /\ e.name = "content_block_start" -> Start(w, e.i, e.type)
        [] ~ a.terminal /\ e.name = "content_block_delta" -> Grow(w, e.i, e.type, e.data)
        [] ~ a.terminal /\ e.name = "content_block_stop" -> CompleteAt(w, e.i)
        [] ~ a.terminal /\ e.name = "message_stop" -> Finish(w, "completed")
        [] ~ a.terminal /\ e.name = "error" -> Finish(w, "failed")
        [] OTHER -> w

-----------------------------------------------------------------------------
(* The client of /v1/responses: it joins an item's deltas and compares them *)
(* with what the item's completion says; strange notes whatever breaks the  *)
(* order created, added, delta, done, completed or failed.                  *)

FreshReader == [status |-> "new", items |-> <<>>, output |-> <<>>, strange |-> FALSE]

ReadResponse(r, e) ==
  LET known == e.slot \in DOMAIN r.items
      open == r.status = "in_progress" /\ known /\ ~ r.items[e.slot].done
  IN  CASE e.name = "created" ->
             [r EXCEPT !.status = "in_progress", !.strange = @ \/ r.status # "new"]
        [] e.name = "added" ->
             [r EXCEPT !.items = Append(@, [kind |-> e.kind, data |-> <<>>, done |-> FALSE]),
                       !.strange = @ \/ r.status # "in_progress" \/ e.slot # Len(r.items) + 1]
        [] e.name = "delta" ->
             IF open THEN [r EXCEPT !.items[e.slot].data = @ \o e.data]
             ELSE [r EXCEPT !.strange = TRUE]
        [] e.name = "done" ->
             IF open /\ r.items[e.slot].data = e.data
             THEN [r EXCEPT !.items[e.slot].done = TRUE] ELSE [r EXCEPT !.strange = TRUE]
        [] OTHER ->
             [r EXCEPT !.status = e.name, !.output = e.output,
                       !.strange = @ \/ r.status # "in_progress"]

ReadAll(r, said) ==
  LET read[n \in 0 .. Len(said)] ==
        IF n = 0 THEN r ELSE ReadResponse(read[n - 1], said[n])
  IN  read[Len(said)]
=============================================================================
