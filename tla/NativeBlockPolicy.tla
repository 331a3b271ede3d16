------------------------- MODULE NativeBlockPolicy -------------------------
(***************************************************************************)
(* transform_native_sse_block_event                                        *)
(* (core/anthropic/native_sse_block_policy.py): the blocks of an upstream  *)
(* that may overlap, repeat their ends or forget their starts, renumbered  *)
(* so that every segment a client sees is started once; thinking is        *)
(* dropped when the request does not allow it.                             *)
(*                                                                         *)
(* A policy is NativeSseBlockPolicyState; each operator returns the next   *)
(* policy and the events that replace the upstream's.                      *)
(***************************************************************************)
EXTENDS StreamLedger

FreshPolicy == [next |-> 0, by_upstream |-> <<>>, dropped |-> {}, suppressed |-> {}]

Becomes(p, events) == [policy |-> p, out |-> events]

\* _should_drop_block_type.
Unwanted(type, thinking_enabled) ==
  ~ thinking_enabled /\ type \in {"thinking", "redacted_thinking"}

Segment(p, u) == p.by_upstream[u]
OpenSegments(p) == {u \in DOMAIN p.by_upstream : Segment(p, u).open}

\* _allocate_new_segment.
Allocate(p, u, type) ==
  [p EXCEPT !.next = @ + 1,
            !.by_upstream = Put(@, u, [type |-> type, down |-> p.next, open |-> TRUE])]

\* _synthetic_close_other_open_blocks: the upstream's own stop will be dropped.
Others(p, u) == OpenSegments(p) \ {u}
CloseOthers(p, u) ==
  [p EXCEPT !.by_upstream =
              [v \in DOMAIN @ |-> IF v \in Others(p, u) THEN [@[v] EXCEPT !.open = FALSE]
                                  ELSE @[v]],
            !.suppressed = @ \cup Others(p, u)]
StopsOf(p, us) ==
  [k \in 1 .. Cardinality(us) |->
     Ev("content_block_stop", Segment(p, Nth(us, k)).down, "", <<>>)]

BlockStarted(p, e, thinking_enabled) ==
  IF Unwanted(e.type, thinking_enabled)
  THEN Becomes([p EXCEPT !.dropped = @ \cup {e.i}], <<>>)
  ELSE Becomes(Allocate(CloseOthers(p, e.i), e.i, e.type),
               StopsOf(p, Others(p, e.i)) \o <<[e EXCEPT !.i = p.next]>>)

\* Slip: what comes for a segment the policy closed is lost.
BlockGrownNoReopen(p, e, thinking_enabled) ==
  LET known == e.i \in DOMAIN p.by_upstream
  IN  IF e.i \in p.dropped \/ Unwanted(e.type, thinking_enabled) \/ (known /\ ~ Segment(p, e.i).open)
      THEN Becomes(p, <<>>)
      ELSE IF known THEN Becomes(p, <<[e EXCEPT !.i = Segment(p, e.i).down]>>)
      ELSE Becomes(Allocate(p, e.i, e.type),
                   <<Ev("content_block_start", p.next, e.type, <<>>), [e EXCEPT !.i = p.next]>>)

\* A delta goes to its open segment; for a closed or unknown one a segment is
\* begun, but thinking that was never begun is passed on as it is.
BlockGrown(p, e, thinking_enabled) ==
  LET known == e.i \in DOMAIN p.by_upstream
      begun == Allocate([p EXCEPT !.suppressed = @ \ {e.i}], e.i, e.type)
  IN  CASE e.i \in p.dropped \/ Unwanted(e.type, thinking_enabled) -> Becomes(p, <<>>)
        [] e.i \notin p.dropped /\ ~ Unwanted(e.type, thinking_enabled) ->
             IF known /\ Segment(p, e.i).open
             THEN Becomes(p, <<[e EXCEPT !.i = Segment(p, e.i).down]>>)
             ELSE IF known \/ e.type \in {"text", "tool_use"}
             THEN Becomes(begun, <<Ev("content_block_start", p.next, e.type, <<>>),
                                   [e EXCEPT !.i = p.next]>>)
             ELSE Becomes(p, <<e>>)

\* Slip: the end of a segment that is closed already is passed on.
BlockStoppedTwice(p, e, thinking_enabled) ==
  IF e.i \in DOMAIN p.by_upstream
  THEN Becomes([p EXCEPT !.by_upstream[e.i].open = FALSE],
               <<[e EXCEPT !.i = Segment(p, e.i).down]>>)
  ELSE Becomes(p, <<>>)

\* A stop closes an open segment; one that was closed already is dropped.
BlockStopped(p, e, thinking_enabled) ==
  LET known == e.i \in DOMAIN p.by_upstream
  IN  CASE e.i \in p.dropped -> Becomes(p, <<>>)
        [] e.i \notin p.dropped /\ e.i \in p.suppressed ->
             Becomes([p EXCEPT !.suppressed = @ \ {e.i}], <<>>)
        [] e.i \notin p.dropped \cup p.suppressed /\ known /\ Segment(p, e.i).open ->
             Becomes([p EXCEPT !.by_upstream[e.i].open = FALSE],
                     <<[e EXCEPT !.i = Segment(p, e.i).down]>>)
        [] OTHER -> Becomes(p, IF known \/ ~ thinking_enabled THEN <<>> ELSE <<e>>)

Transform(p, e, thinking_enabled) ==
  CASE e.name = "content_block_start" -> BlockStarted(p, e, thinking_enabled)
    [] e.name = "content_block_delta" -> BlockGrown(p, e, thinking_enabled)
    [] e.name = "content_block_stop" -> BlockStopped(p, e, thinking_enabled)
    [] OTHER -> Becomes(p, <<e>>)
=============================================================================
