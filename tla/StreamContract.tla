--------------------------- MODULE StreamContract ---------------------------
(***************************************************************************)
(* What a client of /v1/messages relies on: the grammar of server-sent     *)
(* events that assert_anthropic_stream_contract checks on whole streams    *)
(* (core/anthropic/stream_contracts.py), as a specification of the stream  *)
(* one event at a time.  The transports are shown to implement it.         *)
(*                                                                         *)
(* The source checks that message_start is somewhere and message_stop is   *)
(* last; here message_start is also first and unique, and nothing follows  *)
(* message_stop.                                                           *)
(***************************************************************************)
EXTENDS Integers

VARIABLES
  event,   \* the last event delivered, a record [name, i, type]
  phase,   \* "new", "open" after message_start, "stopped" after message_stop
  open,    \* open_blocks: the open blocks as records [i, type]
  seen     \* seen_blocks: every index ever started

contract_vars == <<event, phase, open, seen>>

AllowedBlockStartTypes == {"text", "thinking", "tool_use", "redacted_thinking",
                           "server_tool_use", "web_search_tool_result",
                           "web_fetch_tool_result"}
\* Blocks that carry everything in their start and take no delta.
NoDeltaBlockKinds == {"redacted_thinking", "server_tool_use",
                      "web_search_tool_result", "web_fetch_tool_result"}

NoEvent == [name |-> "", i |-> -1, type |-> ""]

ContractInit == event = NoEvent /\ phase = "new" /\ open = {} /\ seen = {}

StreamStarts ==
  /\ phase = "new" /\ phase' = "open"
  /\ event'.name = "message_start"
  /\ UNCHANGED <<open, seen>>

BlockStarts ==
  /\ phase = "open"
  /\ event'.name = "content_block_start"
  /\ event'.type \in AllowedBlockStartTypes
  /\ event'.i \notin seen
  /\ open' = open \cup {[i |-> event'.i, type |-> event'.type]}
  /\ seen' = seen \cup {event'.i}
  /\ UNCHANGED phase

BlockGrows ==
  /\ phase = "open"
  /\ event'.name = "content_block_delta"
  /\ event'.type \notin NoDeltaBlockKinds
  /\ [i |-> event'.i, type |-> event'.type] \in open
  /\ UNCHANGED <<phase, open, seen>>

BlockStops ==
  /\ phase = "open"
  /\ event'.name = "content_block_stop"
  /\ \E b \in open : b.i = event'.i /\ open' = open \ {b}
  /\ UNCHANGED <<phase, seen>>

\* message_delta, error and ping: anywhere in the message.
Notice ==
  /\ phase = "open"
  /\ event'.name \in {"message_delta", "error", "ping"}
  /\ UNCHANGED <<phase, open, seen>>

StreamStops ==
  /\ phase = "open" /\ phase' = "stopped"
  /\ event'.name = "message_stop"
  /\ open = {} /\ seen # {}
  /\ UNCHANGED <<open, seen>>

ContractNext ==
  StreamStarts \/ BlockStarts \/ BlockGrows \/ BlockStops \/ Notice \/ StreamStops

ContractSpec == ContractInit /\ [][ContractNext]_contract_vars
=============================================================================
