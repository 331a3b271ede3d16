---------------------------- MODULE LocalWebTools ----------------------------
(***************************************************************************)
(* A forced web_search or web_fetch that the gateway runs itself           *)
(* (api/web_tools): the answer is a stream of three blocks, the call, its  *)
(* result and a text about it, whatever happens to the request in between. *)
(* A fetch follows redirects by itself and applies the egress policy to    *)
(* every address it goes to.                                               *)
(***************************************************************************)
EXTENDS Integers, Sequences, FiniteSets, SequencesExt

CONSTANTS
  Hosts,          \* where a URL may lead
  Permitted,      \* those the egress policy lets through
  MaxRedirects,   \* _MAX_WEB_FETCH_REDIRECTS
  MaxBytes        \* _MAX_WEB_FETCH_RESPONSE_BYTES, in chunks

ASSUME WebAssumption == Permitted \subseteq Hosts /\ {MaxRedirects, MaxBytes} \subseteq Nat

VARIABLES
  web,            \* the request
  visited,        \* the hosts it connected to
  sent            \* the events of the answer

web_vars == <<web, visited, sent>>

Nowhere == "nowhere"
NotAsked == [pc |-> "idle", tool |-> "none", at |-> Nowhere, hops |-> 0, bytes |-> 0, failed |-> FALSE]

WebInit == web = NotAsked /\ visited = <<>> /\ sent = <<>>

Opens(block) == <<"start", block>>
Closes(block) == <<"stop", block>>

\* stream_web_server_tool_response, up to its first await.
Asks(tool, host) ==
  /\ web.pc = "idle"
  /\ web' = [NotAsked EXCEPT !.tool = tool, !.at = host,
                             !.pc = IF tool = "web_search" THEN "reading" ELSE "checking"]
  /\ sent' = <<<<"message_start">>, Opens("call"), Closes("call")>>
  /\ UNCHANGED visited

Fails == web' = [web EXCEPT !.pc = "told", !.failed = TRUE] /\ UNCHANGED <<visited, sent>>

\* Slip: an address that a redirect leads to is not looked at.
EgressAllowsFirst(host, hops) == hops > 0 \/ host \in Permitted

\* get_validated_stream_addrinfos_for_egress.
EgressAllows(host, hops) == host \in Permitted

\* The connection goes to the addresses that were looked at.
Checks ==
  /\ web.pc = "checking"
  /\ IF EgressAllows(web.at, web.hops)
     THEN /\ web' = [web EXCEPT !.pc = "connected"] /\ visited' = Append(visited, web.at)
          /\ UNCHANGED sent
     ELSE Fails

\* A response with a redirect; nowhere: it does not say where to.
Redirects(to) ==
  /\ web.pc = "connected"
  /\ IF web.hops >= MaxRedirects \/ to = Nowhere THEN Fails
     ELSE /\ web' = [web EXCEPT !.pc = "checking", !.at = to, !.hops = @ + 1]
          /\ UNCHANGED <<visited, sent>>

Responds ==
  /\ web.pc = "connected" /\ web' = [web EXCEPT !.pc = "reading"] /\ UNCHANGED <<visited, sent>>

\* _read_aiohttp_body_capped and _iter_response_body_under_cap: what is over the cap is cut.
Reads(chunk) ==
  /\ web.pc = "reading" /\ web.bytes < MaxBytes
  /\ web' = [web EXCEPT !.bytes = IF @ + chunk > MaxBytes THEN MaxBytes ELSE @ + chunk]
  /\ UNCHANGED <<visited, sent>>

Finishes == web.pc = "reading" /\ web' = [web EXCEPT !.pc = "told"] /\ UNCHANGED <<visited, sent>>

\* An error or a timeout.
Breaks == web.pc \in {"checking", "connected", "reading"} /\ Fails

\* The rest of the answer.
Tells ==
  /\ web.pc = "told" /\ web' = [web EXCEPT !.pc = "done"]
  /\ sent' = sent \o <<Opens("result"), Closes("result"), Opens("text"), <<"delta", "text">>,
                       Closes("text"), <<"message_delta">>, <<"message_stop">>>>
  /\ UNCHANGED visited

WebNext ==
  \/ \E tool \in {"web_search", "web_fetch"}, host \in Hosts : Asks(tool, host)
  \/ Checks \/ Responds \/ Finishes \/ Breaks \/ Tells
  \/ \E to \in Hosts \cup {Nowhere} : Redirects(to)
  \/ \E chunk \in 1 .. 2 : Reads(chunk)

\* outbound.py:211: "each hop is DNS-pinned to validated addresses": the fetch goes only
\* where the policy allows, at most MaxRedirects times further; the answer has every
\* block once, in order and closed, also when the request failed, and a request that
\* did not fail went somewhere.
WebAnswerWhole ==
  /\ Range(visited) \subseteq Permitted /\ Len(visited) <= MaxRedirects + 1
  /\ web.bytes <= MaxBytes
  /\ web.pc = "done" =>
       /\ \E call, result, text \in DOMAIN sent :
            /\ call < result /\ result < text
            /\ sent[call] = Opens("call") /\ sent[result] = Opens("result") /\ sent[text] = Opens("text")
            /\ {i \in DOMAIN sent : sent[i][1] = "start"} = {call, result, text}
       /\ \A i \in DOMAIN sent : sent[i][1] = "start" =>
            \E j \in i + 1 .. Len(sent) : sent[j] = Closes(sent[i][2]) /\ \A k \in i + 1 .. j - 1 : sent[k][1] = "delta"
       /\ Last(sent) = <<"message_stop">>
       /\ ~ web.failed /\ web.tool = "web_fetch" => visited # <<>>
=============================================================================
