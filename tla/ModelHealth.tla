----------------------------- MODULE ModelHealth -----------------------------
(***************************************************************************)
(* What the server knows of its models: the health registry                *)
(* (api/model_health.py), the sweep that probes them                       *)
(* (api/model_health_probe.py, api/runtime.py), the requests that stream   *)
(* from a provider and record their outcome (api/provider_execution.py),   *)
(* and the usage records (api/usage.py). One model stands for a provider's *)
(* models.                                                                 *)
(***************************************************************************)
EXTENDS ProviderRuntime

CONSTANTS
  Requests,      \* requests to the server
  Good           \* the versions of the settings that the upstream accepts

ASSUME HealthAssumption == IsFiniteSet(Requests) /\ Good \subseteq Nat

VARIABLES
  health,        \* ModelHealth._records
  probe,         \* the loop that sweeps over the models
  requests,      \* one provider stream per request
  usage          \* Usage._records, by request

health_vars == <<health, probe, requests, usage>>

NoInstance == <<0, "none", 0>>
NoRequest == [pc |-> "new", provider |-> "none", uses |-> NoInstance, chunks |-> FALSE]

HealthTypeOK ==
  /\ \A p \in Providers : health[p] \in {"unknown", "healthy", "unhealthy"}
  /\ probe.pc \in {"off", "listing", "probing", "sleeping", "stopped"}
  /\ probe.left \subseteq Providers
  /\ \A r \in Requests : requests[r].pc \in {"new", "streaming", "stalled", "ended"}

HealthInit ==
  /\ health = [p \in Providers |-> "unknown"]
  /\ probe = [pc |-> "off", left |-> {}, uses |-> NoInstance]
  /\ requests = [r \in Requests |-> NoRequest]
  /\ usage = [r \in Requests |-> <<>>]

Mark(p, status) == health' = [health EXCEPT ![p] = status]

\* status(): an unhealthy model becomes unknown when its cooldown is over.
CooldownEnds(p) ==
  /\ health[p] = "unhealthy"
  /\ health' = [health EXCEPT ![p] = "unknown"]
  /\ UNCHANGED <<probe, requests, usage, provider_vars>>

-----------------------------------------------------------------------------
(* _run_health_probe_loop: the first runtime, over and over.                *)

\* The lists that are missing are queried first, one after the other here.
SweepBegins ==
  /\ probe.pc = "sleeping"
  /\ runtimes' = Resolving(First, Providers \ runtimes[First].models)
  /\ probe' = [probe EXCEPT !.pc = "listing", !.left = {}]
  /\ UNCHANGED <<env, installed, closed, cleanups, health, requests, usage>>

SweepLists ==
  /\ probe.pc = "listing"
  /\ \E answered \in SUBSET {i[2] : i \in Cached(First) \ closed} :
       /\ runtimes' = [runtimes EXCEPT ![First].models = @ \cup answered]
       /\ probe' = [probe EXCEPT !.pc = "probing",
                                 !.left = runtimes[First].models \cup answered]
  /\ UNCHANGED <<env, installed, closed, cleanups, health, requests, usage>>

ProbeBegins(p) ==
  /\ probe.pc = "probing" /\ p \in probe.left /\ probe.uses = NoInstance
  /\ runtimes' = Resolving(First, {p})
  /\ probe' = [probe EXCEPT !.uses = Instance(First, p)]
  /\ UNCHANGED <<env, installed, closed, cleanups, health, requests, usage>>

ProbeEnds ==
  LET i == probe.uses
      works == runtimes[First].settings \in Good /\ i \notin closed
  IN  /\ probe.pc = "probing" /\ i # NoInstance
      /\ Mark(i[2], IF works THEN "healthy" ELSE "unhealthy")
      /\ probe' = [probe EXCEPT !.left = @ \ {i[2]}, !.uses = NoInstance]
      /\ UNCHANGED <<requests, usage, provider_vars>>

SweepEnds ==
  /\ probe.pc = "probing" /\ probe.left = {}
  /\ probe' = [probe EXCEPT !.pc = "sleeping"]
  /\ UNCHANGED <<health, requests, usage, provider_vars>>

SweepMoves == SweepBegins \/ SweepLists \/ (\E p \in Providers : ProbeBegins(p)) \/ ProbeEnds \/ SweepEnds

-----------------------------------------------------------------------------
(* A request: ProviderExecutionService.stream.                              *)

Arrives(r, p) ==
  /\ requests[r].pc = "new"
  /\ runtimes' = Resolving(installed, {p})
  /\ requests' = [requests EXCEPT ![r] = [pc |-> "streaming", provider |-> p, chunks |-> FALSE,
                                          uses |-> Instance(installed, p)]]
  /\ UNCHANGED <<env, installed, closed, cleanups, health, probe, usage>>

\* _on_first_chunk; an adapter turns the upstream's error into a chunk as well.
Streams(r) ==
  /\ requests[r].pc = "streaming" /\ ~ requests[r].chunks
  /\ requests' = [requests EXCEPT ![r].chunks = TRUE]
  /\ Mark(requests[r].provider, "healthy")
  /\ UNCHANGED <<probe, usage, provider_vars>>

\* _on_idle_timeout: the watchdog's own error chunks follow.
Stalls(r) ==
  /\ requests[r].pc = "streaming"
  /\ requests' = [requests EXCEPT ![r].pc = "stalled"]
  /\ Mark(requests[r].provider, "unhealthy")
  /\ UNCHANGED <<probe, usage, provider_vars>>

Recorded(r, status) == usage' = [usage EXCEPT ![r] = Append(@, status)]

\* Slip: the flag is not looked at.
FinallyRecordsAlways(r, recorded) == TRUE

\* _record_usage's finally; recorded: the except clause came first.
FinallyRecords(r, recorded) == ~ recorded

\* The stream ends, or its reader goes away.
Ends(r) ==
  /\ requests[r].pc \in {"streaming", "stalled"}
  /\ requests' = [requests EXCEPT ![r].pc = "ended"]
  /\ Recorded(r, IF requests[r].pc = "stalled" THEN "error" ELSE "ok")
  /\ UNCHANGED <<health, probe, provider_vars>>

\* The stream raises: a closed client, an exception the adapter let through.
Raises(r) ==
  /\ requests[r].pc = "streaming"
  /\ requests' = [requests EXCEPT ![r].pc = "ended"]
  /\ Mark(requests[r].provider, "unhealthy")
  /\ usage' = [usage EXCEPT ![r] = @ \o <<"error">> \o
                                   (IF FinallyRecords(r, TRUE) THEN <<"error">> ELSE <<>>)]
  /\ UNCHANGED <<probe, provider_vars>>

RequestMoves(r) == (\E p \in Providers : Arrives(r, p)) \/ Ends(r) \/ Raises(r)
StreamMoves(r) == Streams(r) \/ Stalls(r)

-----------------------------------------------------------------------------
(* Properties.                                                              *)

\* "Record exactly one usage entry per request": none before its stream ended, one
\* afterwards, however it ended.
UsageOnce == \A r \in Requests : Len(usage[r]) = IF requests[r].pc = "ended" THEN 1 ELSE 0
=============================================================================
