----------------------------- MODULE AppRuntime -----------------------------
(***************************************************************************)
(* The life of the server (api/runtime.py, api/app.py) around the          *)
(* components it owns: the provider runtimes with the health of the        *)
(* models, the Claude sessions behind the chat, the chat platform with its *)
(* calls and the voice notes, and the settings the admin page edits.       *)
(*                                                                         *)
(* part: the component that is busy; the others rest, and the steps of the *)
(* startup and of the shutdown that concern only them are left out. The    *)
(* providers are busy with applies that overlap and without the probe, or  *)
(* ("health") with the probe and one apply.                                *)
(***************************************************************************)
EXTENDS ClaudeSessions, ModelHealth, VoiceFlow, AdminConfig, ChatPlatform, Delivery

CONSTANTS Parts     \* the components that are busy in turn

ASSUME PartsAssumption ==
  Parts \subseteq {"sessions", "providers", "health", "voice", "admin", "platform", "delivery"}

VARIABLES
  part,
  phase      \* where the server is, from "validating" to "exited"

chat_vars == <<voice_vars, platform_vars, delivery_vars>>
app_vars == <<part, phase, sessions_vars, provider_vars, health_vars, chat_vars, admin_vars>>

AppInit ==
  /\ part \in Parts /\ phase = "validating"
  /\ SessionsInit /\ ProvidersInit /\ HealthInit /\ VoiceInit
  /\ IF part = "admin" THEN AdminInit ELSE AdminRest
  /\ PlatformInit
  /\ IF part = "delivery" THEN DeliveryInit ELSE DeliveryRest

NotSessions == UNCHANGED <<provider_vars, health_vars, chat_vars, admin_vars>>
NotProviders == UNCHANGED <<sessions_vars, chat_vars, admin_vars>>
NotChat == UNCHANGED <<sessions_vars, provider_vars, health_vars, admin_vars>>
NotVoice == NotChat /\ UNCHANGED <<platform_vars, delivery_vars>>
NotPlatform == NotChat /\ UNCHANGED <<voice_vars, delivery_vars>>
NotDelivery == NotChat /\ UNCHANGED <<voice_vars, platform_vars>>
NotAdmin == UNCHANGED <<sessions_vars, provider_vars, health_vars, chat_vars>>
NoPart == NotAdmin /\ UNCHANGED admin_vars

Comes(next) == phase' = next /\ UNCHANGED part

-----------------------------------------------------------------------------
(* Startup.                                                                 *)

\* validate_configured_models caches the lists of the providers that answer; the
\* refresh and the probe start, the platform is connected.
Startup ==
  /\ phase = "validating" /\ Comes(IF part = "platform" THEN "starting" ELSE "running")
  /\ NotProviders
  /\ IF part \in {"providers", "health"}
     THEN \E answered \in SUBSET Providers :
            /\ part = "health" => answered = Providers
            /\ runtimes' =
                 LET started == Resolving(First, Providers)
                     listed == [started EXCEPT ![First].models = answered]
                 IN  IF answered = Providers THEN listed
                     ELSE [listed EXCEPT ![First].refresh =
                             [phase |-> "running",
                              uses |-> {Instance(First, p) : p \in Providers \ answered}]]
            /\ probe' = [probe EXCEPT !.pc = IF part = "health" THEN "sleeping" ELSE @]
            /\ UNCHANGED <<env, installed, closed, cleanups, health, requests, usage>>
     ELSE UNCHANGED <<provider_vars, health_vars>>

\* The chat has started or failed to, and what there is of it is published.
ChatStarted == phase = "starting" /\ Started /\ Comes("running") /\ NoPart

-----------------------------------------------------------------------------
(* Shutdown, step by step; the session store was flushed before the first.  *)

\* The probe is stopped first; then the platform, the sessions, the providers.
BeginShutdown ==
  /\ phase = "running" /\ UNCHANGED part
  /\ \/ part \in {"providers", "health"} /\ phase' = "stopping_probe" /\ NoPart
     \/ /\ part = "sessions" /\ phase' = "stopping_sessions" /\ NotSessions
        /\ IF stop_all.phase = "idle" THEN AskStopAll ELSE UNCHANGED sessions_vars
     \/ /\ part = "platform" /\ NoPart
        /\ phase' = IF HasRuntime THEN "stopping_platform" ELSE "stopping_limiter"
     \/ part \in {"voice", "delivery"} /\ phase' = "leaving" /\ NoPart

\* An interrupt of a server that is about to exit for a restart: the shutdown is left
\* out, and serve() ends.
Interrupted == phase = "running" /\ restart /\ Comes("exited") /\ NoPart

ChatStopped ==
  phase = "stopping_platform" /\ platform.stop # "none" /\ Comes("stopping_limiter") /\ NoPart

\* The limiter is shut down last; the event loop ends, and so does the server unless it
\* was asked to restart.
LimiterShutDown ==
  /\ phase = "stopping_limiter" /\ Comes(IF restart THEN "validating" ELSE "exited")
  /\ LifeEnds /\ NotPlatform

\* _stop_model_health_probe; the loop that is cancelled ends.
StopProbe ==
  /\ phase = "stopping_probe" /\ Comes("cleaning_providers") /\ NotProviders
  /\ probe' = [probe EXCEPT !.pc = "stopped", !.uses = NoInstance, !.left = {}]
  /\ BeginCleanup(Shutdown, First)
  /\ UNCHANGED <<env, installed, closed, health, requests, usage>>

\* Every step was waited for; the limiter goes, then the interpreter's exit handlers
\* run, and nothing else moves.
Exit ==
  /\ phase \in {"stopping_sessions", "cleaning_providers", "leaving"} /\ Comes("exited")
  /\ phase = "stopping_sessions" => stop_all.phase = "done"
  /\ phase = "cleaning_providers" => cleanups[Shutdown].phase \in {"done", "failed"}
  /\ NotSessions
  /\ IF part = "sessions" THEN KillAll ELSE UNCHANGED sessions_vars

ShutdownMoves == StopProbe \/ ChatStopped \/ LimiterShutDown \/ Exit

-----------------------------------------------------------------------------
(* The components.                                                          *)

Up == phase \notin {"validating", "exited"}

Sessions(A) == part = "sessions" /\ Up /\ UNCHANGED <<part, phase>> /\ NotSessions /\ A
Models(A) == part \in {"providers", "health"} /\ Up /\ UNCHANGED <<part, phase>> /\ NotProviders /\ A
Admin(A) == part = "admin" /\ phase = "running" /\ UNCHANGED <<part, phase>> /\ NotAdmin /\ A
Voice(A) == part = "voice" /\ Up /\ UNCHANGED <<part, phase>> /\ NotVoice /\ A

Platform(A) == part = "platform" /\ Up /\ UNCHANGED <<part, phase>> /\ NotPlatform /\ A
Call(A) == part = "delivery" /\ phase = "running" /\ UNCHANGED <<part, phase>> /\ NotDelivery /\ A

StopAllGivenUp == phase = "stopping_sessions" /\ StopAllTimesOut

SessionsStep ==
  \/ \E r \in Runs : /\ \A q \in Runs : q < r => ~ At(q, "queued")
                   /\ Sessions(RunMoves(r))
  \/ phase = "running" /\ Sessions(AskStopAll)
  \/ Sessions(StopAllMoves)
  \/ Sessions(StopAllGivenUp)

\* Runs and applies are taken in the order of their numbers. What a stream does between
\* its beginning and its end concerns the health alone.
\* Clients and the admin page reach a server that runs.
ProvidersStep ==
  \/ Models(RuntimesMove /\ UNCHANGED health_vars)
  \/ /\ phase = "running"
     /\ part = "health" => \A c \in Applies : cleanups[c].phase = "idle"
     /\ \E c \in Applies : /\ \A d \in Applies : d < c => cleanups[d].phase # "idle"
                         /\ Models(Apply(c) /\ UNCHANGED health_vars)
  \/ Models(SweepMoves)
  \/ \E r \in Requests : (requests[r].pc = "new" => phase = "running") /\ Models(RequestMoves(r))
  \/ part = "health" /\ \E r \in Requests : Models(StreamMoves(r))
  \/ part = "health" /\ \E p \in Providers : Models(CooldownEnds(p))

VoiceStep == Voice(VoiceMoves)

AdminStep == Admin(AdminMoves)

StartsChat == phase = "starting" /\ Platform(StartMoves)
StopsChat == phase = "stopping_platform" /\ Platform(StopMoves)

PlatformStep ==
  \/ StartsChat \/ ChatStarted \/ StopsChat \/ Interrupted
  \/ Platform(DiscordReady \/ DiscordEnds)
  \/ phase = "running" /\ Platform(AskRestart)

DeliveryStep == Call(DeliveryMoves)

Next ==
  \/ Startup \/ BeginShutdown \/ ShutdownMoves
  \/ SessionsStep \/ ProvidersStep \/ VoiceStep \/ AdminStep \/ PlatformStep \/ DeliveryStep

\* The shutdown goes on, its steps time out, and whatever is cleaning up does so. Each
\* of these steps is taken finitely often, so that the event loop gets to all of them.
GoesOn ==
  \/ ShutdownMoves
  \/ StartsChat \/ ChatStarted \/ StopsChat
  \/ Sessions(StopAllMoves)
  \/ Sessions(StopAllGivenUp)
  \/ \E r \in Runs : Sessions(CleansUp(r))
  \/ Models(CleanupTimesOut /\ UNCHANGED health_vars)
  \/ \E k \in DOMAIN runtimes : Models(RefreshCancelled(k) /\ UNCHANGED health_vars)
  \/ \E c \in Applies : Models(CleanupMoves(c) /\ UNCHANGED health_vars)

Fairness == WF_app_vars(GoesOn)

Spec == AppInit /\ [][Next]_app_vars /\ Fairness

-----------------------------------------------------------------------------
(* Properties of the whole.                                                 *)

\* Every Claude process has a run that answers for it, a session runs one process at a
\* time, and the manager's maps agree and forget the runs that are over, whatever is
\* cancelled, removed or stopped meanwhile (manager.py, session.py).
SessionsSound ==
  SessionsTypeOK /\ ProcessesAccounted /\ IdsAgree /\ OneProcessPerSession /\ NothingRemembered

\* Whatever applies overlap or fail, the runtime in use is one that is open, has the
\* settings written last, and no refresh asks a closed instance (admin_routes.py,
\* runtime.py, cache.py); and a request has one entry in the usage once it is over, and
\* none before (provider_execution.py).
RuntimesSound ==
  /\ RuntimesTypeOK /\ HealthTypeOK /\ InstalledUsable /\ SettingsCurrent /\ RefreshUsesOpen
  /\ UsageOnce

\* A voice note is answered, reported or cancelled, never two of them, and leaves neither
\* an entry in the registry nor a status message behind (voice_flow.py, voice.py).
VoiceSound == VoiceTypeOK /\ RegistrySound /\ NoStatusLeft /\ CancelledStaysCancelled

\* However its start goes, the chat platform only receives messages once the trees of the
\* last life are there, queues what it sends with a limiter whose worker runs in this
\* life, and leaves no open client that the shutdown has not reported (runtime.py,
\* telegram.py, discord.py, limiter.py); and a call to the platform that returns has had
\* its effect (telegram_io.py, discord_io.py).
NoClientLeft ==
  phase = "stopping_limiter" =>
    platform.client \in {"none", "closed"} \/ platform.stop \in {"raised", "timed_out"}
PlatformSound ==
  /\ PlatformTypeOK /\ DeliveryTypeOK /\ ReceivesRestored /\ LimiterOfThisLife /\ NoClientLeft
  /\ ReturnedIsDone

\* An apply that is accepted leaves settings the server can start with, gives each field
\* that was edited the value it was given, and leaves the others as they were shown
\* (persistence.py, values.py, settings.py).
SettingsKept == [][AppliesAsShown]_admin_vars

\* Again and again nothing is half done, or the server has exited: a cancelled run gets
\* the locks it waits for and is over, a cleanup ends although it waits for a refresh
\* it cancels and for every provider, and a shutdown does not hang on a component.
Settled ==
  \/ phase = "exited"
  \/ /\ phase \in {"validating", "running"}
     /\ \A r \in Runs : runs[r].cancelled => At(r, "done")
     /\ \A c \in Applies : cleanups[c].phase \notin {"discovery", "closing"}
Settles == []<>Settled
=============================================================================
