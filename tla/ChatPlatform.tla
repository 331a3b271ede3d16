---------------------------- MODULE ChatPlatform ----------------------------
(***************************************************************************)
(* The chat platform's runtime (messaging/platforms/telegram.py and        *)
(* discord.py) in the lives of a supervised server (cli/entrypoints.py):   *)
(* api/runtime.py creates it, restores the trees of the last life, starts  *)
(* it and goes on whether or not that worked; at the end it stops it and   *)
(* the messaging limiter, whose one instance (messaging/limiter.py) is a   *)
(* class attribute and so outlives the event loop its worker runs in.      *)
(*                                                                         *)
(* A client is the SDK's: "none" before Telegram's is built, "made",       *)
(* "started" (Telegram: without polling), "connecting" (Discord: its start *)
(* task runs), "receiving", "dead" (Discord: the task ended), "closed".    *)
(***************************************************************************)
EXTENDS Naturals

CONSTANTS
  Kinds,     \* the platforms that may be configured
  Lives      \* how often the server is run

ASSUME PlatformAssumption == Kinds \subseteq {"telegram", "discord"} /\ Lives \in Nat \ {0}

VARIABLES
  life,         \* which run of the server this is
  restart,      \* the admin page asked for another one
  platform,     \* the runtime, and how far its start and stop have come
  limiter_of    \* MessagingRateLimiter._instance: the life whose loop runs its worker, or 0

platform_vars == <<life, restart, platform, limiter_of>>

MaxAttempts == 3
NoLife == 0

\* kind "disabled": no runtime could be created. limiter: the life of the instance the
\* runtime got.
FreshPlatform ==
  [kind |-> "disabled", start |-> "none", client |-> "none", connected |-> FALSE,
   attempts |-> 0, restored |-> FALSE, limiter |-> NoLife, stop |-> "none"]

PlatformInit ==
  life = 1 /\ restart = FALSE /\ platform = FreshPlatform /\ limiter_of = NoLife

SameLife == UNCHANGED <<life, restart>>
Becomes(p) == platform' = p /\ SameLife /\ UNCHANGED limiter_of
Starting(kind, at) == platform.kind = kind /\ platform.start = at

-----------------------------------------------------------------------------
(* Starting. What it raises is logged and startup goes on without the chat.  *)

\* create_messaging_components and what is made before the runtime is kept.
Compose ==
  /\ platform.start = "none"
  /\ \/ Becomes([platform EXCEPT !.start = "failed"])
     \/ \E kind \in Kinds :
          Becomes([platform EXCEPT !.kind = kind, !.start = "restoring",
                                   !.client = IF kind = "discord" THEN "made" ELSE "none"])

\* Slip: what cannot be restored is left behind, and the platform started.
RestoreOrGoOn ==
  /\ platform.start = "restoring"
  /\ \E restored \in BOOLEAN : Becomes([platform EXCEPT !.restored = restored, !.start = "trying"])

\* _restore_tree_state raises, or the handler is set and the platform started.
Restore ==
  /\ platform.start = "restoring"
  /\ \/ Becomes([platform EXCEPT !.restored = TRUE, !.start = "trying"])
     \/ Becomes([platform EXCEPT !.start = "failed"])

\* MessagingRateLimiter.get_instance.
GetInstance == IF limiter_of = NoLife THEN life ELSE limiter_of

\* One of the attempts to initialize, start and poll. An application that was started
\* does not start twice: once polling has failed, so do the attempts that are left.
TryTelegram ==
  /\ Starting("telegram", "trying")
  /\ \/ /\ platform.client # "started"
        /\ Becomes([platform EXCEPT !.client = "receiving", !.connected = TRUE, !.start = "polling"])
     \/ \E client \in IF platform.client = "started" THEN {"started"} ELSE {"made", "started"} :
          Becomes([platform EXCEPT
                     !.client = client, !.attempts = @ + 1,
                     !.start = IF platform.attempts + 1 = MaxAttempts THEN "failed" ELSE @])

\* Only then does Telegram's runtime get a limiter; messages that have come already are
\* answered without one.
TelegramStarted ==
  /\ Starting("telegram", "polling") /\ SameLife
  /\ limiter_of' = GetInstance
  /\ platform' = [platform EXCEPT !.limiter = GetInstance, !.start = "up"]

\* Discord's has it before its client starts in a task of its own.
StartDiscord ==
  /\ Starting("discord", "trying") /\ SameLife
  /\ limiter_of' = GetInstance
  /\ platform' = [platform EXCEPT !.limiter = GetInstance, !.client = "connecting",
                                  !.start = "waiting"]

\* It waits for the client, for 30 seconds at most; the task is left running.
DiscordStarted ==
  /\ Starting("discord", "waiting")
  /\ Becomes([platform EXCEPT !.start = IF platform.connected THEN "up" ELSE "failed"])

\* on_ready, in time or not; the task may end for good, and close the client or not.
DiscordReady ==
  /\ platform.client = "connecting"
  /\ Becomes([platform EXCEPT !.client = "receiving", !.connected = TRUE])
DiscordEnds ==
  /\ platform.kind = "discord" /\ platform.client \in {"connecting", "receiving"}
  /\ platform.stop = "none"
  /\ \E client \in {"dead", "closed"} : Becomes([platform EXCEPT !.client = client])

StartMoves ==
  Compose \/ Restore \/ TryTelegram \/ TelegramStarted \/ StartDiscord \/ DiscordStarted
Started == platform.start \in {"up", "failed"}

-----------------------------------------------------------------------------
(* Stopping.                                                                *)

\* Slip: only a platform that was started is stopped.
StoppedIfUp == platform.start = "up"

\* messaging_runtime is set before the start, so that a start that failed is stopped.
HasRuntime == platform.kind # "disabled"

\* What stop comes to: the client, and "done" or, for best_effort to log, "raised".
Stopped(client, how) ==
  Becomes([platform EXCEPT !.client = client, !.stop = how,
                           !.connected = @ /\ how # "done"])

\* Telegram: an updater that does not poll refuses to be stopped, and the rest is left.
StopTelegram ==
  /\ platform.kind = "telegram"
  /\ CASE platform.client = "none" -> Stopped("none", "done")
       [] platform.client = "receiving" ->
            \/ Stopped("closed", "done")
            \/ \E client \in {"receiving", "started"} : Stopped(client, "raised")
       [] OTHER -> Stopped(platform.client, "raised")

\* Slip: a client that has not connected is not closed.
StopDiscordConnected ==
  /\ platform.kind = "discord"
  /\ \/ Stopped(IF platform.connected THEN "closed" ELSE platform.client, "done")
     \/ platform.client # "closed" /\ \E client \in {platform.client, "closed"} : Stopped(client, "raised")

\* Discord: the client is closed, connected or not, and its start task waited for, which
\* may raise what ended it.
StopDiscord ==
  /\ platform.kind = "discord"
  /\ \/ Stopped("closed", "done")
     \/ platform.client # "closed" /\ \E client \in {platform.client, "closed"} : Stopped(client, "raised")

\* best_effort gives up after five seconds, wherever the stop is.
StopTimesOut ==
  \E client \in {platform.client, "closed"} \cup
               (IF platform.kind = "telegram" /\ platform.client = "receiving" THEN {"started"} ELSE {}) :
    Becomes([platform EXCEPT !.client = client, !.stop = "timed_out"])

StopMoves == platform.stop = "none" /\ (StopTelegram \/ StopDiscord \/ StopTimesOut)

\* Slip: an instance whose worker does not end in time is kept.
ForgottenInTime(inTime) == IF inTime THEN NoLife ELSE limiter_of

\* shutdown_instance: the worker ends in time or not, the instance is forgotten.
Forgotten(inTime) == NoLife

\* The event loop ends with what is left; serve() runs another server if it was asked to.
LifeEnds ==
  /\ \E inTime \in BOOLEAN : limiter_of' = Forgotten(inTime)
  /\ platform' = FreshPlatform
  /\ life' = IF restart THEN life + 1 ELSE life
  /\ restart' = FALSE

\* request_restart.
AskRestart ==
  /\ ~restart /\ life < Lives
  /\ restart' = TRUE /\ UNCHANGED <<life, platform, limiter_of>>

-----------------------------------------------------------------------------
(* Properties.                                                              *)

PlatformType ==
  [kind : Kinds \cup {"disabled"}, connected : BOOLEAN, restored : BOOLEAN,
   start : {"none", "restoring", "trying", "polling", "waiting", "up", "failed"},
   client : {"none", "made", "started", "connecting", "receiving", "dead", "closed"},
   attempts : 0..MaxAttempts, limiter : 0..Lives,
   stop : {"none", "done", "raised", "timed_out"}]
PlatformTypeOK ==
  /\ life \in 1..Lives /\ restart \in BOOLEAN /\ limiter_of \in 0..Lives
  /\ platform \in PlatformType

\* A message is never handled before the trees of the last life are there: a client that
\* receives belongs to a runtime that restored them, however late it connects
\* (runtime.py:338, discord.py:60).
ReceivesRestored == platform.client = "receiving" => platform.restored

\* What a runtime queues is served in this life: its limiter is the class's one instance
\* and its worker runs in this event loop, not in that of a life that is over
\* (limiter.py:47, 212).
LimiterOfThisLife ==
  platform.limiter # NoLife => platform.limiter = life /\ limiter_of = life
=============================================================================
