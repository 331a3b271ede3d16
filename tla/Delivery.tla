------------------------------ MODULE Delivery ------------------------------
(***************************************************************************)
(* One call of the chat's outbox (messaging/platforms/outbox.py) down to   *)
(* the platform's API: sending, editing or deleting a message at Telegram  *)
(* (telegram_io.py, with its retries) or at Discord (discord_io.py), made  *)
(* directly or through the limiter, which makes it again when nobody waits *)
(* for it (limiter.py). MessagingLimiter takes all of this as one step.    *)
(*                                                                         *)
(* A request is answered, refused, lost on its way, or its answer is lost  *)
(* ("late": it has had its effect when the client gives up waiting).       *)
(***************************************************************************)
EXTENDS Naturals

VARIABLES
  call,    \* the call, and how far it has come
  post     \* the message in the chat: its copies, what it shows, whether it is there, and
           \* whether the bot reaches its chat

delivery_vars == <<call, post>>

MaxRetries == 3    \* requests of one call to Telegram
Again == 2         \* max_retries of fire_and_forget

\* Which errors the SDK derives from NetworkError: that of a refused request too.
NetworkErrors == {"lost", "late", "cant_parse", "missing", "not_allowed", "not_modified"}
Transient == {"lost", "late"}

DeliveryInit ==
  /\ \E kind \in {"telegram", "discord"}, op \in {"send", "edit", "delete"}, queued \in BOOLEAN :
       call = [kind |-> kind, op |-> op, queued |-> queued, pc |-> "ready", attempt |-> 1,
               marked |-> TRUE, rounds |-> 0, id |-> 0, error |-> "none"]
  /\ \E parses, deletable, reached \in BOOLEAN :
       post = [copies |-> 0, text |-> "old", there |-> TRUE, parses |-> parses,
               deletable |-> deletable, reached |-> reached]

DeliveryRest ==
  /\ call = [kind |-> "telegram", op |-> "send", queued |-> FALSE, pc |-> "ready",
             attempt |-> 1, marked |-> TRUE, rounds |-> 0, id |-> 0, error |-> "none"]
  /\ post = [copies |-> 0, text |-> "old", there |-> TRUE, parses |-> TRUE,
             deletable |-> TRUE, reached |-> TRUE]

-----------------------------------------------------------------------------
(* The API.                                                                 *)

\* What a request is answered.
Verdict ==
  LET unreadable == call.kind = "telegram" /\ call.marked /\ ~post.parses
  IN  CASE call.op = "send" -> IF unreadable THEN "cant_parse" ELSE "ok"
        [] call.op = "edit" -> IF ~post.there THEN "missing"
                               ELSE IF unreadable THEN "cant_parse"
                               ELSE IF post.text = "new" /\ call.kind = "telegram" THEN "not_modified"
                               ELSE "ok"
        [] call.op = "delete" -> IF ~post.there THEN "missing"
                                 ELSE IF ~post.deletable THEN "not_allowed" ELSE "ok"

Takes ==
  CASE call.op = "send" -> [post EXCEPT !.copies = @ + 1]
    [] call.op = "edit" -> [post EXCEPT !.text = "new"]
    [] call.op = "delete" -> [post EXCEPT !.there = FALSE]

\* What the client sees of a request, and what the request does.
Answer(e) ==
  \/ e = Verdict /\ post' = IF e = "ok" THEN Takes ELSE post
  \/ e = "late" /\ Verdict = "ok" /\ post' = Takes
  \/ e \in {"lost", "forbidden"} /\ UNCHANGED post
  \/ e = "flood" /\ call.kind = "telegram" /\ UNCHANGED post
Answers == {"ok", "late", "lost", "forbidden", "flood", "cant_parse", "missing", "not_allowed", "not_modified"}

Returns(id) == [call EXCEPT !.pc = "returned", !.id = id]
Ignores(e) == [call EXCEPT !.pc = "returned", !.error = e]
RaisesError(e) == [call EXCEPT !.pc = "raised", !.error = e]

\* No application yet, or no such channel in Discord's client: an error, but for a
\* deletion at Discord.
NotReached ==
  /\ call.pc = "ready" /\ ~post.reached /\ UNCHANGED post
  /\ call' = IF call.kind = "discord" /\ call.op = "delete"
             THEN Ignores("unreached") ELSE RaisesError("unreached")

-----------------------------------------------------------------------------
(* Telegram.                                                                *)

\* The clauses of _with_retry, in their order.
Handling(e) ==
  IF e \in NetworkErrors THEN IF e = "not_modified" THEN "ignore" ELSE "again"
  ELSE IF e = "flood" THEN "wait"
  ELSE IF e \in {"missing", "not_allowed", "not_modified"} THEN "ignore"
  ELSE IF e = "cant_parse" /\ call.marked THEN "plain"
  ELSE "raise"

\* Slip: the last attempt counts as one that is followed by another; the loop runs out.
AttemptLeftOrNone == TRUE
\* attempt < max_retries - 1.
AttemptLeft == call.attempt < MaxRetries

\* _with_retry after an answer. The call behind a wait, or in plain text, is made once,
\* and what it raises goes past the clauses; behind the loop stands "return None".
After(e) ==
  IF e = "ok" THEN Returns(post'.copies)
  ELSE IF call.pc = "once_more" THEN RaisesError(e)
  ELSE CASE Handling(e) = "ignore" -> Ignores(e)
         [] Handling(e) = "again" ->
              IF ~AttemptLeft THEN RaisesError(e)
              ELSE IF call.attempt = MaxRetries THEN Ignores(e)
              ELSE [call EXCEPT !.attempt = @ + 1]
         [] Handling(e) = "wait" -> [call EXCEPT !.pc = "once_more"]
         [] Handling(e) = "plain" -> [call EXCEPT !.pc = "once_more", !.marked = FALSE]
         [] Handling(e) = "raise" -> RaisesError(e)

TelegramRequest ==
  /\ call.kind = "telegram" /\ call.pc \in {"ready", "once_more"} /\ post.reached
  /\ \E e \in Answers : Answer(e) /\ call' = After(e)

-----------------------------------------------------------------------------
(* Discord.                                                                 *)

\* An edit and a deletion fetch the message first.
DiscordFetches ==
  /\ call.kind = "discord" /\ call.pc = "ready" /\ post.reached /\ UNCHANGED post
  /\ \/ call' = IF call.op = "send" \/ post.there THEN [call EXCEPT !.pc = "found"]
                ELSE Ignores("missing")
     \/ call.op = "edit" /\ call' = RaisesError("lost")
     \/ call.op = "delete" /\ \/ call' = RaisesError("lost")
                              \/ call' = Ignores("forbidden")

\* A deletion ignores that the message went meanwhile or may not be deleted.
DiscordRequest ==
  /\ call.kind = "discord" /\ call.pc = "found"
  /\ \E e \in Answers :
       /\ Answer(e)
       /\ call' = IF e = "ok" THEN Returns(post'.copies)
                  ELSE IF call.op = "delete" /\ e \in {"missing", "not_allowed", "forbidden"}
                       THEN Ignores(e) ELSE RaisesError(e)

-----------------------------------------------------------------------------
(* The limiter, and whoever else is in the chat.                            *)

\* fire_and_forget makes the call again if the error's text sounds like the connection's.
MadeAgain ==
  /\ call.queued /\ call.pc = "raised" /\ call.error \in Transient /\ call.rounds < Again
  /\ call' = [call EXCEPT !.pc = "ready", !.attempt = 1, !.marked = TRUE, !.rounds = @ + 1,
                          !.error = "none"]
  /\ UNCHANGED post

UserDeletes ==
  /\ call.op # "send" /\ post.there /\ call.pc \notin {"returned", "raised"}
  /\ post' = [post EXCEPT !.there = FALSE] /\ UNCHANGED call

DeliveryMoves ==
  NotReached \/ TelegramRequest \/ DiscordFetches \/ DiscordRequest \/ MadeAgain \/ UserDeletes

-----------------------------------------------------------------------------
(* Properties.                                                              *)

DeliveryTypeOK ==
  /\ call.pc \in {"ready", "once_more", "found", "returned", "raised"}
  /\ call.attempt \in 1..MaxRetries /\ call.rounds \in 0..Again
  /\ call.id \in 0..post.copies /\ post.text \in {"old", "new"}

\* A call that returns has had its effect, whatever was lost or retried on the way: a
\* message that was sent is in the chat under the id that is returned, an edit is shown
\* unless somebody deleted the message, and a deleted message is gone unless the platform
\* forbids it (telegram_io.py:56, discord_io.py:44). MessagingLimiter takes it for
\* granted of a task that succeeds.
ReturnedIsDone ==
  call.pc = "returned" =>
    CASE call.op = "send" -> call.id # 0
      [] call.op = "edit" -> post.text = "new" \/ ~post.there
      [] call.op = "delete" -> ~post.there \/ call.error \in {"unreached", "not_allowed", "forbidden"}
=============================================================================
