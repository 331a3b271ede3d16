-------------------------- MODULE MessagingLimiter --------------------------
(***************************************************************************)
(* The queue of outgoing messages (messaging/limiter.py): tasks with the   *)
(* same key are compacted into the newest one, which answers the futures   *)
(* of all of them, and one worker performs them.                           *)
(*                                                                         *)
(* An action is what runs between two suspensions of the event loop; the   *)
(* condition's lock is never held across one.  A call is numbered when it  *)
(* is made, its func writes its number, and shown is what the platform     *)
(* shows for each key.  Time spent in a flood pause, in the sliding window *)
(* and between retries is the time until the next step.                    *)
(***************************************************************************)
EXTENDS Naturals, Sequences

CONSTANTS
  N,    \* calls
  Keys  \* dedup keys; a task without one gets a key no other call has

ASSUME NAssumption == N \in Nat

Call == 1 .. N
MaxAttempts == 3  \* max_retries + 1
NoCall == 0

VARIABLES
  made,       \* calls made so far
  key,        \* dedup_key of each call
  forget,     \* calls of fire_and_forget, the others await enqueue
  phase,      \* where each call is
  attempts,   \* how often it was enqueued
  queue_list, \* _queue_list
  queue_map,  \* _queue_map, func = NoCall for a key that is not there
  worker,     \* where the worker is
  holding,    \* the func and the futures it popped
  shutdown,   \* _shutdown is set
  shown       \* the call whose func the platform performed last

calls == <<made, key, forget>>
vars == <<calls, phase, attempts, queue_list, queue_map, worker, holding, shutdown, shown>>

Entry == [func : {NoCall} \cup Call, futures : SUBSET Call]
NoEntry == [func |-> NoCall, futures |-> {}]
Done == {"ok", "failed"}

TypeOK ==
  /\ made \in 0 .. N
  /\ key \in [Call -> Keys]
  /\ forget \in [Call -> BOOLEAN]
  /\ phase \in [Call -> {"none", "created", "waiting", "sleeping"} \cup Done]
  /\ attempts \in [Call -> 0 .. MaxAttempts]
  /\ queue_list \in Seq(Keys)
  /\ queue_map \in [Keys -> Entry]
  /\ worker \in {"idle", "popped", "calling", "stopped"}
  /\ holding \in Entry
  /\ shutdown \in BOOLEAN
  /\ shown \in [Keys -> {NoCall} \cup Call]

\* get_instance has started the worker.
Init ==
  /\ made = 0
  /\ key \in [Call -> Keys]
  /\ forget \in [Call -> BOOLEAN]
  /\ phase = [c \in Call |-> "none"]
  /\ attempts = [c \in Call |-> 0]
  /\ queue_list = <<>>
  /\ queue_map = [k \in Keys |-> NoEntry]
  /\ worker = "idle"
  /\ holding = NoEntry
  /\ shutdown = FALSE
  /\ shown = [k \in Keys |-> NoCall]

-----------------------------------------------------------------------------
Queued == {k \in Keys : queue_map[k].func # NoCall}

\* Slip: a key that is queued is queued again.
EnqueueAgain(c) ==
  /\ queue_map' = [queue_map EXCEPT ![key[c]] =
                     [func |-> c, futures |-> @.futures \cup {c}]]
  /\ queue_list' = Append(queue_list, key[c])
  /\ phase' = [phase EXCEPT ![c] = "waiting"]
  /\ attempts' = [attempts EXCEPT ![c] = @ + 1]

\* Slip: the replaced task's futures are dropped with it.
EnqueueReplaces(c) ==
  /\ queue_map' = [queue_map EXCEPT ![key[c]] = [func |-> c, futures |-> {c}]]
  /\ queue_list' = IF key[c] \in Queued THEN queue_list ELSE Append(queue_list, key[c])
  /\ phase' = [phase EXCEPT ![c] = "waiting"]
  /\ attempts' = [attempts EXCEPT ![c] = @ + 1]

\* Slip: compaction keeps the func that is queued.
EnqueueKeepsFunc(c) ==
  /\ queue_map' = [queue_map EXCEPT ![key[c]] =
                     [func |-> IF key[c] \in Queued THEN @.func ELSE c,
                      futures |-> @.futures \cup {c}]]
  /\ queue_list' = IF key[c] \in Queued THEN queue_list ELSE Append(queue_list, key[c])
  /\ phase' = [phase EXCEPT ![c] = "waiting"]
  /\ attempts' = [attempts EXCEPT ![c] = @ + 1]

\* enqueue up to the await of its future, _enqueue_internal_multi.
Enqueue(c) ==
  /\ queue_map' = [queue_map EXCEPT ![key[c]] =
                     [func |-> c, futures |-> @.futures \cup {c}]]
  /\ queue_list' = IF key[c] \in Queued THEN queue_list ELSE Append(queue_list, key[c])
  /\ phase' = [phase EXCEPT ![c] = "waiting"]
  /\ attempts' = [attempts EXCEPT ![c] = @ + 1]

\* fire_and_forget creates a task that will enqueue.
FireAndForget(c) ==
  /\ c = made + 1
  /\ forget[c]
  /\ made' = c
  /\ phase' = [phase EXCEPT ![c] = "created"]
  /\ UNCHANGED <<key, forget, attempts, queue_list, queue_map, worker, holding,
                 shutdown, shown>>

\* An awaited call, which enqueues at once: a send has a key of its own, an
\* edit that is awaited is the first of its message (turn_intake.py:104).
AwaitEnqueue(c) ==
  /\ c = made + 1
  /\ ~ forget[c]
  /\ \A d \in 1 .. made : key[d] # key[c]
  /\ made' = c
  /\ Enqueue(c)
  /\ UNCHANGED <<key, forget, worker, holding, shutdown, shown>>

\* The task's first step; the event loop starts tasks in the order they were
\* created.
TaskStarts(c) ==
  /\ phase[c] = "created"
  /\ \A d \in 1 .. c - 1 : phase[d] # "created"
  /\ Enqueue(c)
  /\ UNCHANGED <<calls, worker, holding, shutdown, shown>>

\* Slip: every retry begins to count anew.
RetryForever(c) ==
  /\ phase[c] = "sleeping"
  /\ queue_map' = [queue_map EXCEPT ![key[c]] =
                     [func |-> c, futures |-> @.futures \cup {c}]]
  /\ queue_list' = IF key[c] \in Queued THEN queue_list ELSE Append(queue_list, key[c])
  /\ phase' = [phase EXCEPT ![c] = "waiting"]
  /\ UNCHANGED <<calls, attempts, worker, holding, shutdown, shown>>

\* The pause before the next attempt of _wrapped is over.
Retry(c) ==
  /\ phase[c] = "sleeping"
  /\ Enqueue(c)
  /\ UNCHANGED <<calls, worker, holding, shutdown, shown>>

\* The worker takes the oldest key.
Pop ==
  /\ worker = "idle"
  /\ ~ shutdown
  /\ queue_list # <<>>
  /\ holding' = queue_map[Head(queue_list)]
  /\ queue_map' = [queue_map EXCEPT ![Head(queue_list)] = NoEntry]
  /\ queue_list' = Tail(queue_list)
  /\ worker' = "popped"
  /\ UNCHANGED <<calls, phase, attempts, shutdown, shown>>

\* A flood pause is over and the window has room.
Begin ==
  /\ worker = "popped"
  /\ worker' = "calling"
  /\ UNCHANGED <<calls, phase, attempts, queue_list, queue_map, holding, shutdown, shown>>

\* func returned.
Succeeds ==
  /\ worker = "calling"
  /\ phase' = [c \in Call |-> IF c \in holding.futures THEN "ok" ELSE phase[c]]
  /\ shown' = [shown EXCEPT ![key[holding.func]] = holding.func]
  /\ worker' = "idle"
  /\ holding' = NoEntry
  /\ UNCHANGED <<calls, attempts, queue_list, queue_map, shutdown>>

\* Slip: one retry too many.
AfterErrorLate(c, transient) ==
  IF transient /\ forget[c] /\ attempts[c] <= MaxAttempts THEN "sleeping" ELSE "failed"

\* What a call does with the exception of its future: fire_and_forget retries
\* "connect", "timeout" and "broken" twice.
AfterError(c, transient) ==
  IF transient /\ forget[c] /\ attempts[c] < MaxAttempts THEN "sleeping" ELSE "failed"

\* func raised, perhaps after the platform performed the request.  A flood
\* error makes the next Begin come later.
Fails(transient, performed) ==
  /\ worker = "calling"
  /\ phase' = [c \in Call |-> IF c \in holding.futures THEN AfterError(c, transient)
                              ELSE phase[c]]
  /\ shown' = IF performed THEN [shown EXCEPT ![key[holding.func]] = holding.func] ELSE shown
  /\ worker' = "idle"
  /\ holding' = NoEntry
  /\ UNCHANGED <<calls, attempts, queue_list, queue_map, shutdown>>

\* shutdown cancels the worker wherever it waits; the futures stay as they are.
Shutdown ==
  /\ ~ shutdown
  /\ shutdown' = TRUE
  /\ worker' = "stopped"
  /\ UNCHANGED <<calls, phase, attempts, queue_list, queue_map, holding, shown>>

-----------------------------------------------------------------------------
WorkerStep ==
  Pop \/ Begin \/ Succeeds \/ \E transient, performed \in BOOLEAN : Fails(transient, performed)

CallStep(c) == TaskStarts(c) \/ Retry(c)

Next ==
  \/ \E c \in Call : FireAndForget(c) \/ AwaitEnqueue(c) \/ CallStep(c)
  \/ WorkerStep
  \/ Shutdown

Spec == Init /\ [][Next]_vars

\* The event loop resumes every ready task, pauses and windows end, and the
\* platform's library answers or raises.
FairSpec == Spec /\ WF_vars(WorkerStep) /\ \A c \in Call : WF_vars(CallStep(c))

-----------------------------------------------------------------------------
\* The list and the map hold the same keys, each once: the worker's
\* _queue_map.pop(dedup_key) finds its entry, and no entry is out of its sight.
QueueSound ==
  /\ \A i, j \in DOMAIN queue_list : queue_list[i] = queue_list[j] => i = j
  /\ \A k \in Keys : k \in Queued <=> \E i \in DOMAIN queue_list : queue_list[i] = k

\* A future that is awaited is in the one entry that will answer it: in the
\* queue, or in the worker's hands unless shutdown took them away.
NoFutureLost ==
  \A c \in Call : phase[c] = "waiting" =>
    \/ c \in queue_map[key[c]].futures /\ key[c] \in Queued
    \/ c \in holding.futures

\* Nobody was told of success before the platform showed the call's text or a
\* newer one of the message, unless the message saw a retry.
OkIsShown ==
  \A c \in Call :
    phase[c] = "ok" /\ (\A d \in Call : key[d] = key[c] => attempts[d] <= 1)
      => shown[key[c]] >= c

\* Every call that was made returns or runs out of attempts, while the worker
\* lives.
EveryCallReturns ==
  \A c \in Call : c <= made ~> phase[c] \in Done \/ shutdown

(* Claims of the documentation that the code does not keep.                 *)

\* "Uses a custom queue with task compaction (deduplication) to ensure only the
\* latest version of a message update is processed" (messaging/limiter.py:25).
MessageNeverGoesBack ==
  [][\A k \in Keys : shown'[k] >= shown[k]]_shown
=============================================================================
