------------------------ MODULE ProviderRateLimiter ------------------------
(***************************************************************************)
(* The limiter that the streams of one provider share                      *)
(* (providers/rate_limit.py): a semaphore caps the open streams, a strict  *)
(* sliding window (core/rate_limit.py) the attempts, and a reactive block  *)
(* holds attempts back after a 429 or a 5xx.                               *)
(*                                                                         *)
(* A request takes a slot and keeps it until it ends; within it there are  *)
(* one or more runs of execute_with_retry (a stream that broke before      *)
(* anything was sent is asked for again, one that broke later continued).  *)
(* Time is relative: times holds ages, sleep and blocked_for what is left. *)
(* An age stops at Window, where the code drops it at the next look.       *)
(***************************************************************************)
EXTENDS Naturals, Sequences, FiniteSets

CONSTANTS
  Requests,
  RateLimit,       \* acquisitions per window
  Window,
  MaxConcurrency,
  MaxRetries,      \* of one execute_with_retry
  MaxRuns,         \* runs of execute_with_retry in one request
  MaxDelay         \* longest reactive block

ASSUME RequestsAssumption == IsFiniteSet(Requests)
ASSUME LimitsAssumption ==
  /\ RateLimit \in Nat \ {0}
  /\ Window \in Nat \ {0}
  /\ MaxConcurrency \in Nat \ {0}
ASSUME RetriesAssumption ==
  /\ MaxRetries \in Nat
  /\ MaxRuns \in Nat \ {0}
  /\ MaxDelay \in Nat \ {0}

Delay == 1 .. MaxDelay  \* of a backoff with its jitter, or of map_error

VARIABLES
  phase,        \* where each request is
  sleep,        \* what is left of its sleep
  attempt,      \* attempt of execute_with_retry, from 0
  runs,         \* runs of execute_with_retry it has begun
  free,         \* _concurrency_sem's value
  waiters,      \* and those who wait for it
  times,        \* _times, the oldest first
  blocked_for,  \* until _blocked_until
  log           \* log[i]: age of the acquisition i before the last one

slots == <<free, waiters>>
vars == <<phase, sleep, attempt, runs, slots, times, blocked_for, log>>

Asleep == {"blocked", "throttled", "backoff"}
Holding == Asleep \cup {"ready", "calling", "streaming"}

TypeOK ==
  /\ phase \in [Requests -> Holding \cup {"new", "queued", "done"}]
  /\ sleep \in [Requests -> Nat]
  /\ attempt \in [Requests -> 0 .. MaxRetries]
  /\ runs \in [Requests -> 0 .. MaxRuns]
  /\ free \in 0 .. MaxConcurrency
  /\ waiters \in Seq(Requests)
  /\ times \in Seq(0 .. Window)
  /\ Len(times) <= RateLimit
  /\ blocked_for \in 0 .. MaxDelay
  /\ log \in [0 .. RateLimit -> 0 .. Window]

\* Nothing was acquired in the window before.
Init ==
  /\ phase = [r \in Requests |-> "new"]
  /\ sleep = [r \in Requests |-> 0]
  /\ attempt = [r \in Requests |-> 0]
  /\ runs = [r \in Requests |-> 0]
  /\ free = MaxConcurrency
  /\ waiters = <<>>
  /\ times = <<>>
  /\ blocked_for = 0
  /\ log = [i \in 0 .. RateLimit |-> Window]

-----------------------------------------------------------------------------
\* concurrency_slot.
TakeSlot(r) ==
  /\ phase[r] = "new"
  /\ IF free > 0
     THEN /\ free' = free - 1
          /\ phase' = [phase EXCEPT ![r] = "ready"]
          /\ runs' = [runs EXCEPT ![r] = 1]
          /\ UNCHANGED waiters
     ELSE /\ waiters' = Append(waiters, r)
          /\ phase' = [phase EXCEPT ![r] = "queued"]
          /\ UNCHANGED <<free, runs>>
  /\ UNCHANGED <<sleep, attempt, times, blocked_for, log>>

\* Slip: the slot is not given back.
LeaveKeepsSlot(r) ==
  /\ phase' = [phase EXCEPT ![r] = "done"]
  /\ UNCHANGED <<slots, runs>>

\* The slot is released, to the first waiter if there is one.
Leave(r) ==
  IF waiters = <<>>
  THEN /\ free' = free + 1
       /\ phase' = [phase EXCEPT ![r] = "done"]
       /\ UNCHANGED <<waiters, runs>>
  ELSE /\ phase' = [phase EXCEPT ![r] = "done", ![Head(waiters)] = "ready"]
       /\ runs' = [runs EXCEPT ![Head(waiters)] = 1]
       /\ waiters' = Tail(waiters)
       /\ UNCHANGED free

Older(a) == IF a < Window THEN a + 1 ELSE a

\* Slip: an acquisition is forgotten just before the window is over.
AcquireEarly(r) ==
  \E k \in 1 .. Len(times) + 1 :
    /\ \A i \in 1 .. k - 1 : times[i] >= Window - 1
    /\ k <= Len(times) => times[k] < Window - 1
    /\ LET kept == SubSeq(times, k, Len(times)) IN
       IF Len(kept) < RateLimit
       THEN /\ times' = Append(kept, 0)
            /\ log' = [i \in 0 .. RateLimit |-> IF i = 0 THEN 0 ELSE log[i - 1]]
            /\ phase' = [phase EXCEPT ![r] = "calling"]
            /\ UNCHANGED sleep
       ELSE /\ times' = kept
            /\ sleep' = [sleep EXCEPT ![r] = Window - kept[1]]
            /\ phase' = [phase EXCEPT ![r] = "throttled"]
            /\ UNCHANGED log

\* StrictSlidingWindowLimiter.acquire: the times before the k-th are dropped.
Acquire(r) ==
  \E k \in 1 .. Len(times) + 1 :
    /\ \A i \in 1 .. k - 1 : times[i] = Window
    /\ k <= Len(times) => times[k] < Window
    /\ LET kept == SubSeq(times, k, Len(times)) IN
       IF Len(kept) < RateLimit
       THEN /\ times' = Append(kept, 0)
            /\ log' = [i \in 0 .. RateLimit |-> IF i = 0 THEN 0 ELSE log[i - 1]]
            /\ phase' = [phase EXCEPT ![r] = "calling"]
            /\ UNCHANGED sleep
       ELSE /\ times' = kept
            /\ sleep' = [sleep EXCEPT ![r] = Window - kept[1]]
            /\ phase' = [phase EXCEPT ![r] = "throttled"]
            /\ UNCHANGED log

\* An attempt begins: one look at the block, then the window.
WaitIfBlocked(r) ==
  /\ \/ phase[r] = "ready"
     \/ phase[r] = "backoff" /\ sleep[r] = 0
  /\ IF blocked_for > 0
     THEN /\ sleep' = [sleep EXCEPT ![r] = blocked_for]
          /\ phase' = [phase EXCEPT ![r] = "blocked"]
          /\ UNCHANGED <<times, log>>
     ELSE Acquire(r)
  /\ UNCHANGED <<attempt, runs, slots, blocked_for>>

\* The sleep of wait_if_blocked or of acquire is over; the block is not looked
\* at again.
Wakes(r) ==
  /\ phase[r] \in {"blocked", "throttled"}
  /\ sleep[r] = 0
  /\ Acquire(r)
  /\ UNCHANGED <<attempt, runs, slots, blocked_for>>

\* fn returns, the stream is open.
Opens(r) ==
  /\ phase[r] = "calling"
  /\ phase' = [phase EXCEPT ![r] = "streaming"]
  /\ UNCHANGED <<sleep, attempt, runs, slots, times, blocked_for, log>>

\* Slip: one retry too many.
RetryOnceMore(r) ==
  /\ phase[r] = "calling"
  /\ attempt[r] <= MaxRetries
  /\ \E d \in Delay :
       /\ blocked_for' = d
       /\ sleep' = [sleep EXCEPT ![r] = d]
  /\ attempt' = [attempt EXCEPT ![r] = @ + 1]
  /\ phase' = [phase EXCEPT ![r] = "backoff"]
  /\ UNCHANGED <<runs, slots, times, log>>

\* Slip: the attempts are not counted.
RetryForever(r) ==
  /\ phase[r] = "calling"
  /\ \E d \in Delay :
       /\ blocked_for' = d
       /\ sleep' = [sleep EXCEPT ![r] = d]
  /\ phase' = [phase EXCEPT ![r] = "backoff"]
  /\ UNCHANGED <<attempt, runs, slots, times, log>>

\* fn raises a 429 or a 5xx with retries left; the new block replaces the old.
Retry(r) ==
  /\ phase[r] = "calling"
  /\ attempt[r] < MaxRetries
  /\ \E d \in Delay :
       /\ blocked_for' = d
       /\ sleep' = [sleep EXCEPT ![r] = d]
  /\ attempt' = [attempt EXCEPT ![r] = @ + 1]
  /\ phase' = [phase EXCEPT ![r] = "backoff"]
  /\ UNCHANGED <<runs, slots, times, log>>

\* execute_with_retry raised or the stream broke, and the request runs it again
\* in the same slot.
RunAgain(r) ==
  /\ phase[r] \in {"calling", "streaming"}
  /\ runs[r] < MaxRuns
  /\ runs' = [runs EXCEPT ![r] = @ + 1]
  /\ attempt' = [attempt EXCEPT ![r] = 0]
  /\ phase' = [phase EXCEPT ![r] = "ready"]
  /\ UNCHANGED <<sleep, slots, times, blocked_for, log>>

\* The request ends, with an answer or with an error; map_error blocks the
\* provider for an error that is a 429.
Ends(r) ==
  /\ phase[r] \in {"calling", "streaming"}
  /\ Leave(r)
  /\ blocked_for' \in {blocked_for} \cup Delay
  /\ UNCHANGED <<sleep, attempt, times, log>>

\* The client goes away.
Cancel(r) ==
  /\ \/ /\ phase[r] \in Holding
        /\ Leave(r)
     \/ /\ phase[r] = "queued"
        /\ \E i \in DOMAIN waiters :
             /\ waiters[i] = r
             /\ waiters' = [j \in 1 .. Len(waiters) - 1 |->
                              IF j < i THEN waiters[j] ELSE waiters[j + 1]]
        /\ phase' = [phase EXCEPT ![r] = "done"]
        /\ UNCHANGED <<free, runs>>
  /\ UNCHANGED <<sleep, attempt, times, blocked_for, log>>

\* A unit of time passes.  Nobody has to act at the instant a sleep is over.
Tick ==
  /\ sleep' = [r \in Requests |-> IF sleep[r] > 0 THEN sleep[r] - 1 ELSE 0]
  /\ times' = [i \in DOMAIN times |-> Older(times[i])]
  /\ log' = [i \in 0 .. RateLimit |-> Older(log[i])]
  /\ blocked_for' = IF blocked_for > 0 THEN blocked_for - 1 ELSE 0
  /\ UNCHANGED <<phase, attempt, runs, slots>>

Goes(r) ==
  \/ WaitIfBlocked(r)
  \/ Wakes(r)
  \/ Opens(r)
  \/ Retry(r)
  \/ RunAgain(r)
  \/ Ends(r)

Next ==
  \/ \E r \in Requests : TakeSlot(r) \/ Goes(r) \/ Cancel(r)
  \/ Tick

Spec == Init /\ [][Next]_vars

\* Time passes, a request that can go on does, and the provider answers or
\* times out.
FairSpec ==
  /\ Spec
  /\ WF_vars(Tick)
  /\ \A r \in Requests : WF_vars(Goes(r))

-----------------------------------------------------------------------------
\* The acquisition RateLimit before the last one is at least a window old: there
\* are never more than RateLimit in any interval as long as the window, however
\* sleepers wake (core/rate_limit.py:13).
WindowBound == log[RateLimit] = Window

\* Every slot is free or held by a request that has not ended, whoever is
\* cancelled or fails; while one is free nobody waits; and the waiting requests
\* are those in the queue, each once (providers/rate_limit.py:215-224).
SlotsHeld == {r \in Requests : phase[r] \in Holding}

SlotSound ==
  /\ free + Cardinality(SlotsHeld) = MaxConcurrency
  /\ waiters # <<>> => free = 0
  /\ \A r \in Requests : phase[r] = "queued" <=> \E i \in DOMAIN waiters : waiters[i] = r
  /\ \A i, j \in DOMAIN waiters : waiters[i] = waiters[j] => i = j

\* A request that asked for a slot ends: no backoff, block, window or queue
\* holds it for ever (providers/rate_limit.py:226-306).
EveryRequestReturns ==
  \A r \in Requests : phase[r] # "new" ~> phase[r] = "done"
=============================================================================
