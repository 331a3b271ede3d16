----------------------- MODULE MessagingLimiterProofs -----------------------
(***************************************************************************)
(* Theorems about MessagingLimiter for any number of calls and keys.       *)
(***************************************************************************)
EXTENDS MessagingLimiter, TLAPS

LEMMA Calls == /\ Call \subseteq Nat /\ NoCall \notin Call
               /\ \A c \in Call : c \in 0 .. N /\ 1 .. c - 1 \subseteq Call
  BY NAssumption DEF Call, NoCall

LEMMA Empty == NoEntry \in Entry /\ <<>> \in Seq(Keys)
  BY DEF NoEntry, Entry

\* What enqueuing a call changes has its type.
LEMMA EnqueueTypes ==
  ASSUME TypeOK, NEW c \in Call, attempts[c] < MaxAttempts, Enqueue(c)
  PROVE  /\ queue_map' \in [Keys -> Entry]
         /\ queue_list' \in Seq(Keys)
         /\ phase' \in [Call -> {"none", "created", "waiting", "sleeping"} \cup Done]
         /\ attempts' \in [Call -> 0 .. MaxAttempts]
<1>1. key[c] \in Keys /\ queue_map[key[c]] \in Entry
  BY DEF TypeOK
<1>2. [func |-> c, futures |-> queue_map[key[c]].futures \cup {c}] \in Entry
  BY <1>1 DEF Entry
<1>3. queue_map' \in [Keys -> Entry]
  BY <1>1, <1>2 DEF Enqueue, TypeOK
<1>4. queue_list' \in Seq(Keys)
  BY <1>1 DEF Enqueue, TypeOK
<1>5. attempts' \in [Call -> 0 .. MaxAttempts]
  <2>1. attempts[c] + 1 \in 0 .. MaxAttempts
    BY DEF TypeOK, MaxAttempts
  <2> QED BY <2>1 DEF Enqueue, TypeOK
<1> QED BY <1>3, <1>4, <1>5 DEF Enqueue, TypeOK

-----------------------------------------------------------------------------
(* Type correctness: a call that will be enqueued has attempts left.        *)

AttemptsLeft ==
  \A c \in Call : /\ phase[c] \in {"none", "created"} => attempts[c] = 0
                  /\ phase[c] = "sleeping" => attempts[c] < MaxAttempts
                  /\ c > made => phase[c] = "none"

\* An entry holds futures that are awaited, each future is in one entry, and
\* the worker has nothing in its hands while it waits for work.
FuturesWait ==
  /\ \A k \in Keys : \A c \in queue_map[k].futures :
       phase[c] = "waiting" /\ key[c] = k /\ c \notin holding.futures
  /\ \A c \in holding.futures : phase[c] = "waiting"
  /\ worker = "idle" => holding = NoEntry

TypeInv == TypeOK /\ AttemptsLeft /\ FuturesWait

\* A call that did not wait enters one entry.
LEMMA EnqueueWaits ==
  ASSUME TypeOK, FuturesWait, NEW c \in Call, phase[c] # "waiting", Enqueue(c),
         UNCHANGED <<key, worker, holding>>
  PROVE  FuturesWait'
<1>1. key[c] \in Keys
  BY DEF TypeOK
<1>2. ASSUME NEW k \in Keys, NEW d \in queue_map'[k].futures
      PROVE  phase'[d] = "waiting" /\ key[d] = k /\ d \notin holding.futures
  <2>1. (d = c /\ k = key[c]) \/ d \in queue_map[k].futures
    BY <1>1, <1>2 DEF Enqueue, TypeOK
  <2>2. d \in Call
    BY <1>2, <2>1 DEF TypeOK, Entry
  <2> QED BY <2>1, <2>2 DEF FuturesWait, Enqueue, TypeOK
<1>3. \A d \in holding.futures : phase'[d] = "waiting"
  BY DEF FuturesWait, Enqueue, TypeOK, Entry
<1> QED BY <1>2, <1>3 DEF FuturesWait

LEMMA TypeStep == TypeInv /\ [Next]_vars => TypeInv'
<1> SUFFICES ASSUME TypeInv, [Next]_vars PROVE TypeInv'
  OBVIOUS
<1>a. TypeOK /\ AttemptsLeft /\ FuturesWait
  BY DEF TypeInv
<1>b. /\ \A k \in Keys : queue_map[k].futures \subseteq Call
      /\ holding.func \in {NoCall} \cup Call /\ holding.futures \subseteq Call
  BY <1>a DEF TypeOK, Entry
<1>1. ASSUME NEW c \in Call, FireAndForget(c) PROVE TypeInv'
  <2>1. TypeOK'
    BY <1>1, <1>a, Calls DEF FireAndForget, TypeOK
  <2>2. AttemptsLeft'
    BY <1>1, <1>a, Calls DEF FireAndForget, TypeOK, AttemptsLeft
  <2>3. FuturesWait'
    BY <1>1, <1>a, <1>b, Calls DEF FireAndForget, TypeOK, FuturesWait, AttemptsLeft
  <2> QED BY <2>1, <2>2, <2>3 DEF TypeInv
<1>2. ASSUME NEW c \in Call, AwaitEnqueue(c) PROVE TypeInv'
  <2>1. attempts[c] = 0 /\ phase[c] = "none"
    BY <1>2, <1>a, Calls DEF AwaitEnqueue, AttemptsLeft, TypeOK
  <2>2. TypeOK'
    BY <1>2, <1>a, <2>1, EnqueueTypes, Calls DEF AwaitEnqueue, TypeOK, MaxAttempts
  <2>3. AttemptsLeft'
    BY <1>2, <1>a, <2>1, Calls DEF AwaitEnqueue, Enqueue, AttemptsLeft, TypeOK
  <2>4. FuturesWait'
    BY <1>2, <1>a, <2>1, EnqueueWaits DEF AwaitEnqueue
  <2> QED BY <2>2, <2>3, <2>4 DEF TypeInv
<1>3. ASSUME NEW c \in Call, CallStep(c) PROVE TypeInv'
  <2>1. attempts[c] < MaxAttempts /\ Enqueue(c) /\ phase[c] \in {"created", "sleeping"}
    BY <1>3, <1>a DEF CallStep, TaskStarts, Retry, AttemptsLeft, MaxAttempts
  <2>2. TypeOK'
    BY <1>3, <1>a, <2>1, EnqueueTypes DEF CallStep, TaskStarts, Retry, calls, TypeOK
  <2>3. c <= made
    BY <1>3, <1>a, Calls DEF CallStep, TaskStarts, Retry, AttemptsLeft, TypeOK
  <2>4. AttemptsLeft'
    BY <1>3, <1>a, <2>1, <2>3, Calls
       DEF CallStep, TaskStarts, Retry, calls, Enqueue, AttemptsLeft, TypeOK
  <2>5. FuturesWait'
    BY <1>3, <1>a, <2>1, EnqueueWaits DEF CallStep, TaskStarts, Retry, calls
  <2> QED BY <2>2, <2>4, <2>5 DEF TypeInv
<1>4. CASE Pop
  <2>1. Head(queue_list) \in Keys /\ Tail(queue_list) \in Seq(Keys)
    BY <1>4, <1>a DEF Pop, TypeOK
  <2>2. TypeOK'
    BY <1>4, <1>a, <2>1, Empty DEF Pop, calls, TypeOK
  <2>3. AttemptsLeft'
    BY <1>4, <1>a DEF Pop, calls, AttemptsLeft
  <2>4. FuturesWait'
    BY <1>4, <1>a, <2>1 DEF Pop, calls, FuturesWait, TypeOK, NoEntry
  <2> QED BY <2>2, <2>3, <2>4 DEF TypeInv
<1>5. CASE Begin
  BY <1>5, <1>a DEF Begin, calls, TypeInv, TypeOK, AttemptsLeft, FuturesWait
<1>6. CASE Succeeds
  <2>1. TypeOK'
    BY <1>6, <1>a, <1>b, Empty DEF Succeeds, calls, TypeOK, Done
  <2>2. AttemptsLeft'
    BY <1>6, <1>a, <1>b DEF Succeeds, calls, TypeOK, AttemptsLeft, FuturesWait
  <2>3. FuturesWait'
    BY <1>6, <1>a, <1>b DEF Succeeds, calls, FuturesWait, NoEntry
  <2> QED BY <2>1, <2>2, <2>3 DEF TypeInv
<1>7. ASSUME NEW transient \in BOOLEAN, NEW performed \in BOOLEAN, Fails(transient, performed)
      PROVE  TypeInv'
  <2>1. TypeOK'
    BY <1>7, <1>a, <1>b, Empty DEF Fails, AfterError, calls, TypeOK, Done
  <2>2. AttemptsLeft'
    BY <1>7, <1>a, <1>b DEF Fails, AfterError, calls, TypeOK, AttemptsLeft, FuturesWait
  <2>3. FuturesWait'
    BY <1>7, <1>a, <1>b DEF Fails, calls, FuturesWait, NoEntry
  <2> QED BY <2>1, <2>2, <2>3 DEF TypeInv
<1>8. CASE Shutdown
  BY <1>8, <1>a DEF Shutdown, calls, TypeInv, TypeOK, AttemptsLeft, FuturesWait
<1>9. CASE UNCHANGED vars
  BY <1>9, <1>a DEF vars, calls, TypeInv, TypeOK, AttemptsLeft, FuturesWait
<1> QED
  BY <1>1, <1>2, <1>3, <1>4, <1>5, <1>6, <1>7, <1>8, <1>9 DEF Next, WorkerStep

LEMMA InitTypes == Init => TypeInv
<1> SUFFICES ASSUME Init PROVE TypeInv
  OBVIOUS
<1>1. TypeOK
  <2>1. 0 \in 0 .. N /\ 0 \in 0 .. MaxAttempts
    BY NAssumption DEF MaxAttempts
  <2>2. queue_list \in Seq(Keys)
    BY Empty DEF Init
  <2> QED BY <2>1, <2>2, Empty DEF Init, TypeOK
<1>2. AttemptsLeft
  BY DEF Init, AttemptsLeft, MaxAttempts
<1>3. FuturesWait
  BY DEF Init, FuturesWait, NoEntry
<1> QED BY <1>1, <1>2, <1>3 DEF TypeInv

LEMMA TypeInvariant == Spec => []TypeInv
  BY InitTypes, TypeStep, PTL DEF Spec

\* Every variable keeps its type; in particular no call is enqueued more than
\* three times (fire_and_forget).
THEOREM TypeCorrect == Spec => []TypeOK
<1>1. TypeInv => TypeOK
  BY DEF TypeInv
<1> QED BY <1>1, TypeInvariant, PTL

-----------------------------------------------------------------------------
(* The list and the map.                                                    *)

\* Enqueuing a call puts its key into both, at the end of the list.
LEMMA EnqueueKeepsQueue ==
  ASSUME TypeOK, QueueSound, NEW c \in Call, Enqueue(c)
  PROVE  QueueSound'
<1>1. key[c] \in Keys /\ c # NoCall
  BY Calls DEF TypeOK
<1>2. Queued' = Queued \cup {key[c]}
  BY <1>1 DEF Enqueue, Queued, TypeOK
<1>3. CASE key[c] \in Queued
  BY <1>2, <1>3 DEF Enqueue, QueueSound
<1>4. CASE key[c] \notin Queued
  <2>1. queue_list \in Seq(Keys) /\ queue_list' = Append(queue_list, key[c])
    BY <1>4 DEF Enqueue, TypeOK
  <2>2. \A i \in DOMAIN queue_list : queue_list[i] # key[c]
    BY <1>1, <1>4 DEF QueueSound
  <2>3. /\ DOMAIN queue_list' = DOMAIN queue_list \cup {Len(queue_list) + 1}
        /\ queue_list'[Len(queue_list) + 1] = key[c]
        /\ \A i \in DOMAIN queue_list : queue_list'[i] = queue_list[i]
    BY <1>1, <2>1
  <2> QED BY <1>2, <2>2, <2>3 DEF QueueSound
<1> QED BY <1>3, <1>4

\* Taking the first key takes it from both.
LEMMA PopKeepsQueue ==
  ASSUME TypeOK, QueueSound, Pop
  PROVE  QueueSound'
<1> DEFINE h == Head(queue_list)
<1>1. /\ queue_list \in Seq(Keys) /\ queue_list # <<>> /\ h \in Keys
      /\ queue_list' = Tail(queue_list) /\ 1 \in DOMAIN queue_list /\ queue_list[1] = h
  BY DEF Pop, TypeOK
<1>2. Queued' = Queued \ {h}
  BY <1>1 DEF Pop, Queued, NoEntry, TypeOK
<1>3. /\ \A i \in DOMAIN queue_list' : i + 1 \in DOMAIN queue_list /\ i + 1 # 1
                                      /\ queue_list'[i] = queue_list[i + 1]
      /\ \A i \in DOMAIN queue_list : i # 1 => \E j \in DOMAIN queue_list' : j + 1 = i
  <2>1. \A i \in DOMAIN queue_list : i # 1 => i - 1 \in DOMAIN queue_list' /\ (i - 1) + 1 = i
    BY <1>1
  <2> QED BY <1>1, <2>1
<1>4. \A i, j \in DOMAIN queue_list' : queue_list'[i] = queue_list'[j] => i = j
  <2>1. \A i, j \in DOMAIN queue_list' : i + 1 = j + 1 => i = j
    BY <1>1
  <2> QED BY <1>3, <2>1 DEF QueueSound
<1>5. ASSUME NEW k \in Keys
      PROVE  k \in Queued' <=> \E i \in DOMAIN queue_list' : queue_list'[i] = k
  BY <1>1, <1>2, <1>3 DEF QueueSound
<1> QED BY <1>4, <1>5 DEF QueueSound

LEMMA QueueStep == TypeOK /\ QueueSound /\ [Next]_vars => QueueSound'
<1> SUFFICES ASSUME TypeOK, QueueSound, [Next]_vars PROVE QueueSound'
  OBVIOUS
<1>1. ASSUME NEW c \in Call, FireAndForget(c) PROVE QueueSound'
  BY <1>1 DEF FireAndForget, QueueSound, Queued
<1>2. ASSUME NEW c \in Call, AwaitEnqueue(c) \/ CallStep(c) PROVE QueueSound'
  BY <1>2, EnqueueKeepsQueue DEF AwaitEnqueue, CallStep, TaskStarts, Retry
<1>3. CASE Pop
  BY <1>3, PopKeepsQueue
<1>4. CASE UNCHANGED <<queue_list, queue_map>>
  BY <1>4 DEF QueueSound, Queued
<1> QED
  BY <1>1, <1>2, <1>3, <1>4
     DEF Next, WorkerStep, Begin, Succeeds, Fails, Shutdown, vars

\* The list and the map hold the same keys, each once: the worker finds what it
\* pops, and no entry is out of its sight (_worker, _enqueue_internal_multi).
THEOREM QueueCorrect == Spec => []QueueSound
<1>1. Init => QueueSound
  BY DEF Init, QueueSound, Queued, NoEntry
<1> QED BY <1>1, QueueStep, TypeCorrect, PTL DEF Spec

-----------------------------------------------------------------------------
(* No future is lost.                                                       *)

LEMMA FutureStep == TypeInv /\ NoFutureLost /\ [Next]_vars => NoFutureLost'
<1> SUFFICES ASSUME TypeInv, NoFutureLost, [Next]_vars, NEW d \in Call, phase'[d] = "waiting"
             PROVE  \/ d \in queue_map'[key'[d]].futures /\ key'[d] \in Queued'
                    \/ d \in holding'.futures
  BY DEF NoFutureLost
<1>a. TypeOK /\ FuturesWait /\ key[d] \in Keys /\ key' = key
  BY DEF TypeInv, TypeOK, Next, FireAndForget, AwaitEnqueue, CallStep, TaskStarts, Retry,
     WorkerStep, Pop, Begin, Succeeds, Fails, Shutdown, vars, calls
<1>b. phase[d] = "waiting" =>
        (d \in queue_map[key[d]].futures /\ key[d] \in Queued) \/ d \in holding.futures
  BY DEF NoFutureLost
<1>1. ASSUME NEW c \in Call, FireAndForget(c)
      PROVE  phase[d] = "waiting" /\ UNCHANGED <<queue_map, holding>>
  BY <1>1, <1>a DEF FireAndForget, TypeOK
<1>2. ASSUME NEW c \in Call, Enqueue(c), holding' = holding
      PROVE  (d \in queue_map'[key[d]].futures /\ key[d] \in Queued') \/ d \in holding'.futures
  <2>1. key[c] \in Keys /\ c # NoCall
    BY <1>a, Calls DEF TypeOK
  <2>2. d = c \/ phase[d] = "waiting"
    BY <1>2, <1>a DEF Enqueue, TypeOK
  <2> QED BY <1>2, <1>a, <1>b, <2>1, <2>2 DEF Enqueue, Queued, TypeOK
<1>3. CASE Pop
  <2>1. Head(queue_list) \in Keys /\ holding = NoEntry
    BY <1>3, <1>a DEF Pop, FuturesWait, TypeOK
  <2> QED BY <1>3, <1>a, <1>b, <2>1 DEF Pop, Queued, NoEntry, TypeOK
<1>4. ASSUME Succeeds \/ \E transient, performed \in BOOLEAN : Fails(transient, performed)
      PROVE  phase[d] = "waiting" /\ d \notin holding.futures /\ queue_map' = queue_map
  BY <1>4 DEF Succeeds, Fails, AfterError
<1>5. CASE UNCHANGED <<phase, queue_map, holding>>
  BY <1>5, <1>a, <1>b DEF Queued
<1> QED
  BY <1>1, <1>2, <1>3, <1>4, <1>5, <1>a, <1>b
     DEF Next, AwaitEnqueue, CallStep, TaskStarts, Retry, WorkerStep, Begin, Shutdown, vars, Queued

\* A future that is awaited is in the queue or in the worker's hands, over
\* compaction, retries and failures.
THEOREM FutureCorrect == Spec => []NoFutureLost
<1>1. Init => NoFutureLost
  BY DEF Init, NoFutureLost
<1> QED BY <1>1, FutureStep, TypeInvariant, PTL DEF Spec

-----------------------------------------------------------------------------
(* Success means that the text or a newer one is shown.                     *)

\* Attempts follow the phase, and calls of a key are enqueued first in the
\* order they were made.
Order ==
  /\ \A c \in Call : /\ attempts[c] = 0 => phase[c] \in {"none", "created"}
                     /\ c <= made => phase[c] # "none"
  /\ \A c, d \in Call :
       key[c] = key[d] /\ attempts[c] # 0 /\ attempts[d] = 0 => c < d

Enqueued(k, c) == c # NoCall => c \in Call /\ key[c] = k /\ attempts[c] # 0
Holds == worker \in {"popped", "calling"}

\* What is queued, held and shown for a key was enqueued with that key.
Origin ==
  /\ \A k \in Keys : Enqueued(k, queue_map[k].func) /\ Enqueued(k, shown[k])
  /\ Holds => /\ holding.func \in Call /\ attempts[holding.func] # 0
              /\ \A c \in holding.futures : key[c] = key[holding.func]

\* The message k saw no retry.
Single(k) == \A d \in Call : key[d] = k => attempts[d] <= 1

\* Shown, held and queued are in the order of the calls, each func is the
\* newest of those whose futures it answers.
Fresh(k) ==
  /\ \A c \in queue_map[k].futures : c <= queue_map[k].func
  /\ k \in Queued => shown[k] <= queue_map[k].func
  /\ Holds /\ key[holding.func] = k =>
       /\ \A c \in holding.futures : c <= holding.func
       /\ shown[k] <= holding.func
       /\ k \in Queued => holding.func <= queue_map[k].func
  /\ \A c \in Call : key[c] = k /\ phase[c] = "ok" => c <= shown[k]

AllFresh == \A k \in Keys : Single(k) => Fresh(k)

LEMMA OrderStep == TypeInv /\ Order /\ [Next]_vars => Order'
<1> SUFFICES ASSUME TypeInv, Order, [Next]_vars PROVE Order'
  OBVIOUS
<1>a. TypeOK /\ AttemptsLeft /\ FuturesWait /\ holding.futures \subseteq Call
  BY DEF TypeInv, TypeOK, Entry
<1>1. ASSUME NEW c \in Call, FireAndForget(c) PROVE Order'
  BY <1>1, <1>a, Calls DEF FireAndForget, Order, TypeOK
<1>2. ASSUME NEW c \in Call, AwaitEnqueue(c) PROVE Order'
  <2>1. \A d \in Call : d < c => key[d] # key[c]
    <3>1. \A d \in Call : d < made + 1 => d \in 1 .. made
      BY <1>a, NAssumption DEF TypeOK, Call
    <3> QED BY <1>2, <3>1 DEF AwaitEnqueue
  <2>2. attempts' = [attempts EXCEPT ![c] = @ + 1] /\ phase' = [phase EXCEPT ![c] = "waiting"]
        /\ key' = key /\ made' = c /\ c = made + 1
    BY <1>2 DEF AwaitEnqueue, Enqueue
  <2>3. attempts'[c] # 0
    BY <1>a, <2>2 DEF TypeOK
  <2>4. \A d \in Call : c # d => attempts'[d] = attempts[d] /\ phase'[d] = phase[d]
    BY <1>a, <2>2 DEF TypeOK
  <2>5. \A d \in Call : d <= c /\ d # c => d <= made
    BY <1>a, <2>2, Calls DEF TypeOK
  <2>6. \A d \in Call : d < c \/ d = c \/ c < d
    BY Calls
  <2>7. ASSUME NEW d \in Call
        PROVE  /\ attempts'[d] = 0 => phase'[d] \in {"none", "created"}
               /\ d <= made' => phase'[d] # "none"
    <3>1. CASE d = c
      BY <1>a, <2>2, <2>3, <3>1 DEF TypeOK
    <3>2. CASE d # c
      BY <2>2, <2>4, <2>5, <3>2 DEF Order
    <3> QED BY <3>1, <3>2
  <2>8. ASSUME NEW d \in Call, NEW e \in Call, key[d] = key[e], attempts'[d] # 0, attempts'[e] = 0
        PROVE  d < e
    <3>1. e # c /\ attempts[e] = 0
      BY <2>3, <2>4, <2>8
    <3>2. CASE d = c
      BY <2>1, <2>6, <2>8, <3>1, <3>2
    <3>3. CASE d # c
      BY <2>4, <2>8, <3>1, <3>3 DEF Order
    <3> QED BY <3>2, <3>3
  <2> QED BY <2>2, <2>7, <2>8 DEF Order
<1>3. ASSUME NEW c \in Call, TaskStarts(c) PROVE Order'
  <2>1. \A d \in Call : d < c => attempts[d] # 0
    <3> SUFFICES ASSUME NEW d \in Call, d < c PROVE phase[d] \notin {"none", "created"}
      BY DEF Order
    <3>1. d \in 1 .. c - 1
      BY Calls DEF Call
    <3>2. c <= made
      BY <1>3, <1>a, Calls DEF TaskStarts, AttemptsLeft, TypeOK
    <3>3. d <= made
      BY <3>2, <1>a, Calls DEF TypeOK
    <3> QED BY <1>3, <3>1, <3>3 DEF TaskStarts, Order
  <2>2. attempts' = [attempts EXCEPT ![c] = @ + 1] /\ phase' = [phase EXCEPT ![c] = "waiting"]
        /\ key' = key /\ made' = made
    BY <1>3 DEF TaskStarts, Enqueue, calls
  <2>3. attempts'[c] # 0
    BY <1>a, <2>2 DEF TypeOK
  <2>4. \A d \in Call : c # d => attempts'[d] = attempts[d] /\ phase'[d] = phase[d]
    BY <1>a, <2>2 DEF TypeOK
  <2>5. \A d \in Call : d < c \/ d = c \/ c < d
    BY Calls
  <2> QED BY <1>a, <2>1, <2>2, <2>3, <2>4, <2>5 DEF Order, TypeOK
<1>4. ASSUME NEW c \in Call, Retry(c) PROVE Order'
  <2>1. attempts[c] # 0
    BY <1>4 DEF Retry, Order
  <2>2. attempts' = [attempts EXCEPT ![c] = @ + 1] /\ phase' = [phase EXCEPT ![c] = "waiting"]
        /\ key' = key /\ made' = made
    BY <1>4 DEF Retry, Enqueue, calls
  <2>3. \A d \in Call : attempts'[d] = 0 <=> attempts[d] = 0
    BY <1>a, <2>1, <2>2 DEF TypeOK
  <2> QED BY <1>a, <2>1, <2>2, <2>3 DEF Order, TypeOK
<1>5. CASE Succeeds
  BY <1>5, <1>a DEF Succeeds, calls, Order, FuturesWait
<1>6. ASSUME NEW transient \in BOOLEAN, NEW performed \in BOOLEAN, Fails(transient, performed)
      PROVE  Order'
  BY <1>6, <1>a DEF Fails, AfterError, calls, Order, FuturesWait
<1>7. CASE UNCHANGED <<calls, phase, attempts>>
  BY <1>7 DEF calls, Order
<1> QED
  BY <1>1, <1>2, <1>3, <1>4, <1>5, <1>6, <1>7
     DEF Next, WorkerStep, CallStep, Pop, Begin, Shutdown, vars

LEMMA OriginStep == TypeInv /\ QueueSound /\ Order /\ Origin /\ [Next]_vars => Origin'
<1> SUFFICES ASSUME TypeInv, QueueSound, Order, Origin, [Next]_vars PROVE Origin'
  OBVIOUS
<1>a. TypeOK /\ AttemptsLeft /\ FuturesWait
  BY DEF TypeInv
<1>1. ASSUME NEW c \in Call, FireAndForget(c) PROVE Origin'
  BY <1>1 DEF FireAndForget, Origin, Enqueued, Holds
<1>2. ASSUME NEW c \in Call, Enqueue(c), UNCHANGED <<key, worker, holding, shown>>
      PROVE  Origin'
  <2>1. attempts' = [attempts EXCEPT ![c] = @ + 1] /\ key[c] \in Keys
    BY <1>2, <1>a DEF Enqueue, TypeOK
  <2>2. \A d \in Call : attempts[d] # 0 => attempts'[d] # 0
    BY <1>a, <2>1 DEF TypeOK
  <2>3. attempts'[c] # 0
    BY <1>a, <2>1 DEF TypeOK
  <2>4. \A k \in Keys : (queue_map'[k].func = c /\ key[c] = k) \/ queue_map'[k].func = queue_map[k].func
    BY <1>2, <1>a, <2>1 DEF Enqueue, TypeOK
  <2> QED BY <1>2, <2>2, <2>3, <2>4 DEF Origin, Enqueued, Holds
<1>3. CASE Pop
  <2> DEFINE h == Head(queue_list)
  <2>1. h \in Keys /\ h \in Queued
    <3>1. queue_list \in Seq(Keys) /\ 1 \in DOMAIN queue_list /\ queue_list[1] = h /\ h \in Keys
      BY <1>3, <1>a DEF Pop, TypeOK
    <3> QED BY <3>1 DEF QueueSound
  <2>2. holding' = queue_map[h] /\ queue_map' = [queue_map EXCEPT ![h] = NoEntry]
        /\ UNCHANGED <<key, attempts, shown>>
    BY <1>3 DEF Pop, calls
  <2>3. holding'.func \in Call /\ attempts[holding'.func] # 0 /\ key[holding'.func] = h
    BY <2>1, <2>2 DEF Origin, Enqueued, Queued
  <2>4. \A c \in holding'.futures : key[c] = h
    BY <1>a, <2>1, <2>2 DEF FuturesWait
  <2>5. \A k \in Keys : queue_map'[k].func \in {NoCall, queue_map[k].func}
    BY <1>a, <2>1, <2>2 DEF TypeOK, NoEntry
  <2> QED BY <2>2, <2>3, <2>4, <2>5 DEF Origin, Enqueued
<1>4. CASE Succeeds \/ \E transient, performed \in BOOLEAN : Fails(transient, performed)
  <2>1. Holds /\ ~ Holds' /\ UNCHANGED <<key, attempts, queue_map>>
    BY <1>4 DEF Succeeds, Fails, Holds, calls
  <2>2. shown' = shown \/ shown' = [shown EXCEPT ![key[holding.func]] = holding.func]
    BY <1>4 DEF Succeeds, Fails
  <2>3. \A k \in Keys : shown'[k] = shown[k] \/ (shown'[k] = holding.func /\ k = key[holding.func])
    <3>1. shown \in [Keys -> {NoCall} \cup Call]
      BY <1>a DEF TypeOK
    <3> QED BY <2>2, <3>1
  <2> QED BY <2>1, <2>3 DEF Origin, Enqueued
<1>5. CASE Begin \/ Shutdown \/ UNCHANGED vars
  BY <1>5 DEF Begin, Shutdown, vars, calls, Origin, Enqueued, Holds
<1> QED
  BY <1>1, <1>2, <1>3, <1>4, <1>5
     DEF Next, WorkerStep, AwaitEnqueue, CallStep, TaskStarts, Retry, calls

\* A first attempt is newer than whatever was enqueued for its message.
LEMMA EnqueueFresh ==
  ASSUME TypeInv, Order, Origin, NEW k \in Keys, Single(k) => Fresh(k), Single(k)',
         NEW c \in Call, Enqueue(c), UNCHANGED <<key, worker, holding, shown>>
  PROVE  Fresh(k)'
<1>a. TypeOK /\ FuturesWait /\ key[c] \in Keys
  BY DEF TypeInv, TypeOK
<1>1. /\ attempts' = [attempts EXCEPT ![c] = @ + 1]
      /\ phase' = [phase EXCEPT ![c] = "waiting"]
      /\ queue_map' = [queue_map EXCEPT ![key[c]] = [func |-> c, futures |-> @.futures \cup {c}]]
  BY DEF Enqueue
<1>2. \A d \in Call : attempts[d] \in Nat /\ attempts'[d] \in Nat /\ attempts[d] <= attempts'[d]
  BY <1>a, <1>1 DEF TypeOK, MaxAttempts
<1>3. Single(k)
  BY <1>2 DEF Single
<1>4. Fresh(k)
  BY <1>3
<1>5. CASE key[c] # k
  <2>1. queue_map'[k] = queue_map[k] /\ (k \in Queued' <=> k \in Queued)
    BY <1>1, <1>a, <1>5 DEF TypeOK, Queued
  <2>2. \A d \in Call : key[d] = k => phase'[d] = phase[d]
    BY <1>1, <1>a, <1>5 DEF TypeOK
  <2> QED BY <1>4, <2>1, <2>2 DEF Fresh, Holds
<1>6. CASE key[c] = k
  <2>1. attempts[c] = 0
    <3>1. attempts'[c] = attempts[c] + 1 /\ attempts'[c] <= 1
      BY <1>1, <1>a, <1>6 DEF TypeOK, Single
    <3> QED BY <3>1, <1>2
  <2>2. queue_map'[k].func = c /\ queue_map'[k].futures = queue_map[k].futures \cup {c}
    BY <1>1, <1>a, <1>6 DEF TypeOK
  <2>3. \A d \in Call : key[d] = k /\ attempts[d] # 0 => d < c
    BY <1>6, <2>1 DEF Order
  <2>4. \A d \in Call : phase[d] = "waiting" => attempts[d] # 0
    BY DEF Order
  <2>5. \A d \in queue_map[k].futures : d \in Call /\ d < c
    BY <1>a, <2>3, <2>4 DEF FuturesWait, TypeOK, Entry
  <2>6. c <= c /\ NoCall <= c /\ \A d \in Call : d < c => d <= c
    BY Calls DEF NoCall, Call
  <2>7. shown[k] <= c
    BY <2>3, <2>6 DEF Origin, Enqueued
  <2>8. Holds /\ key[holding.func] = k => holding.func <= c
    BY <2>3, <2>6 DEF Origin
  <2>9. \A d \in Call : phase'[d] = "ok" => phase[d] = "ok"
    BY <1>1, <1>a DEF TypeOK
  <2> QED BY <1>4, <2>2, <2>5, <2>6, <2>7, <2>8, <2>9 DEF Fresh, Holds
<1> QED BY <1>5, <1>6

\* What is performed is the newest text so far.
LEMMA PerformFresh ==
  ASSUME TypeInv, Origin, NEW k \in Keys, Fresh(k), worker = "calling",
         shown' \in {shown, [shown EXCEPT ![key[holding.func]] = holding.func]},
         \A c \in Call : phase'[c] = "ok" =>
           phase[c] = "ok" \/ (c \in holding.futures /\ shown' # shown),
         worker' = "idle", UNCHANGED <<key, queue_map>>
  PROVE  Fresh(k)'
<1>a. /\ shown \in [Keys -> {NoCall} \cup Call] /\ Holds /\ ~ Holds'
      /\ Call \subseteq Nat /\ shown[k] \in Nat
      /\ holding.func \in Call /\ \A c \in holding.futures : key[c] = key[holding.func]
  <2>1. shown \in [Keys -> {NoCall} \cup Call] /\ Call \subseteq Nat /\ NoCall \in Nat
    BY Calls DEF TypeInv, TypeOK, NoCall
  <2>2. Holds /\ ~ Holds'
    BY DEF Holds
  <2>3. shown[k] \in Nat
    BY <2>1
  <2> QED BY <2>1, <2>2, <2>3 DEF Origin
<1>1. /\ shown'[k] = shown[k] \/ (shown'[k] = holding.func /\ k = key[holding.func])
      /\ k = key[holding.func] /\ shown' # shown => shown'[k] = holding.func
  <2> DEFINE x == key[holding.func]
             v == holding.func
  <2>1. shown' = shown \/ shown' = [shown EXCEPT ![x] = v]
    OBVIOUS
  <2>2. shown \in [Keys -> {NoCall} \cup Call]
    BY <1>a
  <2> HIDE DEF x, v
  <2>3. /\ shown'[k] = shown[k] \/ (shown'[k] = v /\ k = x)
        /\ k = x /\ shown' # shown => shown'[k] = v
    BY <2>1, <2>2
  <2> QED BY <2>3 DEF x, v
<1>2. shown'[k] \in Nat /\ shown[k] <= shown'[k]
  <2>1. CASE shown'[k] = shown[k]
    BY <1>a, <2>1
  <2>2. CASE shown'[k] = holding.func /\ k = key[holding.func]
    BY <1>a, <2>2 DEF Fresh
  <2> QED BY <1>1, <2>1, <2>2
<1>3. k \in Queued' => shown'[k] <= queue_map'[k].func
  <2>1. queue_map'[k] = queue_map[k] /\ (k \in Queued' <=> k \in Queued)
    BY DEF Queued
  <2>2. CASE shown'[k] = shown[k]
    BY <2>1, <2>2 DEF Fresh
  <2>3. CASE shown'[k] = holding.func /\ k = key[holding.func]
    BY <1>a, <2>1, <2>3 DEF Fresh
  <2> QED BY <1>1, <2>2, <2>3
<1>4. ASSUME NEW c \in Call, key[c] = k, phase'[c] = "ok" PROVE c <= shown'[k]
  <2>1. CASE phase[c] = "ok"
    <3>1. c <= shown[k] /\ c \in Nat
      BY <1>a, <1>4, <2>1 DEF Fresh
    <3> QED BY <1>2, <1>a, <3>1
  <2>2. CASE c \in holding.futures /\ shown' # shown
    BY <1>a, <1>1, <1>4, <2>2 DEF Fresh
  <2> QED BY <1>4, <2>1, <2>2
<1> QED BY <1>a, <1>3, <1>4 DEF Fresh

LEMMA FreshStep ==
  TypeInv /\ QueueSound /\ Order /\ Origin /\ AllFresh /\ [Next]_vars => AllFresh'
<1> SUFFICES ASSUME TypeInv, QueueSound, Order, Origin, AllFresh, [Next]_vars,
                    NEW k \in Keys, Single(k)'
             PROVE  Fresh(k)'
  BY DEF AllFresh
<1>a. TypeOK /\ FuturesWait /\ (Single(k) => Fresh(k))
  BY DEF TypeInv, AllFresh
<1>1. ASSUME NEW c \in Call, AwaitEnqueue(c) \/ CallStep(c) PROVE Fresh(k)'
  BY <1>1, <1>a, EnqueueFresh DEF AwaitEnqueue, CallStep, TaskStarts, Retry, calls
<1>2. ASSUME UNCHANGED <<key, attempts>> PROVE Fresh(k)
  BY <1>2, <1>a DEF Single
<1>3. ASSUME NEW c \in Call, FireAndForget(c) PROVE Fresh(k)'
  <2>1. \A d \in Call : phase'[d] = "ok" => phase[d] = "ok"
    BY <1>3, <1>a DEF FireAndForget, TypeOK
  <2> QED BY <1>2, <1>3, <2>1 DEF FireAndForget, Fresh, Holds, Queued
<1>4. CASE Pop
  <2> DEFINE h == Head(queue_list)
  <2>1. h \in Keys /\ h \in Queued
    <3>1. queue_list \in Seq(Keys) /\ 1 \in DOMAIN queue_list /\ queue_list[1] = h /\ h \in Keys
      BY <1>4, <1>a DEF Pop, TypeOK
    <3> QED BY <3>1 DEF QueueSound
  <2>2. /\ holding' = queue_map[h] /\ queue_map' = [queue_map EXCEPT ![h] = NoEntry]
        /\ UNCHANGED <<key, attempts, phase, shown>>
    BY <1>4 DEF Pop, calls
  <2>3. Fresh(k) /\ key[holding'.func] = h
    BY <1>2, <2>1, <2>2 DEF Origin, Enqueued, Queued
  <2>4. CASE h = k
    <3>1. queue_map'[k] = NoEntry /\ k \notin Queued'
      BY <1>a, <2>2, <2>4 DEF TypeOK, NoEntry, Queued
    <3> QED BY <2>1, <2>2, <2>3, <2>4, <3>1 DEF Fresh, NoEntry
  <2>5. CASE h # k
    <3>1. queue_map'[k] = queue_map[k] /\ (k \in Queued' <=> k \in Queued)
      BY <1>a, <2>2, <2>5 DEF TypeOK, Queued
    <3> QED BY <2>2, <2>3, <2>5, <3>1 DEF Fresh
  <2> QED BY <2>4, <2>5
<1>5. CASE Begin
  BY <1>2, <1>5 DEF Begin, calls, Fresh, Holds, Queued
<1>6. CASE Succeeds
  <2>1. holding.func \in Call /\ shown \in [Keys -> {NoCall} \cup Call]
    BY <1>6, <1>a DEF Succeeds, Origin, Holds, TypeOK
  <2>2. CASE shown' # shown
    BY <1>2, <1>6, <2>2, PerformFresh DEF Succeeds, calls
  <2>3. CASE shown' = shown /\ key[holding.func] = k
    <3>1. shown[k] = holding.func
      BY <1>6, <2>1, <2>3 DEF Succeeds
    <3> QED BY <1>2, <1>6, <2>1, <2>3, <3>1 DEF Succeeds, calls, Fresh, Holds, Queued, Origin
  <2>4. CASE shown' = shown /\ key[holding.func] # k
    BY <1>2, <1>6, <2>4 DEF Succeeds, calls, Fresh, Holds, Queued, Origin
  <2> QED BY <2>2, <2>3, <2>4
<1>7. ASSUME NEW transient \in BOOLEAN, NEW performed \in BOOLEAN, Fails(transient, performed)
      PROVE  Fresh(k)'
  BY <1>2, <1>7, PerformFresh DEF Fails, AfterError, calls
<1>8. CASE Shutdown \/ UNCHANGED vars
  BY <1>2, <1>8 DEF Shutdown, vars, calls, Fresh, Holds, Queued
<1> QED
  BY <1>1, <1>3, <1>4, <1>5, <1>6, <1>7, <1>8 DEF Next, WorkerStep

\* A caller is told of success only when the message shows its text or a newer
\* one, unless the message saw a retry: compaction keeps the newest func and
\* the worker performs the funcs of a message in the order of its calls.
THEOREM SuccessCorrect == Spec => []OkIsShown
<1> DEFINE Inv == TypeInv /\ QueueSound /\ Order /\ Origin /\ AllFresh
<1>1. Init => Order /\ Origin /\ AllFresh
  <2> SUFFICES ASSUME Init PROVE Order /\ Origin /\ AllFresh
    OBVIOUS
  <2>1. Order
    BY Calls DEF Init, Order, Call
  <2>2. Origin
    BY DEF Init, Origin, Enqueued, Holds, NoEntry
  <2>3. AllFresh
    BY DEF Init, AllFresh, Fresh, Holds, Queued, NoEntry
  <2> QED BY <2>1, <2>2, <2>3
<1>2. Inv => OkIsShown
  <2> SUFFICES ASSUME Inv, NEW c \in Call, phase[c] = "ok", Single(key[c])
               PROVE  shown[key[c]] >= c
    BY DEF OkIsShown, Single
  <2>1. key[c] \in Keys
    BY DEF TypeInv, TypeOK
  <2> QED BY <2>1 DEF AllFresh, Fresh
<1> QED
  BY <1>1, <1>2, OrderStep, OriginStep, FreshStep, TypeInvariant, QueueCorrect, PTL DEF Spec
=============================================================================
