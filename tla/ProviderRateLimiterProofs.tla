--------------------- MODULE ProviderRateLimiterProofs ---------------------
(***************************************************************************)
(* Proofs about ProviderRateLimiter: its types, the bound on every window, *)
(* and the account of the slots.                                           *)
(***************************************************************************)
EXTENDS ProviderRateLimiter, FiniteSetTheorems, TLAPS

-----------------------------------------------------------------------------
\* What the pruned times are: a suffix of times, with its elements.
LEMMA Suffix ==
  ASSUME NEW S, NEW s \in Seq(S), NEW k \in 1 .. Len(s) + 1
  PROVE  /\ SubSeq(s, k, Len(s)) \in Seq(S)
         /\ Len(SubSeq(s, k, Len(s))) = Len(s) - k + 1
         /\ \A i \in 1 .. Len(s) - k + 1 : SubSeq(s, k, Len(s))[i] = s[i + k - 1]
  OBVIOUS

\* The first waiter leaves the queue.
LEMMA TailSeq ==
  ASSUME NEW S, NEW s \in Seq(S), s # <<>>
  PROVE  /\ Tail(s) \in Seq(S)
         /\ Head(s) \in S
         /\ Head(s) = s[1]
         /\ Len(s) > 0
         /\ Len(Tail(s)) = Len(s) - 1
         /\ \A i \in 1 .. Len(s) - 1 : Tail(s)[i] = s[i + 1]
  OBVIOUS

\* A cancelled waiter is taken out of the queue.
LEMMA WithoutSeq ==
  ASSUME NEW S, NEW s \in Seq(S), NEW i \in DOMAIN s,
         NEW t, t = [j \in 1 .. Len(s) - 1 |-> IF j < i THEN s[j] ELSE s[j + 1]]
  PROVE  t \in Seq(S) /\ Len(t) = Len(s) - 1
<1>1. Len(s) - 1 \in Nat  OBVIOUS
<1>2. \A j \in 1 .. Len(s) - 1 : (IF j < i THEN s[j] ELSE s[j + 1]) \in S  OBVIOUS
<1>3. t \in [1 .. Len(s) - 1 -> S]  BY <1>2
<1> QED  BY <1>1, <1>3

\* An element of a sequence has the sequence's type.
LEMMA ElementOf ==
  ASSUME NEW S, NEW s \in Seq(S), NEW i \in 1 .. Len(s)
  PROVE  s[i] \in S
  OBVIOUS

\* What is done to each element keeps the sequence.
LEMMA AgedSeq ==
  ASSUME NEW S, NEW n \in Nat, NEW t, DOMAIN t = 1 .. n,
         t = [i \in 1 .. n |-> t[i]], \A i \in 1 .. n : t[i] \in S
  PROVE  t \in Seq(S) /\ Len(t) = n
<1>1. t \in [1 .. n -> S]  OBVIOUS
<1> QED  BY <1>1

\* Ageing keeps an age within the window.
LEMMA OlderType ==
  ASSUME NEW a \in 0 .. Window
  PROVE  Older(a) \in 0 .. Window
  BY LimitsAssumption DEF Older

\* An acquisition, granted or put off, keeps the types of what it changes.
LEMMA AcquireType ==
  ASSUME TypeOK, NEW r \in Requests, Acquire(r)
  PROVE  /\ phase' \in [Requests -> Holding \cup {"new", "queued", "done"}]
         /\ sleep' \in [Requests -> Nat]
         /\ times' \in Seq(0 .. Window)
         /\ Len(times') <= RateLimit
         /\ log' \in [0 .. RateLimit -> 0 .. Window]
<1>1. PICK k \in 1 .. Len(times) + 1 : Acquire(r)!(k)
  BY DEF Acquire
<1> DEFINE kept == SubSeq(times, k, Len(times))
<1>2. /\ kept \in Seq(0 .. Window)
      /\ Len(kept) = Len(times) - k + 1
      /\ \A i \in 1 .. Len(kept) : kept[i] = times[i + k - 1]
  <2>1. times \in Seq(0 .. Window)  BY DEF TypeOK
  <2> QED  BY <2>1, Suffix
<1>3. RateLimit \in Nat /\ Window \in Nat /\ 0 < RateLimit /\ 0 < Window
  BY LimitsAssumption
<1>4. CASE Len(kept) < RateLimit
  <2>1. times' = Append(kept, 0) /\ sleep' = sleep
        /\ phase' = [phase EXCEPT ![r] = "calling"]
        /\ log' = [i \in 0 .. RateLimit |-> IF i = 0 THEN 0 ELSE log[i - 1]]
    BY <1>1, <1>4
  <2>2. times' \in Seq(0 .. Window) /\ Len(times') = Len(kept) + 1
    <3> HIDE DEF kept
    <3>1. kept \in Seq(0 .. Window) /\ 0 \in 0 .. Window  BY <1>2, <1>3
    <3>2. Append(kept, 0) \in Seq(0 .. Window)  BY <3>1
    <3>3. Len(Append(kept, 0)) = Len(kept) + 1  BY <3>1
    <3> QED  BY <2>1, <3>2, <3>3
  <2>3. log' \in [0 .. RateLimit -> 0 .. Window]
    <3>1. \A i \in 0 .. RateLimit : (IF i = 0 THEN 0 ELSE log[i - 1]) \in 0 .. Window
      BY <1>3 DEF TypeOK
    <3> QED  BY <2>1, <3>1
  <2>4. Len(times') <= RateLimit
    <3> HIDE DEF kept
    <3>1. Len(kept) \in Nat  BY <1>2
    <3> QED  BY <1>3, <1>4, <2>2, <3>1
  <2> QED  BY <2>1, <2>2, <2>3, <2>4 DEF TypeOK, Holding, Asleep
<1>5. CASE ~ (Len(kept) < RateLimit)
  <2>1. times' = kept /\ log' = log
        /\ sleep' = [sleep EXCEPT ![r] = Window - kept[1]]
        /\ phase' = [phase EXCEPT ![r] = "throttled"]
    BY <1>1, <1>5
  <2>2. kept[1] \in 0 .. Window
    <3> HIDE DEF kept
    <3> QED  BY <1>2, <1>3, <1>5
  <2>3. Window - kept[1] \in Nat
    <3> HIDE DEF kept
    <3> QED  BY <1>3, <2>2
  <2>4. Len(times') <= RateLimit
    <3> HIDE DEF kept
    <3>1. Len(times) \in Nat /\ Len(times) <= RateLimit  BY DEF TypeOK
    <3> QED  BY <1>2, <1>3, <2>1, <3>1
  <2> QED  BY <1>2, <2>1, <2>3, <2>4 DEF TypeOK, Holding, Asleep
<1> QED  BY <1>4, <1>5

\* A request that leaves keeps the types of what it changes.
LEMMA LeaveType ==
  ASSUME TypeOK, NEW r \in Requests, Leave(r),
         waiters = <<>> => free < MaxConcurrency
  PROVE  /\ phase' \in [Requests -> Holding \cup {"new", "queued", "done"}]
         /\ runs' \in [Requests -> 0 .. MaxRuns]
         /\ free' \in 0 .. MaxConcurrency
         /\ waiters' \in Seq(Requests)
<1>1. CASE waiters = <<>>
  <2>1. MaxConcurrency \in Nat  BY LimitsAssumption
  <2>2. free \in 0 .. MaxConcurrency /\ free < MaxConcurrency  BY <1>1 DEF TypeOK
  <2>3. free' = free + 1 /\ waiters' = waiters /\ runs' = runs
        /\ phase' = [phase EXCEPT ![r] = "done"]
    BY <1>1 DEF Leave
  <2>4. free' \in 0 .. MaxConcurrency  BY <2>1, <2>2, <2>3
  <2> QED  BY <2>3, <2>4 DEF TypeOK, Holding, Asleep
<1>2. CASE waiters # <<>>
  <2>1. Tail(waiters) \in Seq(Requests) /\ Head(waiters) \in Requests
    BY <1>2, TailSeq DEF TypeOK
  <2>2. 1 \in 0 .. MaxRuns  BY RetriesAssumption
  <2> QED  BY <1>2, <2>1, <2>2 DEF TypeOK, Leave, Holding, Asleep
<1> QED  BY <1>1, <1>2

-----------------------------------------------------------------------------
\* A request that begins to hold a slot is one more that does, and a request
\* that ends one less.
LEMMA Holders ==
  ASSUME NEW r \in Requests
  PROVE  /\ IsFiniteSet(SlotsHeld)
         /\ Cardinality(SlotsHeld) \in Nat
         /\ r \notin SlotsHeld => Cardinality(SlotsHeld \cup {r}) = Cardinality(SlotsHeld) + 1
         /\ r \in SlotsHeld => /\ Cardinality(SlotsHeld \ {r}) = Cardinality(SlotsHeld) - 1
                               /\ Cardinality(SlotsHeld) > 0
<1>1. IsFiniteSet(SlotsHeld)
  BY RequestsAssumption, FS_Subset DEF SlotsHeld
<1>2. Cardinality(SlotsHeld) \in Nat  BY <1>1, FS_CardinalityType
<1>3. r \notin SlotsHeld => Cardinality(SlotsHeld \cup {r}) = Cardinality(SlotsHeld) + 1
  BY <1>1, FS_AddElement
<1>4. r \in SlotsHeld => Cardinality(SlotsHeld \ {r}) = Cardinality(SlotsHeld) - 1
  BY <1>1, FS_RemoveElement
<1>5. r \in SlotsHeld => Cardinality(SlotsHeld) > 0
  <2>1. r \in SlotsHeld => SlotsHeld # {}  OBVIOUS
  <2> QED  BY <1>1, <1>2, <2>1, FS_EmptySet
<1> QED  BY <1>1, <1>2, <1>3, <1>4, <1>5

\* A step that moves no request between holding, waiting and neither keeps the
\* account of the slots.
LEMMA SamePlaces ==
  ASSUME SlotSound, slots' = slots,
         \A q \in Requests : /\ phase'[q] \in Holding <=> phase[q] \in Holding
                             /\ phase'[q] = "queued" <=> phase[q] = "queued"
  PROVE  SlotSound'
<1>1. SlotsHeld' = SlotsHeld  BY DEF SlotsHeld
<1>2. free' = free /\ waiters' = waiters  BY DEF slots
<1> QED  BY <1>1, <1>2 DEF SlotSound

\* Taking a slot, or queueing for one, keeps it.
LEMMA TakeSound ==
  ASSUME TypeOK, SlotSound, NEW r \in Requests, TakeSlot(r)
  PROVE  SlotSound'
<1>1. phase[r] = "new" /\ r \notin SlotsHeld
  BY DEF TakeSlot, SlotsHeld, Holding, Asleep
<1>2. CASE free > 0
  <2>1. free' = free - 1 /\ waiters' = waiters /\ phase' = [phase EXCEPT ![r] = "ready"]
    BY <1>2 DEF TakeSlot
  <2>2. SlotsHeld' = SlotsHeld \cup {r}
    BY <2>1 DEF SlotsHeld, TypeOK, Holding, Asleep
  <2>3. free \in Nat /\ MaxConcurrency \in Nat  BY LimitsAssumption DEF TypeOK
  <2>4. free' + Cardinality(SlotsHeld') = MaxConcurrency
    BY <1>1, <2>1, <2>2, <2>3, Holders DEF SlotSound
  <2>5. waiters' = <<>>  BY <1>2, <2>1 DEF SlotSound
  <2>6. \A q \in Requests : phase'[q] = "queued" <=> phase[q] = "queued"
    BY <1>1, <2>1 DEF TypeOK
  <2> QED  BY <2>1, <2>4, <2>5, <2>6 DEF SlotSound
<1>3. CASE ~ (free > 0)
  <2>1. free' = free /\ waiters' = Append(waiters, r)
        /\ phase' = [phase EXCEPT ![r] = "queued"]
    BY <1>3 DEF TakeSlot
  <2>2. free = 0  BY <1>3, LimitsAssumption DEF TypeOK
  <2>3. SlotsHeld' = SlotsHeld
    BY <1>1, <2>1 DEF SlotsHeld, TypeOK, Holding, Asleep
  <2>4. /\ waiters \in Seq(Requests)
        /\ Len(waiters) \in Nat
        /\ DOMAIN waiters' = 1 .. Len(waiters) + 1
        /\ \A i \in DOMAIN waiters : waiters'[i] = waiters[i] /\ i <= Len(waiters)
        /\ DOMAIN waiters = 1 .. Len(waiters)
        /\ waiters'[Len(waiters) + 1] = r
    <3>1. waiters \in Seq(Requests)  BY DEF TypeOK
    <3>2. Len(waiters') = Len(waiters) + 1 /\ waiters' \in Seq(Requests)  BY <2>1, <3>1
    <3>3. DOMAIN waiters = 1 .. Len(waiters) /\ Len(waiters) \in Nat  BY <3>1
    <3>4. DOMAIN waiters' = 1 .. Len(waiters) + 1  BY <3>2
    <3> QED  BY <2>1, <3>1, <3>3, <3>4
  <2>5. \A i \in DOMAIN waiters : waiters[i] # r
    BY <1>1 DEF SlotSound
  <2>6. \A q \in Requests : phase'[q] = "queued" <=> \E i \in DOMAIN waiters' : waiters'[i] = q
    <3> TAKE q \in Requests
    <3>1. CASE q = r
      <4>1. phase'[q] = "queued"  BY <2>1, <3>1 DEF TypeOK
      <4>2. Len(waiters) + 1 \in DOMAIN waiters'  BY <2>4
      <4> QED  BY <2>4, <3>1, <4>1, <4>2
    <3>2. CASE q # r
      <4>1. phase'[q] = phase[q]  BY <2>1, <3>2 DEF TypeOK
      <4>2. (\E i \in DOMAIN waiters' : waiters'[i] = q) <=> \E i \in DOMAIN waiters : waiters[i] = q
        BY <2>4, <3>2
      <4> QED  BY <4>1, <4>2 DEF SlotSound
    <3> QED  BY <3>1, <3>2
  <2>7. \A i, j \in DOMAIN waiters' : waiters'[i] = waiters'[j] => i = j
    BY <2>4, <2>5 DEF SlotSound
  <2> QED  BY <2>1, <2>2, <2>3, <2>6, <2>7 DEF SlotSound
<1> QED  BY <1>2, <1>3

\* A holder that leaves hands its slot to the first waiter, or gives it back.
LEMMA LeaveSound ==
  ASSUME TypeOK, SlotSound, NEW r \in Requests, phase[r] \in Holding, Leave(r)
  PROVE  SlotSound'
<1>1. r \in SlotsHeld  BY DEF SlotsHeld
<1>2. free \in Nat /\ MaxConcurrency \in Nat  BY LimitsAssumption DEF TypeOK
<1>3. CASE waiters = <<>>
  <2>1. free' = free + 1 /\ waiters' = waiters /\ phase' = [phase EXCEPT ![r] = "done"]
    BY <1>3 DEF Leave
  <2>2. SlotsHeld' = SlotsHeld \ {r}
    BY <2>1 DEF SlotsHeld, TypeOK, Holding, Asleep
  <2>3. free' + Cardinality(SlotsHeld') = MaxConcurrency
    BY <1>1, <1>2, <2>1, <2>2, Holders DEF SlotSound
  <2>4. \A q \in Requests : phase'[q] = "queued" <=> phase[q] = "queued"
    BY <2>1 DEF TypeOK, Holding, Asleep
  <2> QED  BY <1>3, <2>1, <2>3, <2>4 DEF SlotSound
<1>4. CASE waiters # <<>>
  <2> DEFINE h == Head(waiters)
  <2>1. /\ h \in Requests /\ h = waiters[1]
        /\ Len(waiters) \in Nat /\ Len(waiters) > 0
        /\ DOMAIN waiters = 1 .. Len(waiters)
        /\ DOMAIN Tail(waiters) = 1 .. Len(waiters) - 1
        /\ \A i \in 1 .. Len(waiters) - 1 : Tail(waiters)[i] = waiters[i + 1]
    BY <1>4, TailSeq DEF TypeOK
  <2>2. free' = free /\ waiters' = Tail(waiters)
        /\ phase' = [phase EXCEPT ![r] = "done", ![h] = "ready"]
    BY <1>4 DEF Leave
  <2> HIDE DEF h
  <2>3. phase[h] = "queued"  BY <2>1 DEF SlotSound
  <2>4. h # r /\ h \notin SlotsHeld  BY <2>3 DEF SlotsHeld, Holding, Asleep
  <2>5. SlotsHeld' = (SlotsHeld \cup {h}) \ {r}
    BY <2>1, <2>2, <2>4 DEF SlotsHeld, TypeOK, Holding, Asleep
  <2>6. Cardinality(SlotsHeld') = Cardinality(SlotsHeld)
    <3>1. IsFiniteSet(SlotsHeld) /\ Cardinality(SlotsHeld) \in Nat  BY Holders
    <3>2. IsFiniteSet(SlotsHeld \cup {h})
          /\ Cardinality(SlotsHeld \cup {h}) = Cardinality(SlotsHeld) + 1
      BY <2>4, <3>1, FS_AddElement
    <3>3. Cardinality((SlotsHeld \cup {h}) \ {r}) = Cardinality(SlotsHeld \cup {h}) - 1
      BY <1>1, <3>2, FS_RemoveElement
    <3> QED  BY <2>5, <3>1, <3>2, <3>3
  <2>7. free = 0  BY <1>4 DEF SlotSound
  <2>8. \A q \in Requests : phase'[q] = "queued" <=> \E i \in DOMAIN waiters' : waiters'[i] = q
    <3> TAKE q \in Requests
    <3>1. phase'[q] = "queued" <=> phase[q] = "queued" /\ q # h
      BY <2>1, <2>2, <2>4 DEF TypeOK, Holding, Asleep
    <3>2. phase[q] = "queued" <=> \E i \in DOMAIN waiters : waiters[i] = q
      BY DEF SlotSound
    <3>3. ASSUME NEW i \in DOMAIN waiters', waiters'[i] = q
          PROVE  phase[q] = "queued" /\ q # h
      <4>1. i + 1 \in DOMAIN waiters /\ waiters[i + 1] = q /\ i + 1 # 1
        BY <2>1, <2>2, <3>3
      <4> QED  BY <2>1, <3>2, <4>1 DEF SlotSound
    <3>4. ASSUME NEW i \in DOMAIN waiters, waiters[i] = q, q # h
          PROVE  \E n \in DOMAIN waiters' : waiters'[n] = q
      <4>1. i - 1 \in DOMAIN waiters' /\ waiters'[i - 1] = q
        BY <2>1, <2>2, <3>4
      <4> QED  BY <4>1
    <3> QED  BY <3>1, <3>2, <3>3, <3>4
  <2>9. \A i, j \in DOMAIN waiters' : waiters'[i] = waiters'[j] => i = j
    <3> TAKE i, j \in DOMAIN waiters'
    <3> HAVE waiters'[i] = waiters'[j]
    <3>1. i + 1 \in DOMAIN waiters /\ j + 1 \in DOMAIN waiters
          /\ waiters[i + 1] = waiters[j + 1]
      BY <2>1, <2>2
    <3>2. i + 1 = j + 1  BY <3>1 DEF SlotSound
    <3> QED  BY <2>1, <2>2, <3>2
  <2> QED  BY <2>2, <2>6, <2>7, <2>8, <2>9 DEF SlotSound
<1> QED  BY <1>3, <1>4

\* A cancelled waiter leaves the queue, the others keep their order.
LEMMA CancelSound ==
  ASSUME TypeOK, SlotSound, NEW r \in Requests, phase[r] = "queued", Cancel(r)
  PROVE  SlotSound' /\ waiters' \in Seq(Requests)
<1>0. phase[r] \notin Holding  BY DEF Holding, Asleep
<1>1. PICK i \in DOMAIN waiters :
        /\ waiters[i] = r
        /\ waiters' = [j \in 1 .. Len(waiters) - 1 |->
                         IF j < i THEN waiters[j] ELSE waiters[j + 1]]
  BY <1>0 DEF Cancel
<1>2. free' = free /\ phase' = [phase EXCEPT ![r] = "done"]
  BY <1>0 DEF Cancel
<1>3. waiters \in Seq(Requests) /\ Len(waiters) \in Nat /\ DOMAIN waiters = 1 .. Len(waiters)
  BY DEF TypeOK
<1>4. /\ waiters' \in Seq(Requests)
      /\ DOMAIN waiters' = 1 .. Len(waiters) - 1
      /\ \A j \in 1 .. Len(waiters) - 1 :
           waiters'[j] = IF j < i THEN waiters[j] ELSE waiters[j + 1]
  BY <1>1, <1>3, WithoutSeq
<1>5. free = 0
  <2>1. waiters # <<>>  BY <1>1, <1>3
  <2> QED  BY <2>1 DEF SlotSound
<1>6. SlotsHeld' = SlotsHeld
  BY <1>0, <1>2 DEF SlotsHeld, TypeOK, Holding, Asleep
<1>7. \A q \in Requests : phase'[q] = "queued" <=> \E n \in DOMAIN waiters' : waiters'[n] = q
  <2> TAKE q \in Requests
  <2>1. phase'[q] = "queued" <=> phase[q] = "queued" /\ q # r
    BY <1>2 DEF TypeOK
  <2>2. phase[q] = "queued" <=> \E n \in DOMAIN waiters : waiters[n] = q
    BY DEF SlotSound
  <2>3. ASSUME NEW n \in DOMAIN waiters', waiters'[n] = q
        PROVE  phase[q] = "queued" /\ q # r
    <3> DEFINE m == IF n < i THEN n ELSE n + 1
    <3>1. m \in DOMAIN waiters /\ waiters[m] = q /\ m # i
      BY <1>3, <1>4, <2>3
    <3> HIDE DEF m
    <3>2. q # r  BY <1>1, <3>1 DEF SlotSound
    <3> QED  BY <2>2, <3>1, <3>2
  <2>4. ASSUME NEW n \in DOMAIN waiters, waiters[n] = q, q # r
        PROVE  \E m \in DOMAIN waiters' : waiters'[m] = q
    <3> DEFINE m == IF n < i THEN n ELSE n - 1
    <3>1. n # i  BY <1>1, <2>4
    <3>2. m \in DOMAIN waiters' /\ waiters'[m] = q
      BY <1>3, <1>4, <2>4, <3>1
    <3> QED  BY <3>2
  <2> QED  BY <2>1, <2>2, <2>3, <2>4
<1>8. \A m, n \in DOMAIN waiters' : waiters'[m] = waiters'[n] => m = n
  <2> TAKE m, n \in DOMAIN waiters'
  <2> HAVE waiters'[m] = waiters'[n]
  <2> DEFINE old(x) == IF x < i THEN x ELSE x + 1
  <2>1. /\ old(m) \in DOMAIN waiters /\ waiters[old(m)] = waiters'[m]
        /\ old(n) \in DOMAIN waiters /\ waiters[old(n)] = waiters'[n]
    BY <1>3, <1>4
  <2>2. old(m) = old(n)
    <3> HIDE DEF old
    <3> QED  BY <2>1 DEF SlotSound
  <2> QED  BY <1>3, <1>4, <2>2
<1> QED  BY <1>2, <1>4, <1>5, <1>6, <1>7, <1>8 DEF SlotSound

-----------------------------------------------------------------------------
\* Types and slots are inductive together: giving a slot back keeps the
\* semaphore's range because the slot was counted.
SInv == TypeOK /\ SlotSound

LEMMA SInvInit == Init => SInv
<1> SUFFICES ASSUME Init PROVE SInv  OBVIOUS
<1>1. TypeOK
  BY LimitsAssumption, RetriesAssumption DEF Init, TypeOK, Holding, Asleep
<1>2. SlotsHeld = {}  BY DEF Init, SlotsHeld, Holding, Asleep
<1>3. SlotSound
  BY <1>2, LimitsAssumption, FS_EmptySet DEF Init, SlotSound
<1> QED  BY <1>1, <1>3 DEF SInv

LEMMA LeaveKeeps ==
  ASSUME SInv, NEW r \in Requests, phase[r] \in Holding, Leave(r)
  PROVE  /\ SlotSound'
         /\ phase' \in [Requests -> Holding \cup {"new", "queued", "done"}]
         /\ runs' \in [Requests -> 0 .. MaxRuns]
         /\ free' \in 0 .. MaxConcurrency
         /\ waiters' \in Seq(Requests)
<1>1. r \in SlotsHeld  BY DEF SlotsHeld
<1>2. free < MaxConcurrency
  <2>1. free \in Nat /\ MaxConcurrency \in Nat  BY LimitsAssumption DEF SInv, TypeOK
  <2>2. Cardinality(SlotsHeld) \in Nat /\ Cardinality(SlotsHeld) > 0  BY <1>1, Holders
  <2>3. free + Cardinality(SlotsHeld) = MaxConcurrency  BY DEF SInv, SlotSound
  <2> QED  BY <2>1, <2>2, <2>3
<1> QED  BY <1>2, LeaveType, LeaveSound DEF SInv

LEMMA SInvNext == SInv /\ [Next]_vars => SInv'
<1> SUFFICES ASSUME SInv, [Next]_vars PROVE SInv'  OBVIOUS
<1> USE DEF SInv
<1>1. ASSUME NEW r \in Requests, TakeSlot(r) PROVE SInv'
  <2>1. CASE free > 0
    <3>1. free - 1 \in 0 .. MaxConcurrency
      BY <2>1, LimitsAssumption DEF TypeOK
    <3>2. 1 \in 0 .. MaxRuns  BY RetriesAssumption
    <3> QED  BY <1>1, <2>1, <3>1, <3>2, TakeSound DEF TakeSlot, TypeOK, Holding, Asleep
  <2>2. CASE ~ (free > 0)
    <3>1. Append(waiters, r) \in Seq(Requests)  BY DEF TypeOK
    <3> QED  BY <1>1, <2>2, <3>1, TakeSound DEF TakeSlot, TypeOK, Holding, Asleep
  <2> QED  BY <2>1, <2>2
<1>2. ASSUME NEW r \in Requests, WaitIfBlocked(r) PROVE SInv'
  <2>1. phase[r] \in Holding /\ phase[r] # "queued"
    BY <1>2 DEF WaitIfBlocked, Holding, Asleep
  <2>2. attempt' = attempt /\ runs' = runs /\ slots' = slots /\ blocked_for' = blocked_for
    BY <1>2 DEF WaitIfBlocked
  <2>3. CASE blocked_for > 0
    <3>1. phase' = [phase EXCEPT ![r] = "blocked"] /\ times' = times /\ log' = log
          /\ sleep' = [sleep EXCEPT ![r] = blocked_for]
      BY <1>2, <2>3 DEF WaitIfBlocked
    <3>2. SlotSound'
      BY <2>1, <2>2, <3>1, SamePlaces DEF TypeOK, Holding, Asleep
    <3>3. blocked_for \in Nat  BY DEF TypeOK
    <3> QED  BY <2>2, <3>1, <3>2, <3>3 DEF TypeOK, slots, Holding, Asleep
  <2>4. CASE ~ (blocked_for > 0)
    <3>1. Acquire(r)  BY <1>2, <2>4 DEF WaitIfBlocked
    <3>2. phase' \in {[phase EXCEPT ![r] = "calling"], [phase EXCEPT ![r] = "throttled"]}
      BY <3>1 DEF Acquire
    <3>3. SlotSound'
      BY <2>1, <2>2, <3>2, SamePlaces DEF TypeOK, Holding, Asleep
    <3> QED  BY <2>2, <3>1, <3>3, AcquireType DEF TypeOK, slots
  <2> QED  BY <2>3, <2>4
<1>3. ASSUME NEW r \in Requests, Wakes(r) PROVE SInv'
  <2>1. phase[r] \in Holding /\ phase[r] # "queued" /\ Acquire(r)
    BY <1>3 DEF Wakes, Holding, Asleep
  <2>2. attempt' = attempt /\ runs' = runs /\ slots' = slots /\ blocked_for' = blocked_for
    BY <1>3 DEF Wakes
  <2>3. phase' \in {[phase EXCEPT ![r] = "calling"], [phase EXCEPT ![r] = "throttled"]}
    BY <2>1 DEF Acquire
  <2>4. SlotSound'
    BY <2>1, <2>2, <2>3, SamePlaces DEF TypeOK, Holding, Asleep
  <2> QED  BY <2>1, <2>2, <2>4, AcquireType DEF TypeOK, slots
<1>4. ASSUME NEW r \in Requests, Opens(r) PROVE SInv'
  <2>1. SlotSound'
    BY <1>4, SamePlaces DEF Opens, TypeOK, Holding, Asleep
  <2> QED  BY <1>4, <2>1 DEF Opens, TypeOK, slots, Holding, Asleep
<1>5. ASSUME NEW r \in Requests, Retry(r) PROVE SInv'
  <2>1. SlotSound'
    BY <1>5, SamePlaces DEF Retry, TypeOK, Holding, Asleep
  <2>2. blocked_for' \in 0 .. MaxDelay /\ sleep' \in [Requests -> Nat]
    BY <1>5 DEF Retry, Delay, TypeOK
  <2>3. attempt' \in [Requests -> 0 .. MaxRetries]
    BY <1>5, RetriesAssumption DEF Retry, TypeOK
  <2> QED  BY <1>5, <2>1, <2>2, <2>3 DEF Retry, TypeOK, slots, Holding, Asleep
<1>6. ASSUME NEW r \in Requests, RunAgain(r) PROVE SInv'
  <2>1. SlotSound'
    BY <1>6, SamePlaces DEF RunAgain, TypeOK, Holding, Asleep
  <2>2. runs' \in [Requests -> 0 .. MaxRuns]
    BY <1>6, RetriesAssumption DEF RunAgain, TypeOK
  <2>3. attempt' \in [Requests -> 0 .. MaxRetries]
    BY <1>6, RetriesAssumption DEF RunAgain, TypeOK
  <2> QED  BY <1>6, <2>1, <2>2, <2>3 DEF RunAgain, TypeOK, slots, Holding, Asleep
<1>7. ASSUME NEW r \in Requests, Ends(r) PROVE SInv'
  <2>1. phase[r] \in Holding /\ Leave(r)  BY <1>7 DEF Ends, Holding
  <2>2. blocked_for' \in 0 .. MaxDelay
    BY <1>7, RetriesAssumption DEF Ends, Delay, TypeOK
  <2> QED  BY <1>7, <2>1, <2>2, LeaveKeeps DEF Ends, TypeOK
<1>8. ASSUME NEW r \in Requests, Cancel(r) PROVE SInv'
  <2>1. CASE phase[r] \in Holding
    <3>1. Leave(r)  BY <1>8, <2>1 DEF Cancel, Holding, Asleep
    <3> QED  BY <1>8, <2>1, <3>1, LeaveKeeps DEF Cancel, TypeOK
  <2>2. CASE phase[r] \notin Holding
    <3>1. phase[r] = "queued"  BY <1>8, <2>2 DEF Cancel
    <3>2. phase' = [phase EXCEPT ![r] = "done"] /\ free' = free /\ runs' = runs
      BY <1>8, <2>2 DEF Cancel
    <3> QED  BY <1>8, <3>1, <3>2, CancelSound DEF Cancel, TypeOK
  <2> QED  BY <2>1, <2>2
<1>9. CASE Tick
  <2>1. SlotSound'  BY <1>9, SamePlaces DEF Tick
  <2>2. times' \in Seq(0 .. Window) /\ Len(times') <= RateLimit
    <3>1. times \in Seq(0 .. Window) /\ Len(times) \in Nat /\ DOMAIN times = 1 .. Len(times)
      BY DEF TypeOK
    <3>2. \A i \in 1 .. Len(times) : Older(times[i]) \in 0 .. Window
      <4> TAKE i \in 1 .. Len(times)
      <4>1. times[i] \in 0 .. Window  BY <3>1, ElementOf
      <4> QED  BY <4>1, OlderType
    <3>3. times' = [i \in 1 .. Len(times) |-> Older(times[i])]
      BY <1>9, <3>1 DEF Tick
    <3>4. times' \in Seq(0 .. Window) /\ Len(times') = Len(times)
      BY <3>1, <3>2, <3>3, AgedSeq
    <3> QED  BY <3>4 DEF TypeOK
  <2>3. log' \in [0 .. RateLimit -> 0 .. Window]
    <3>1. \A i \in 0 .. RateLimit : Older(log[i]) \in 0 .. Window
      BY OlderType DEF TypeOK
    <3> QED  BY <1>9, <3>1 DEF Tick
  <2>4. sleep' \in [Requests -> Nat] /\ blocked_for' \in 0 .. MaxDelay
    BY <1>9, RetriesAssumption DEF Tick, TypeOK
  <2> QED  BY <1>9, <2>1, <2>2, <2>3, <2>4 DEF Tick, TypeOK, slots
<1>10. CASE UNCHANGED vars
  <2>1. SlotSound'  BY <1>10, SamePlaces DEF vars
  <2> QED  BY <1>10, <2>1 DEF vars, slots, TypeOK
<1> QED
  BY <1>1, <1>2, <1>3, <1>4, <1>5, <1>6, <1>7, <1>8, <1>9, <1>10 DEF Next, Goes

LEMMA SInvCorrect == Spec => []SInv
<1> QED  BY SInvInit, SInvNext, PTL DEF Spec

\* Every variable keeps its type: no run has more than MaxRetries retries, and
\* the semaphore's value stays in its range.
THEOREM TypeCorrect == Spec => []TypeOK
<1>1. SInv => TypeOK  BY DEF SInv
<1> QED  BY <1>1, SInvCorrect, PTL

\* Every slot is free or held by a request that has not ended, and nobody waits
\* while one is free.
THEOREM SlotCorrect == Spec => []SlotSound
<1>1. SInv => SlotSound  BY DEF SInv
<1> QED  BY <1>1, SInvCorrect, PTL

-----------------------------------------------------------------------------
\* What times must say for the window to be bounded: its last element is the
\* last acquisition, the one before it the one before that, and so on, and an
\* acquisition that is no longer there is a window old.
LogAgrees ==
  \A i \in 0 .. RateLimit :
    IF i < Len(times) THEN log[i] = times[Len(times) - i] ELSE log[i] = Window

\* An acquisition drops only what is a window old and adds itself to both.
LEMMA AcquireAgrees ==
  ASSUME TypeOK, LogAgrees, NEW r \in Requests, Acquire(r)
  PROVE  LogAgrees'
<1>1. PICK k \in 1 .. Len(times) + 1 : Acquire(r)!(k)
  BY DEF Acquire
<1> DEFINE kept == SubSeq(times, k, Len(times))
           n == Len(times)
<1>2. /\ times \in Seq(0 .. Window)
      /\ n \in Nat /\ n <= RateLimit
      /\ RateLimit \in Nat /\ RateLimit > 0
      /\ k \in 1 .. n + 1
  BY LimitsAssumption DEF TypeOK
<1>3. /\ kept \in Seq(0 .. Window)
      /\ Len(kept) = n - k + 1
      /\ \A i \in 1 .. Len(kept) : kept[i] = times[i + k - 1]
  BY <1>2, Suffix
<1>4. \A i \in 1 .. k - 1 : times[i] = Window
  BY <1>1
<1>5. \A i \in 0 .. RateLimit : IF i < n THEN log[i] = times[n - i] ELSE log[i] = Window
  BY DEF LogAgrees
<1>6. \A i \in 0 .. RateLimit :
        IF i < Len(kept) THEN log[i] = kept[Len(kept) - i] ELSE log[i] = Window
  <2> HIDE DEF kept, n
  <2> TAKE i \in 0 .. RateLimit
  <2>1. CASE i < Len(kept)
    <3>1. Len(kept) - i \in 1 .. Len(kept) /\ i < n /\ Len(kept) - i + k - 1 = n - i
      BY <1>2, <1>3, <2>1
    <3> QED  BY <1>3, <1>5, <2>1, <3>1
  <2>2. CASE ~ (i < Len(kept)) /\ i < n
    <3>1. n - i \in 1 .. k - 1  BY <1>2, <1>3, <2>2
    <3> QED  BY <1>4, <1>5, <2>2, <3>1
  <2>3. CASE ~ (i < Len(kept)) /\ ~ (i < n)
    BY <1>5, <2>3
  <2> QED  BY <2>1, <2>2, <2>3
<1>7. CASE Len(kept) < RateLimit
  <2>1. times' = Append(kept, 0)
        /\ log' = [i \in 0 .. RateLimit |-> IF i = 0 THEN 0 ELSE log[i - 1]]
    BY <1>1, <1>7
  <2>2. /\ Len(kept) \in Nat
        /\ Len(times') = Len(kept) + 1
        /\ times'[Len(kept) + 1] = 0
        /\ \A i \in 1 .. Len(kept) : times'[i] = kept[i]
    <3> HIDE DEF kept
    <3>1. kept \in Seq(0 .. Window) /\ 0 \in 0 .. Window
      BY <1>3, LimitsAssumption
    <3> QED  BY <2>1, <3>1
  <2> HIDE DEF kept, n
  <2>3. ASSUME NEW i \in 0 .. RateLimit
        PROVE  IF i < Len(times') THEN log'[i] = times'[Len(times') - i] ELSE log'[i] = Window
    <3>1. CASE i = 0
      BY <2>1, <2>2, <3>1
    <3>2. CASE i # 0 /\ i < Len(times')
      <4>1. i - 1 \in 0 .. RateLimit /\ i - 1 < Len(kept)
            /\ Len(kept) - (i - 1) \in 1 .. Len(kept)
            /\ Len(times') - i = Len(kept) - (i - 1)
        BY <1>2, <2>2, <3>2
      <4>2. log'[i] = log[i - 1]  BY <2>1, <3>2
      <4> QED  BY <1>6, <2>2, <3>2, <4>1, <4>2
    <3>3. CASE i # 0 /\ ~ (i < Len(times'))
      <4>1. i - 1 \in 0 .. RateLimit /\ ~ (i - 1 < Len(kept))
        BY <1>2, <2>2, <3>3
      <4>2. log'[i] = log[i - 1]  BY <2>1, <3>3
      <4> QED  BY <1>6, <3>3, <4>1, <4>2
    <3> QED  BY <3>1, <3>2, <3>3
  <2> QED  BY <2>3 DEF LogAgrees
<1>8. CASE ~ (Len(kept) < RateLimit)
  <2>1. times' = kept /\ log' = log  BY <1>1, <1>8
  <2> HIDE DEF kept
  <2> QED  BY <1>6, <2>1 DEF LogAgrees
<1> QED  BY <1>7, <1>8

\* Both grow older alike.
LEMMA TickAgrees ==
  ASSUME TypeOK, LogAgrees, Tick
  PROVE  LogAgrees'
<1>1. times \in Seq(0 .. Window) /\ Len(times) \in Nat /\ DOMAIN times = 1 .. Len(times)
  BY DEF TypeOK
<1>2. times' = [i \in 1 .. Len(times) |-> Older(times[i])]
      /\ log' = [i \in 0 .. RateLimit |-> Older(log[i])]
  BY <1>1 DEF Tick
<1>3. Len(times') = Len(times)
  BY <1>1, <1>2
<1>4. ASSUME NEW i \in 0 .. RateLimit
      PROVE  IF i < Len(times') THEN log'[i] = times'[Len(times') - i] ELSE log'[i] = Window
  <2>1. log'[i] = Older(log[i])  BY <1>2
  <2>2. CASE i < Len(times)
    <3>1. Len(times) - i \in 1 .. Len(times)  BY <1>1, <2>2
    <3>2. log[i] = times[Len(times) - i]  BY <2>2 DEF LogAgrees
    <3> QED  BY <1>2, <1>3, <2>1, <2>2, <3>1, <3>2
  <2>3. CASE ~ (i < Len(times))
    <3>1. log[i] = Window  BY <2>3 DEF LogAgrees
    <3>2. Older(Window) = Window  BY LimitsAssumption DEF Older
    <3> QED  BY <1>3, <2>1, <2>3, <3>1, <3>2
  <2> QED  BY <2>2, <2>3
<1> QED  BY <1>4 DEF LogAgrees

\* In every interval as long as the window at most RateLimit attempts acquire,
\* whatever the requests, their blocks and backoffs and the order they wake in.
THEOREM WindowCorrect == Spec => []WindowBound
<1>1. Init => LogAgrees
  BY LimitsAssumption DEF Init, LogAgrees
<1>2. TypeOK /\ LogAgrees /\ [Next]_vars => LogAgrees'
  <2> SUFFICES ASSUME TypeOK, LogAgrees, [Next]_vars PROVE LogAgrees'  OBVIOUS
  <2>1. CASE times' = times /\ log' = log
    BY <2>1 DEF LogAgrees
  <2>2. ASSUME NEW r \in Requests, Acquire(r) PROVE LogAgrees'
    BY <2>2, AcquireAgrees
  <2>3. CASE Tick  BY <2>3, TickAgrees
  <2> QED
    BY <2>1, <2>2, <2>3
    DEF Next, Goes, TakeSlot, WaitIfBlocked, Wakes, Opens, Retry, RunAgain, Ends,
        Cancel, vars
<1>3. TypeOK /\ LogAgrees => WindowBound
  BY LimitsAssumption DEF TypeOK, LogAgrees, WindowBound
<1> QED  BY <1>1, <1>2, <1>3, TypeCorrect, PTL DEF Spec
=============================================================================
