--------------------------- MODULE StreamsProofs ---------------------------
(***************************************************************************)
(* Theorems about the native adapter and the two transports together, for  *)
(* any number of blocks, events and retries: what the block policy passes  *)
(* on keeps the ledger sound, and the client is told what the ledger says  *)
(* (ChatStreamProofs has the ledger's operations and the chat adapter).    *)
(***************************************************************************)
EXTENDS Streams, ChatStreamProofs

-----------------------------------------------------------------------------
(* The elements of a finite set of numbers, in their order.                 *)

Below(S, x) == {y \in S : y < x}

LEMMA NthExists ==
  ASSUME NEW n \in Nat
  PROVE  \A S \in SUBSET (0 .. n - 1) :
           /\ IsFiniteSet(S) /\ Cardinality(S) \in Nat
           /\ \A k \in 1 .. Cardinality(S) : \E x \in S : Cardinality(Below(S, x)) = k - 1
<1> DEFINE P(m) == \A S \in SUBSET (0 .. m - 1) :
                     /\ IsFiniteSet(S) /\ Cardinality(S) \in Nat
                     /\ \A k \in 1 .. Cardinality(S) :
                          \E x \in S : Cardinality(Below(S, x)) = k - 1
           N == {m \in Nat : P(m)}
<1>1. 0 \in N
  <2> SUFFICES ASSUME NEW S \in SUBSET (0 .. 0 - 1)
               PROVE  IsFiniteSet(S) /\ Cardinality(S) = 0
    OBVIOUS
  <2>1. S = {}
    OBVIOUS
  <2> QED BY <2>1, FS_EmptySet
<1>2. ASSUME NEW m \in Nat, P(m) PROVE P(m + 1)
  <2> SUFFICES ASSUME NEW S \in SUBSET (0 .. m)
               PROVE  /\ IsFiniteSet(S) /\ Cardinality(S) \in Nat
                      /\ \A k \in 1 .. Cardinality(S) :
                           \E x \in S : Cardinality(Below(S, x)) = k - 1
    OBVIOUS
  <2> DEFINE T == S \ {m}
  <2>1. T \in SUBSET (0 .. m - 1)
    OBVIOUS
  <2>2. /\ IsFiniteSet(T) /\ Cardinality(T) \in Nat
        /\ \A k \in 1 .. Cardinality(T) : \E x \in T : Cardinality(Below(T, x)) = k - 1
    BY <1>2, <2>1
  <2>3. CASE m \notin S
    <3>1. T = S
      BY <2>3
    <3> QED BY <2>2, <3>1
  <2>4. CASE m \in S
    <3>1. S = T \cup {m} /\ m \notin T
      BY <2>4
    <3>a. /\ \A y \in S : y \in Int /\ y <= m
          /\ \A y : y \in T <=> y \in S /\ y # m
      OBVIOUS
    <3>2. Below(S, m) = T /\ \A x \in T : Below(S, x) = Below(T, x)
      <4> HIDE DEF T
      <4>a. \A y \in Int : y <= m => (y < m <=> y # m)
        OBVIOUS
      <4>b. \A x, y \in Int : x <= m /\ y < x => y # m
        OBVIOUS
      <4>1. \A y : y \in T <=> y \in S /\ y < m
        BY <3>a, <4>a, Zenon
      <4>2. \A x \in T : \A y : y \in S /\ y < x => y \in T
        BY <3>a, <4>b, Zenon
      <4>3. Below(S, m) = T
        BY <4>1, Zenon DEF Below
      <4>4. \A x \in T : Below(S, x) = Below(T, x)
        BY <3>a, <4>2, Zenon DEF Below
      <4> QED BY <4>3, <4>4
    <3> HIDE DEF T
    <3>3. IsFiniteSet(S) /\ Cardinality(S) = Cardinality(T) + 1
      BY <2>2, <3>1, FS_AddElement
    <3>4. ASSUME NEW k \in 1 .. Cardinality(S)
          PROVE  \E x \in S : Cardinality(Below(S, x)) = k - 1
      <4>1. CASE k \in 1 .. Cardinality(T)
        <5>1. PICK x \in T : Cardinality(Below(T, x)) = k - 1
          BY <2>2, <4>1
        <5> QED BY <3>1, <3>2, <5>1
      <4>2. CASE k = Cardinality(T) + 1
        <5>1. Cardinality(Below(S, m)) = k - 1
          BY <2>2, <3>2, <4>2
        <5> QED BY <2>4, <5>1
      <4> QED BY <2>2, <3>3, <4>1, <4>2
    <3> QED BY <2>2, <3>3, <3>4
  <2> QED BY <2>3, <2>4
<1>3. \A m \in Nat : m \in N => m + 1 \in N
  BY <1>2
<1>4. n \in N
  <2> HIDE DEF N
  <2> QED BY <1>1, <1>3, EveryNumber
<1> QED BY <1>4

LEMMA NthIs ==
  ASSUME NEW n \in Nat, NEW S \in SUBSET (0 .. n - 1)
  PROVE  /\ IsFiniteSet(S) /\ Cardinality(S) \in Nat
         /\ \A k \in 1 .. Cardinality(S) : Nth(S, k) \in S
         /\ \A j, k \in 1 .. Cardinality(S) : Nth(S, j) = Nth(S, k) => j = k
         /\ \A x \in S : \E k \in 1 .. Cardinality(S) : Nth(S, k) = x
<1> DEFINE c == Cardinality(S)
           rank(x) == Cardinality(Below(S, x))
<1>1. /\ IsFiniteSet(S) /\ c \in Nat /\ \A k \in 1 .. c : \E x \in S : rank(x) = k - 1
  BY NthExists
<1>2. \A k \in 1 .. c : Nth(S, k) \in S /\ rank(Nth(S, k)) = k - 1
  <2>1. \A k : Nth(S, k) = CHOOSE x \in S : rank(x) = k - 1
    BY DEF Nth, Below
  <2> HIDE DEF rank, c
  <2> QED BY <1>1, <2>1
<1>a. \A x \in S : x \in Int
  OBVIOUS
<1>3. ASSUME NEW x \in S, NEW y \in S, x < y
      PROVE  rank(x) < rank(y) /\ rank(y) \in Nat /\ rank(x) \in Nat
  <2>1. Below(S, x) \subseteq Below(S, y) \ {x} /\ x \in Below(S, y)
    <3>1. x \in Int /\ y \in Int
      BY <1>a
    <3>2. \A z \in Int : z < x => z < y /\ z # x
      BY <1>3, <3>1
    <3> QED BY <1>3, <1>a, <3>2, Zenon DEF Below
  <2>2. IsFiniteSet(Below(S, y)) /\ IsFiniteSet(Below(S, x))
    BY <1>1, FS_Subset DEF Below
  <2>3. Cardinality(Below(S, y) \ {x}) = Cardinality(Below(S, y)) - 1 /\ IsFiniteSet(Below(S, y) \ {x})
    BY <2>1, <2>2, FS_RemoveElement
  <2>4. Cardinality(Below(S, x)) <= Cardinality(Below(S, y) \ {x})
    BY <2>1, <2>3, FS_Subset
  <2>5. Cardinality(Below(S, y)) \in Nat /\ Cardinality(Below(S, x)) \in Nat
    BY <2>2, FS_CardinalityType
  <2> QED BY <2>3, <2>4, <2>5
<1>4. ASSUME NEW x \in S PROVE rank(x) \in 0 .. c - 1
  <2>1. Below(S, x) \subseteq S \ {x}
    BY DEF Below
  <2>2. IsFiniteSet(S \ {x}) /\ Cardinality(S \ {x}) = c - 1
    BY <1>1, FS_RemoveElement
  <2>3. IsFiniteSet(Below(S, x)) /\ Cardinality(Below(S, x)) <= c - 1
    BY <2>1, <2>2, FS_Subset
  <2>4. Cardinality(Below(S, x)) \in Nat
    BY <2>3, FS_CardinalityType
  <2> QED BY <1>1, <2>3, <2>4
<1> HIDE DEF rank, c
<1>5. \A j, k \in 1 .. c : Nth(S, j) = Nth(S, k) => j = k
  BY <1>1, <1>2
<1>6. ASSUME NEW x \in S PROVE \E k \in 1 .. c : Nth(S, k) = x
  <2>1. PICK k \in 1 .. c : rank(x) = k - 1
    <3>1. rank(x) + 1 \in 1 .. c /\ rank(x) = (rank(x) + 1) - 1
      BY <1>1, <1>4
    <3> QED BY <3>1
  <2>2. Nth(S, k) \in S /\ rank(Nth(S, k)) = rank(x)
    BY <1>2, <2>1
  <2>3. ~ (Nth(S, k) < x) /\ ~ (x < Nth(S, k))
    <3>1. \A y, z \in S : y < z => rank(y) # rank(z)
      BY <1>3
    <3> QED BY <2>2, <3>1
  <2>4. Nth(S, k) \in Int /\ x \in Int
    BY <1>a, <2>2
  <2> QED BY <2>3, <2>4
<1> QED BY <1>1, <1>2, <1>5, <1>6 DEF c

-----------------------------------------------------------------------------
(* Events ingested one after the other.                                     *)

LEMMA IngestAllIs ==
  ASSUME NEW w, NEW es \in Seq(Event)
  PROVE  \E g : /\ g[0] = w /\ IngestAll(w, es) = g[Len(es)]
                /\ \A k \in 1 .. Len(es) : g[k] = Ingest(g[k - 1], es[k])
<1> DEFINE N == Len(es)
<1>0. N \in Nat
  OBVIOUS
<1>1. \E g : g = [k \in 0 .. N |-> IF k = 0 THEN w ELSE Ingest(g[k - 1], es[k])]
  <2> DEFINE T == {q \in Nat : \E g : g = [k \in 0 .. q |-> IF k = 0 THEN w
                                                     ELSE Ingest(g[k - 1], es[k])]}
  <2>1. 0 \in T
    <3> DEFINE g == [k \in 0 .. 0 |-> w]
    <3>1. g = [k \in 0 .. 0 |-> IF k = 0 THEN w ELSE Ingest(g[k - 1], es[k])]
      OBVIOUS
    <3> HIDE DEF g
    <3> QED BY <3>1
  <2>2. ASSUME NEW q \in Nat, q \in T PROVE q + 1 \in T
    <3>1. PICK g : g = [k \in 0 .. q |-> IF k = 0 THEN w ELSE Ingest(g[k - 1], es[k])]
      BY <2>2
    <3> DEFINE h == [k \in 0 .. q + 1 |-> IF k <= q THEN g[k] ELSE Ingest(g[q], es[(q + 1)])]
    <3>2. ASSUME NEW k \in 0 .. q + 1
          PROVE  h[k] = IF k = 0 THEN w ELSE Ingest(h[k - 1], es[k])
      <4>1. CASE k = 0
        BY <3>1, <4>1
      <4>2. CASE k \in 1 .. q
        <5>1. h[k] = g[k] /\ h[k - 1] = g[k - 1]
          BY <4>2
        <5>2. g[k] = Ingest(g[k - 1], es[k])
          BY <3>1, <4>2
        <5> QED BY <4>2, <5>1, <5>2
      <4>3. CASE k = q + 1
        <5>1. h[k] = Ingest(g[q], es[(q + 1)]) /\ h[k - 1] = g[q] /\ k # 0
          BY <4>3
        <5> QED BY <4>3, <5>1
      <4> QED BY <4>1, <4>2, <4>3
    <3>3. h = [k \in 0 .. q + 1 |-> IF k = 0 THEN w ELSE Ingest(h[k - 1], es[k])]
      <4>1. h = [k \in 0 .. q + 1 |-> h[k]]
        OBVIOUS
      <4> HIDE DEF h
      <4> QED BY <3>2, <4>1
    <3>4. \E y : y = [k \in 0 .. q + 1 |-> IF k = 0 THEN w ELSE Ingest(y[k - 1], es[k])]
      <4> WITNESS h
      <4> QED BY <3>3
    <3>5. q + 1 \in Nat
      OBVIOUS
    <3> HIDE DEF h
    <3> QED BY <3>4, <3>5, Zenon
  <2>3. Nat \subseteq T
    <3> HIDE DEF T
    <3> QED BY <2>1, <2>2, EveryNumber
  <2>4. N \in T
    <3> HIDE DEF T, N
    <3> QED BY <1>0, <2>3
  <2> QED BY <2>4
<1> DEFINE f == CHOOSE g : g = [k \in 0 .. N |-> IF k = 0 THEN w ELSE Ingest(g[k - 1], es[k])]
<1>2. f = [k \in 0 .. N |-> IF k = 0 THEN w ELSE Ingest(f[k - 1], es[k])]
  BY <1>1
<1>3. f[0] = w /\ \A k \in 1 .. N : f[k] = Ingest(f[k - 1], es[k])
  <2> HIDE DEF f
  <2>1. 0 \in 0 .. N /\ \A k \in 1 .. N : k \in 0 .. N /\ k # 0
    BY <1>0
  <2> QED BY <1>2, <2>1
<1>4. IngestAll(w, es) = f[N]
  BY DEF IngestAll
<1> HIDE DEF f, N
<1>5. \E g : g[0] = w /\ IngestAll(w, es) = g[N] /\ \A k \in 1 .. N : g[k] = Ingest(g[k - 1], es[k])
  BY <1>3, <1>4
<1> QED BY <1>5 DEF N
LEMMA IngestIs ==
  ASSUME NEW w, NEW e
  PROVE  /\ e.name = "message_start" => Ingest(w, e) = MessageStart(w)
         /\ e.name = "content_block_start" => Ingest(w, e) = BlockStart(w, e.i, e.type)
         /\ e.name = "content_block_delta" => Ingest(w, e) = BlockDelta(w, e.i, e.type, e.data)
         /\ e.name = "content_block_stop" => Ingest(w, e) = BlockStop(w, e.i)
         /\ e.name = "message_delta" => Ingest(w, e) = MessageDelta(w, e.type)
         /\ e.name = "message_stop" => Ingest(w, e) = MessageStop(w)
         /\ e.name = "error" => Ingest(w, e) = Emit(w, w.l, e)
BY DEF Ingest

LEMMA IngestNone ==
  ASSUME NEW w
  PROVE  IngestAll(w, <<>>) = w
<1>1. ASSUME NEW es \in Seq(Event), Len(es) = 0 PROVE IngestAll(w, es) = w
  <2>1. PICK g : /\ g[0] = w /\ IngestAll(w, es) = g[Len(es)]
                 /\ \A k \in 1 .. Len(es) : g[k] = Ingest(g[k - 1], es[k])
    BY IngestAllIs
  <2> QED BY <1>1, <2>1
<1>2. <<>> \in Seq(Event) /\ Len(<<>>) = 0
  OBVIOUS
<1> QED BY <1>1, <1>2

LEMMA IngestOne ==
  ASSUME NEW w, NEW e \in Event
  PROVE  IngestAll(w, <<e>>) = Ingest(w, e)
<1> DEFINE one == <<e>>
<1>1. one \in Seq(Event) /\ Len(one) = 1 /\ one[1] = e
  OBVIOUS
<1> HIDE DEF one
<1>2. PICK g : /\ g[0] = w /\ IngestAll(w, one) = g[1]
               /\ \A k \in 1 .. 1 : g[k] = Ingest(g[k - 1], one[k])
  BY <1>1, IngestAllIs
<1>3. g[1] = Ingest(g[0], one[1])
  <2>1. 1 \in 1 .. 1 /\ 1 - 1 = 0
    OBVIOUS
  <2> QED BY <1>2, <2>1
<1> QED BY <1>1, <1>2, <1>3 DEF one

LEMMA IngestTwo ==
  ASSUME NEW w, NEW e \in Event, NEW f \in Event
  PROVE  IngestAll(w, <<e, f>>) = Ingest(Ingest(w, e), f)
<1> DEFINE two == <<e, f>>
<1>1. two \in Seq(Event) /\ Len(two) = 2 /\ two[1] = e /\ two[2] = f
  OBVIOUS
<1> HIDE DEF two
<1>2. PICK g : /\ g[0] = w /\ IngestAll(w, two) = g[2]
               /\ \A k \in 1 .. 2 : g[k] = Ingest(g[k - 1], two[k])
  BY <1>1, IngestAllIs
<1>3. g[1] = Ingest(g[0], two[1]) /\ g[2] = Ingest(g[1], two[2])
  <2>1. 1 \in 1 .. 2 /\ 1 - 1 = 0 /\ 2 \in 1 .. 2 /\ 2 - 1 = 1
    OBVIOUS
  <2> QED BY <1>2, <2>1
<1> QED BY <1>1, <1>2, <1>3 DEF two

-----------------------------------------------------------------------------
(* The policy's segments and the ledger's blocks.                           *)

SegmentRecord == [type : BlockType, down : Nat, open : BOOLEAN]
Policy == [next : Nat, by_upstream : Partial(SegmentRecord), dropped : SUBSET Nat,
           suppressed : SUBSET Nat]

\* The open segments are the open blocks.
InStep(l, p) ==
  /\ p \in Policy /\ p.next = l.next
  /\ \A u \in DOMAIN p.by_upstream : Segment(p, u).down < p.next
  /\ \A u \in OpenSegments(p) :
       /\ Segment(p, u).down \in Range(l.stack)
       /\ l.blocks[Segment(p, u).down].type = Segment(p, u).type
  /\ \A u, v \in OpenSegments(p) : Segment(p, u).down = Segment(p, v).down => u = v
  /\ \A i \in Range(l.stack) : \E u \in OpenSegments(p) : Segment(p, u).down = i

LEMMA PolicyIs ==
  ASSUME NEW p \in Policy
  PROVE  /\ p.next \in Nat /\ p.dropped \in SUBSET Nat /\ p.suppressed \in SUBSET Nat
         /\ p.by_upstream \in Partial(SegmentRecord) /\ DOMAIN p.by_upstream \subseteq Nat
         /\ \A u \in DOMAIN p.by_upstream :
              /\ Segment(p, u) \in SegmentRecord /\ Segment(p, u) = p.by_upstream[u]
              /\ Segment(p, u).type \in BlockType /\ Segment(p, u).down \in Nat
              /\ Segment(p, u).open \in BOOLEAN
         /\ OpenSegments(p) \subseteq DOMAIN p.by_upstream
         /\ \A u : u \in OpenSegments(p) <=> u \in DOMAIN p.by_upstream /\ Segment(p, u).open
         /\ p = [next |-> p.next, by_upstream |-> p.by_upstream, dropped |-> p.dropped,
                 suppressed |-> p.suppressed]
<1>1. /\ p.next \in Nat /\ p.dropped \in SUBSET Nat /\ p.suppressed \in SUBSET Nat
      /\ p.by_upstream \in Partial(SegmentRecord)
      /\ p = [next |-> p.next, by_upstream |-> p.by_upstream, dropped |-> p.dropped,
              suppressed |-> p.suppressed]
  BY DEF Policy
<1>2. DOMAIN p.by_upstream \subseteq Nat
      /\ p.by_upstream \in [DOMAIN p.by_upstream -> SegmentRecord]
  BY <1>1, PartialIs
<1>3. \A u \in DOMAIN p.by_upstream : Segment(p, u) \in SegmentRecord /\ Segment(p, u) = p.by_upstream[u]
  BY <1>2 DEF Segment
<1>4. \A s \in SegmentRecord : s.type \in BlockType /\ s.down \in Nat /\ s.open \in BOOLEAN
  BY DEF SegmentRecord
<1> QED BY <1>1, <1>2, <1>3, <1>4, Zenon DEF OpenSegments

StopEv(i) == Ev("content_block_stop", i, "", <<>>)

LEMMA StopEvIs ==
  ASSUME NEW i \in Int
  PROVE  StopEv(i) \in Event /\ StopEv(i).name = "content_block_stop" /\ StopEv(i).i = i
<1>1. <<>> \in Seq(Nat)
  OBVIOUS
<1> QED BY <1>1 DEF StopEv, Ev, Event

\* Some segments are closed, and nothing else happens.
Stilled(l, m, p, us) ==
  /\ Kept(l, m) /\ m.next = l.next /\ m.blocks = l.blocks /\ m.said = l.said
  /\ m.thought = l.thought
  /\ Range(m.stack) = Range(l.stack) \ {Segment(p, u).down : u \in us}

StopsFrom(g, p, us, w) ==
  g[0] = w /\ \A k \in 1 .. Cardinality(us) : g[k] = Ingest(g[k - 1], StopsOf(p, us)[k])

LEMMA StopsTold ==
  ASSUME NEW c, NEW w, Tells(c, w), Speaks(w), NEW p, InStep(w.l, p), NEW n \in Nat,
         NEW us \in SUBSET (1 .. n), us \subseteq OpenSegments(p), NEW g, StopsFrom(g, p, us, w)
  PROVE  LET v == g[Cardinality(us)]
         IN  Tells(c, v) /\ Speaks(v) /\ Stilled(w.l, v.l, p, us)
<1> DEFINE N == Cardinality(us)
           D(k) == {Segment(p, Nth(us, j)).down : j \in 1 .. k}
           Q(v, k) == /\ Tells(c, v) /\ Speaks(v) /\ Kept(w.l, v.l) /\ v.l.next = w.l.next
                      /\ v.l.blocks = w.l.blocks /\ v.l.said = w.l.said
                      /\ v.l.thought = w.l.thought
                      /\ Range(v.l.stack) = Range(w.l.stack) \ D(k)
           T == {k \in Nat : k <= N => Q(g[k], k)}
<1>1. /\ N \in Nat /\ \A k \in 1 .. N : Nth(us, k) \in us
      /\ \A j, k \in 1 .. N : Nth(us, j) = Nth(us, k) => j = k
      /\ \A x \in us : \E k \in 1 .. N : Nth(us, k) = x
  <2>1. n + 1 \in Nat /\ us \in SUBSET (0 .. (n + 1) - 1)
    OBVIOUS
  <2> QED BY <2>1, NthIs
<1>2. p \in Policy
  BY DEF InStep
<1>3. \A k \in 1 .. N : StopsOf(p, us)[k] = StopEv(Segment(p, Nth(us, k)).down)
  BY Zenon DEF StopsOf, StopEv
<1>4. \A u \in us : Segment(p, u).down \in Nat
  BY <1>2, PolicyIs
<1>5. 0 \in T
  <2>1. D(0) = {}
    OBVIOUS
  <2>2. Kept(w.l, w.l)
    BY DEF Kept
  <2>3. g[0] = w
    BY DEF StopsFrom
  <2> HIDE DEF D
  <2> QED BY <2>1, <2>2, <2>3
<1>6. ASSUME NEW k \in Nat, k \in T, k + 1 <= N
      PROVE  Q(g[k + 1], k + 1)
  <2> DEFINE i == Segment(p, Nth(us, k + 1)).down
  <2>1. k + 1 \in 1 .. N /\ (k + 1) - 1 = k /\ Q(g[k], k)
    BY <1>1, <1>6
  <2>2. g[k + 1] = Ingest(g[k], StopEv(i))
    BY <1>3, <2>1 DEF StopsFrom
  <2>3. Nth(us, k + 1) \in us /\ i \in Nat /\ i \in Range(w.l.stack)
    <3>1. Nth(us, k + 1) \in us
      BY <1>1, <2>1
    <3> QED BY <1>4, <3>1 DEF InStep
  <2>4. g[k + 1] = BlockStop(g[k], i)
    BY <2>2, <2>3, StopEvIs, IngestIs
  <2>5. i \notin D(k)
    <3> SUFFICES ASSUME NEW j \in 1 .. k, i = Segment(p, Nth(us, j)).down PROVE FALSE
      OBVIOUS
    <3>1. j \in 1 .. N /\ j # k + 1
      BY <1>1, <2>1
    <3>2. Nth(us, j) \in OpenSegments(p) /\ Nth(us, k + 1) \in OpenSegments(p)
      BY <1>1, <2>1, <3>1
    <3>3. Nth(us, j) = Nth(us, k + 1)
      BY <3>2 DEF InStep
    <3> QED BY <1>1, <2>1, <3>1, <3>3
  <2>6. D(k + 1) = D(k) \cup {i}
    <3>1. 1 .. k + 1 = (1 .. k) \cup {k + 1}
      OBVIOUS
    <3> QED BY <3>1, Zenon
  <2> HIDE DEF D, i
  <2>7. i \in Range(g[k].l.stack)
    BY <2>1, <2>3, <2>5
  <2>8. /\ Tells(c, BlockStop(g[k], i)) /\ Speaks(BlockStop(g[k], i))
        /\ StoppedAt(g[k].l, BlockStop(g[k], i).l, i)
    BY <2>1, <2>7, StopTold
  <2>9. Kept(w.l, g[k + 1].l)
    BY <2>1, <2>4, <2>8, Zenon DEF Kept, StoppedAt
  <2>10. Range(g[k + 1].l.stack) = Range(w.l.stack) \ D(k + 1)
    <3>1. Range(g[k + 1].l.stack) = (Range(w.l.stack) \ D(k)) \ {i}
      BY <2>1, <2>4, <2>8, Zenon DEF StoppedAt
    <3> QED BY <2>6, <3>1
  <2> QED BY <2>1, <2>4, <2>8, <2>9, <2>10, Zenon DEF StoppedAt
<1>7. \A k \in Nat : k \in T => k + 1 \in T
  BY <1>6
<1>8. N \in T
  <2> HIDE DEF T, N
  <2> QED BY <1>1, <1>5, <1>7, EveryNumber
<1>9. Q(g[N], N)
  BY <1>1, <1>8
<1>10. D(N) = {Segment(p, u).down : u \in us}
  <2> HIDE DEF N
  <2>1. ASSUME NEW u \in us PROVE Segment(p, u).down \in D(N)
    BY <1>1, Zenon
  <2>2. ASSUME NEW j \in 1 .. N PROVE Segment(p, Nth(us, j)).down \in {Segment(p, u).down : u \in us}
    BY <1>1, Zenon
  <2> QED BY <2>1, <2>2
<1> QED BY <1>9, <1>10, Zenon DEF Stilled
\* A segment is begun, some are closed.
Allocated(p, q, u, type) ==
  /\ q \in Policy /\ q.next = p.next + 1 /\ q.dropped = p.dropped /\ q.suppressed = p.suppressed
  /\ DOMAIN q.by_upstream = DOMAIN p.by_upstream \cup {u}
  /\ Segment(q, u).type = type /\ Segment(q, u).down = p.next /\ Segment(q, u).open
  /\ \A v \in DOMAIN p.by_upstream \ {u} : Segment(q, v) = Segment(p, v)

ClosedIn(p, q, us) ==
  /\ q \in Policy /\ q.next = p.next /\ q.dropped = p.dropped
  /\ DOMAIN q.by_upstream = DOMAIN p.by_upstream
  /\ \A v \in DOMAIN p.by_upstream :
       /\ Segment(q, v).type = Segment(p, v).type /\ Segment(q, v).down = Segment(p, v).down
       /\ Segment(q, v).open = (Segment(p, v).open /\ v \notin us)

\* A policy with other fields.
PolicyOf(n, f, d, s) == [next |-> n, by_upstream |-> f, dropped |-> d, suppressed |-> s]

LEMMA PolicyOfIs ==
  ASSUME NEW n \in Nat, NEW f \in Partial(SegmentRecord), NEW d \in SUBSET Nat, NEW s \in SUBSET Nat
  PROVE  /\ PolicyOf(n, f, d, s) \in Policy /\ PolicyOf(n, f, d, s).next = n
         /\ PolicyOf(n, f, d, s).by_upstream = f /\ PolicyOf(n, f, d, s).dropped = d
         /\ PolicyOf(n, f, d, s).suppressed = s
<1> DEFINE parts == Partial(SegmentRecord)
<1>1. f \in parts
  OBVIOUS
<1>2. Policy = [next : Nat, by_upstream : parts, dropped : SUBSET Nat, suppressed : SUBSET Nat]
  BY DEF Policy
<1> HIDE DEF parts
<1> QED BY <1>1, <1>2 DEF PolicyOf

LEMMA PolicyWithout ==
  ASSUME NEW p \in Policy
  PROVE  p = PolicyOf(p.next, p.by_upstream, p.dropped, p.suppressed)
BY PolicyIs DEF PolicyOf

LEMMA NextWith ==
  ASSUME NEW p \in Policy, NEW m \in Nat, NEW q, q = [p EXCEPT !.next = m]
  PROVE  q \in Policy /\ q.next = m /\ q.by_upstream = p.by_upstream /\ q.dropped = p.dropped /\ q.suppressed = p.suppressed
<1>1. p = PolicyOf(p.next, p.by_upstream, p.dropped, p.suppressed)
  BY PolicyWithout
<1> DEFINE n == p.next
           f == p.by_upstream
           d == p.dropped
           s == p.suppressed
<1>2. n \in Nat /\ f \in Partial(SegmentRecord) /\ d \in SUBSET Nat /\ s \in SUBSET Nat
  BY PolicyIs
<1>3. p = PolicyOf(n, f, d, s)
  BY <1>1
<1> HIDE DEF n, f, d, s
<1>4. q = PolicyOf(m, f, d, s)
  BY <1>3 DEF PolicyOf
<1>5. /\ q \in Policy /\ PolicyOf(n, f, d, s).next = n /\ PolicyOf(n, f, d, s).by_upstream = f
      /\ PolicyOf(n, f, d, s).dropped = d /\ PolicyOf(n, f, d, s).suppressed = s
  BY <1>2, <1>4, PolicyOfIs
<1> QED BY <1>2, <1>3, <1>4, <1>5, PolicyOfIs

LEMMA UpstreamWith ==
  ASSUME NEW p \in Policy, NEW g \in Partial(SegmentRecord), NEW q, q = [p EXCEPT !.by_upstream = g]
  PROVE  q \in Policy /\ q.by_upstream = g /\ q.next = p.next /\ q.dropped = p.dropped /\ q.suppressed = p.suppressed
<1>1. p = PolicyOf(p.next, p.by_upstream, p.dropped, p.suppressed)
  BY PolicyWithout
<1> DEFINE n == p.next
           f == p.by_upstream
           d == p.dropped
           s == p.suppressed
<1>2. n \in Nat /\ f \in Partial(SegmentRecord) /\ d \in SUBSET Nat /\ s \in SUBSET Nat
  BY PolicyIs
<1>3. p = PolicyOf(n, f, d, s)
  BY <1>1
<1> HIDE DEF n, f, d, s
<1>4. q = PolicyOf(n, g, d, s)
  BY <1>3 DEF PolicyOf
<1>5. /\ q \in Policy /\ PolicyOf(n, f, d, s).next = n /\ PolicyOf(n, f, d, s).by_upstream = f
      /\ PolicyOf(n, f, d, s).dropped = d /\ PolicyOf(n, f, d, s).suppressed = s
  BY <1>2, <1>4, PolicyOfIs
<1> QED BY <1>2, <1>3, <1>4, <1>5, PolicyOfIs

LEMMA DroppedWith ==
  ASSUME NEW p \in Policy, NEW g \in SUBSET Nat, NEW q, q = [p EXCEPT !.dropped = g]
  PROVE  q \in Policy /\ q.dropped = g /\ q.next = p.next /\ q.by_upstream = p.by_upstream /\ q.suppressed = p.suppressed
<1>1. p = PolicyOf(p.next, p.by_upstream, p.dropped, p.suppressed)
  BY PolicyWithout
<1> DEFINE n == p.next
           f == p.by_upstream
           d == p.dropped
           s == p.suppressed
<1>2. n \in Nat /\ f \in Partial(SegmentRecord) /\ d \in SUBSET Nat /\ s \in SUBSET Nat
  BY PolicyIs
<1>3. p = PolicyOf(n, f, d, s)
  BY <1>1
<1> HIDE DEF n, f, d, s
<1>4. q = PolicyOf(n, f, g, s)
  BY <1>3 DEF PolicyOf
<1>5. /\ q \in Policy /\ PolicyOf(n, f, d, s).next = n /\ PolicyOf(n, f, d, s).by_upstream = f
      /\ PolicyOf(n, f, d, s).dropped = d /\ PolicyOf(n, f, d, s).suppressed = s
  BY <1>2, <1>4, PolicyOfIs
<1> QED BY <1>2, <1>3, <1>4, <1>5, PolicyOfIs

LEMMA SuppressedWith ==
  ASSUME NEW p \in Policy, NEW g \in SUBSET Nat, NEW q, q = [p EXCEPT !.suppressed = g]
  PROVE  q \in Policy /\ q.suppressed = g /\ q.next = p.next /\ q.by_upstream = p.by_upstream /\ q.dropped = p.dropped
<1>1. p = PolicyOf(p.next, p.by_upstream, p.dropped, p.suppressed)
  BY PolicyWithout
<1> DEFINE n == p.next
           f == p.by_upstream
           d == p.dropped
           s == p.suppressed
<1>2. n \in Nat /\ f \in Partial(SegmentRecord) /\ d \in SUBSET Nat /\ s \in SUBSET Nat
  BY PolicyIs
<1>3. p = PolicyOf(n, f, d, s)
  BY <1>1
<1> HIDE DEF n, f, d, s
<1>4. q = PolicyOf(n, f, d, g)
  BY <1>3 DEF PolicyOf
<1>5. /\ q \in Policy /\ PolicyOf(n, f, d, s).next = n /\ PolicyOf(n, f, d, s).by_upstream = f
      /\ PolicyOf(n, f, d, s).dropped = d /\ PolicyOf(n, f, d, s).suppressed = s
  BY <1>2, <1>4, PolicyOfIs
<1> QED BY <1>2, <1>3, <1>4, <1>5, PolicyOfIs

LEMMA AllocateIs ==
  ASSUME NEW p \in Policy, NEW u \in Nat, NEW type \in BlockType
  PROVE  Allocated(p, Allocate(p, u, type), u, type)
<1> DEFINE q == Allocate(p, u, type)
           f == p.by_upstream
           s == [type |-> type, down |-> p.next, open |-> TRUE]
           g == Put(f, u, s)
<1>1. p.next \in Nat /\ s \in SegmentRecord /\ s.type = type /\ s.down = p.next /\ s.open
  BY PolicyIs DEF SegmentRecord
<1>2. f \in Partial(SegmentRecord) /\ f \in [DOMAIN f -> SegmentRecord] /\ DOMAIN f \subseteq Nat
  BY PolicyIs, PartialIs
<1> HIDE DEF s
<1>3. /\ g = [x \in DOMAIN f \cup {u} |-> IF x = u THEN s ELSE f[x]]
  BY DEF Put
<1> HIDE DEF f
<1>4. /\ DOMAIN g = DOMAIN f \cup {u} /\ g[u] = s /\ \A v \in DOMAIN f \ {u} : g[v] = f[v]
      /\ g \in [DOMAIN g -> SegmentRecord] /\ DOMAIN g \subseteq Nat
  BY <1>1, <1>2, <1>3
<1>5. g \in Partial(SegmentRecord)
  BY <1>4, PartialIs
<1>6. q = [p EXCEPT !.next = p.next + 1, !.by_upstream = g]
  BY DEF Allocate, f, s
<1> HIDE DEF g
<1> HIDE DEF q
<1>7. /\ q.next = p.next + 1 /\ q.dropped = p.dropped /\ q.suppressed = p.suppressed
      /\ q.by_upstream = g /\ q \in Policy
  <2> DEFINE m == p.next + 1
             r == [p EXCEPT !.next = m]
  <2>1. m \in Nat
    BY <1>1
  <2>2. q = [r EXCEPT !.by_upstream = g]
    BY <1>6
  <2> HIDE DEF m
  <2>3. r \in Policy /\ r.next = m /\ r.dropped = p.dropped /\ r.suppressed = p.suppressed
    BY <2>1, NextWith
  <2> HIDE DEF r
  <2>4. q \in Policy /\ q.by_upstream = g /\ q.next = m /\ q.dropped = p.dropped
        /\ q.suppressed = p.suppressed
    BY <1>5, <2>2, <2>3, UpstreamWith
  <2> QED BY <2>4 DEF m
<1> QED BY <1>1, <1>4, <1>7, Zenon DEF Allocated, Segment, q, f

LEMMA SegmentClosed ==
  ASSUME NEW s \in SegmentRecord
  PROVE  /\ [s EXCEPT !.open = FALSE] \in SegmentRecord /\ ~ [s EXCEPT !.open = FALSE].open
         /\ [s EXCEPT !.open = FALSE].type = s.type /\ [s EXCEPT !.open = FALSE].down = s.down
BY DEF SegmentRecord

\* Some of a policy's segments are closed.
Shut(p, us) == [v \in DOMAIN p.by_upstream |->
                  IF v \in us THEN [p.by_upstream[v] EXCEPT !.open = FALSE] ELSE p.by_upstream[v]]

LEMMA ShutIs ==
  ASSUME NEW p \in Policy, NEW us
  PROVE  /\ Shut(p, us) \in Partial(SegmentRecord) /\ DOMAIN Shut(p, us) = DOMAIN p.by_upstream
         /\ \A v \in DOMAIN p.by_upstream :
              /\ Shut(p, us)[v].type = Segment(p, v).type /\ Shut(p, us)[v].down = Segment(p, v).down
              /\ Shut(p, us)[v].open = (Segment(p, v).open /\ v \notin us)
<1> DEFINE f == p.by_upstream
           g == Shut(p, us)
<1>1. f \in Partial(SegmentRecord) /\ f \in [DOMAIN f -> SegmentRecord] /\ DOMAIN f \subseteq Nat
  BY PolicyIs, PartialIs
<1>2. g = [v \in DOMAIN f |-> IF v \in us THEN [f[v] EXCEPT !.open = FALSE] ELSE f[v]]
  BY DEF Shut
<1>3. \A v : Segment(p, v) = f[v]
  BY DEF Segment
<1> HIDE DEF f, g
<1>4. ASSUME NEW v \in DOMAIN f
      PROVE  /\ g[v] \in SegmentRecord /\ g[v].type = f[v].type /\ g[v].down = f[v].down
             /\ g[v].open = (f[v].open /\ v \notin us)
  <2> DEFINE s == f[v]
  <2>1. s \in SegmentRecord /\ s.open \in BOOLEAN
    BY <1>1 DEF SegmentRecord
  <2>2. CASE v \in us
    <3>1. g[v] = [s EXCEPT !.open = FALSE]
      BY <1>2, <2>2
    <3> HIDE DEF s
    <3>2. g[v] \in SegmentRecord /\ ~ g[v].open /\ g[v].type = s.type /\ g[v].down = s.down
      BY <2>1, <3>1, SegmentClosed
    <3>3. g[v].open = FALSE
      <4>1. g[v].open \in BOOLEAN
        BY <3>2 DEF SegmentRecord
      <4> QED BY <3>2, <4>1
    <3> QED BY <2>2, <3>2, <3>3 DEF s
  <2>3. CASE v \notin us
    <3>1. g[v] = s
      BY <1>2, <2>3
    <3> QED BY <2>1, <2>3, <3>1
  <2> QED BY <2>2, <2>3
<1>5. DOMAIN g = DOMAIN f /\ g = [v \in DOMAIN f |-> g[v]]
  BY <1>2
<1>6. g \in Partial(SegmentRecord)
  <2>1. g \in [DOMAIN g -> SegmentRecord] /\ DOMAIN g \subseteq Nat
    BY <1>1, <1>4, <1>5
  <2> QED BY <2>1, PartialIs
<1> QED BY <1>3, <1>4, <1>5, <1>6, Zenon DEF f, g

LEMMA CloseIs ==
  ASSUME NEW p \in Policy, NEW us, NEW q \in Policy, q.next = p.next, q.dropped = p.dropped,
         q.by_upstream = Shut(p, us)
  PROVE  ClosedIn(p, q, us)
<1> DEFINE g == Shut(p, us)
<1>1. \A v : Segment(q, v) = g[v]
  BY DEF Segment
<1>2. /\ DOMAIN g = DOMAIN p.by_upstream
      /\ \A v \in DOMAIN p.by_upstream :
           /\ g[v].type = Segment(p, v).type /\ g[v].down = Segment(p, v).down
           /\ g[v].open = (Segment(p, v).open /\ v \notin us)
  BY ShutIs
<1>3. q.by_upstream = g
  OBVIOUS
<1> HIDE DEF g
<1>4. DOMAIN q.by_upstream = DOMAIN p.by_upstream
  BY <1>2, <1>3
<1>5. ASSUME NEW v \in DOMAIN p.by_upstream
      PROVE  /\ Segment(q, v).type = Segment(p, v).type /\ Segment(q, v).down = Segment(p, v).down
             /\ Segment(q, v).open = (Segment(p, v).open /\ v \notin us)
  BY <1>1, <1>2
<1> QED BY <1>4, <1>5 DEF ClosedIn

LEMMA CloseOthersIs ==
  ASSUME NEW p \in Policy, NEW u
  PROVE  /\ ClosedIn(p, CloseOthers(p, u), Others(p, u))
         /\ CloseOthers(p, u).suppressed = p.suppressed \cup Others(p, u)
<1> DEFINE us == Others(p, u)
           g == Shut(p, us)
           more == p.suppressed \cup us
           r == [p EXCEPT !.by_upstream = g]
           q == CloseOthers(p, u)
<1>1. more \in SUBSET Nat /\ g \in Partial(SegmentRecord)
  BY PolicyIs, ShutIs DEF Others
<1>2. q = [r EXCEPT !.suppressed = more]
  BY DEF CloseOthers, Shut
<1> HIDE DEF q, g, more
<1>3. r \in Policy /\ r.next = p.next /\ r.dropped = p.dropped /\ r.by_upstream = g
  BY <1>1, UpstreamWith
<1> HIDE DEF r
<1>4. /\ q \in Policy /\ q.next = p.next /\ q.dropped = p.dropped /\ q.by_upstream = g
      /\ q.suppressed = more
  BY <1>1, <1>2, <1>3, SuppressedWith
<1> HIDE DEF us
<1>5. ClosedIn(p, q, us)
  BY <1>4, CloseIs DEF g
<1> QED BY <1>4, <1>5 DEF q, us, more

CloseOne(p, u) == [p EXCEPT !.by_upstream[u].open = FALSE]

LEMMA CloseOneIs ==
  ASSUME NEW p \in Policy, NEW u \in DOMAIN p.by_upstream, NEW q, q = CloseOne(p, u)
  PROVE  ClosedIn(p, q, {u}) /\ q.suppressed = p.suppressed
<1> DEFINE f == p.by_upstream
           h == [f EXCEPT ![u].open = FALSE]
           us == {u}
           g == Shut(p, us)
<1>1. f \in [DOMAIN f -> SegmentRecord]
  BY PolicyIs, PartialIs
<1>2. q = [p EXCEPT !.by_upstream = h]
  BY DEF CloseOne
<1>3. h = [f EXCEPT ![u] = [f[u] EXCEPT !.open = FALSE]]
  OBVIOUS
<1>4. g = [v \in DOMAIN f |-> IF v \in us THEN [f[v] EXCEPT !.open = FALSE] ELSE f[v]]
  BY DEF Shut
<1>5. g \in Partial(SegmentRecord)
  BY ShutIs
<1>6. u \in DOMAIN f /\ \A v : v \in us <=> v = u
  OBVIOUS
<1> HIDE DEF f, h, us, g
<1>7. h = g
  BY <1>1, <1>3, <1>4, <1>6
<1>8. /\ q \in Policy /\ q.next = p.next /\ q.dropped = p.dropped /\ q.by_upstream = g
      /\ q.suppressed = p.suppressed
  BY <1>2, <1>5, <1>7, UpstreamWith
<1>9. ClosedIn(p, q, us)
  BY <1>8, CloseIs DEF g
<1> QED BY <1>8, <1>9 DEF us

LEMMA ClosedInStep ==
  ASSUME NEW l, NEW m, NEW p, NEW q, NEW us, InStep(l, p), ClosedIn(p, q, us),
         us \subseteq OpenSegments(p), Stilled(l, m, p, us)
  PROVE  InStep(m, q) /\ OpenSegments(q) = OpenSegments(p) \ us
<1>1. p \in Policy /\ q \in Policy /\ q.next = p.next /\ m.next = l.next /\ p.next = l.next
  BY DEF InStep, ClosedIn, Stilled
<1>2. OpenSegments(q) = OpenSegments(p) \ us
  <2>1. \A v : v \in OpenSegments(q) <=> v \in OpenSegments(p) /\ v \notin us
    BY <1>1, PolicyIs DEF ClosedIn
  <2> QED BY <2>1
<1>3. /\ \A u \in DOMAIN p.by_upstream : Segment(p, u).down < p.next
      /\ \A u \in OpenSegments(p) :
           /\ Segment(p, u).down \in Range(l.stack) /\ u \in DOMAIN p.by_upstream
           /\ l.blocks[Segment(p, u).down].type = Segment(p, u).type
      /\ \A u, v \in OpenSegments(p) : Segment(p, u).down = Segment(p, v).down => u = v
      /\ \A i \in Range(l.stack) : \E u \in OpenSegments(p) : Segment(p, u).down = i
  BY <1>1, PolicyIs DEF InStep
<1>4. /\ DOMAIN q.by_upstream = DOMAIN p.by_upstream
      /\ \A u \in DOMAIN p.by_upstream :
           Segment(q, u).down = Segment(p, u).down /\ Segment(q, u).type = Segment(p, u).type
  BY DEF ClosedIn
<1>5. m.blocks = l.blocks /\ Range(m.stack) = Range(l.stack) \ {Segment(p, u).down : u \in us}
  BY DEF Stilled
<1>6. \A u \in DOMAIN q.by_upstream : Segment(q, u).down < q.next
  BY <1>1, <1>3, <1>4
<1>7. ASSUME NEW u \in OpenSegments(q)
      PROVE  /\ Segment(q, u).down \in Range(m.stack)
             /\ m.blocks[Segment(q, u).down].type = Segment(q, u).type
  BY <1>2, <1>3, <1>4, <1>5, <1>7
<1>8. \A u, v \in OpenSegments(q) : Segment(q, u).down = Segment(q, v).down => u = v
  BY <1>2, <1>3, <1>4
<1>9. ASSUME NEW i \in Range(m.stack) PROVE \E u \in OpenSegments(q) : Segment(q, u).down = i
  <2>1. PICK u \in OpenSegments(p) : Segment(p, u).down = i
    BY <1>3, <1>5
  <2>2. u \notin us
    BY <1>5, <1>9, <2>1
  <2> QED BY <1>2, <1>3, <1>4, <2>1, <2>2
<1> QED BY <1>1, <1>2, <1>6, <1>7, <1>8, <1>9 DEF InStep

LEMMA CloseStep ==
  ASSUME NEW c, NEW w, Tells(c, w), Speaks(w), NEW p, InStep(w.l, p), NEW u \in OpenSegments(p),
         NEW v, v = BlockStop(w, Segment(p, u).down), NEW q, q = CloseOne(p, u)
  PROVE  /\ Tells(c, v) /\ Speaks(v) /\ Stilled(w.l, v.l, p, {u}) /\ InStep(v.l, q)
         /\ OpenSegments(q) = OpenSegments(p) \ {u}
         /\ ClosedIn(p, q, {u}) /\ q.suppressed = p.suppressed
<1> DEFINE us == {u}
<1>1. p \in Policy /\ u \in DOMAIN p.by_upstream
  BY PolicyIs DEF InStep
<1>2. ClosedIn(p, q, us) /\ q.suppressed = p.suppressed
  BY <1>1, CloseOneIs
<1>3. Segment(p, u).down \in Range(w.l.stack)
  BY DEF InStep
<1>4. Tells(c, v) /\ Speaks(v) /\ StoppedAt(w.l, v.l, Segment(p, u).down)
  BY <1>3, StopTold
<1>5. Stilled(w.l, v.l, p, us)
  <2>1. {Segment(p, x).down : x \in us} = {Segment(p, u).down}
    OBVIOUS
  <2> QED BY <1>4, <2>1, Zenon DEF StoppedAt, Stilled
<1>6. us \subseteq OpenSegments(p)
  OBVIOUS
<1> HIDE DEF us
<1>7. InStep(v.l, q) /\ OpenSegments(q) = OpenSegments(p) \ us
  BY <1>2, <1>5, <1>6, ClosedInStep
<1> QED BY <1>2, <1>4, <1>5, <1>7 DEF us

LEMMA AllocateStep ==
  ASSUME NEW c, NEW w, Tells(c, w), Speaks(w), NEW p, InStep(w.l, p), NEW u \in Nat,
         u \notin OpenSegments(p), NEW type \in BlockType,
         NEW v, v = BlockStart(w, p.next, type), NEW q, q = Allocate(p, u, type)
  PROVE  /\ Tells(c, v) /\ Speaks(v) /\ StartedAt(w.l, v.l, p.next, type) /\ InStep(v.l, q)
         /\ Allocated(p, q, u, type) /\ OpenSegments(q) = OpenSegments(p) \cup {u}
<1>1. p \in Policy /\ p.next = w.l.next /\ p.next \in Nat
  BY PolicyIs DEF InStep
<1>2. Allocated(p, q, u, type) /\ q \in Policy
  <2>1. Allocated(p, q, u, type)
    BY <1>1, AllocateIs
  <2> QED BY <2>1, Zenon DEF Allocated
<1>3. Tells(c, v) /\ Speaks(v) /\ StartedAt(w.l, v.l, p.next, type)
  <2>1. p.next >= w.l.next
    BY <1>1
  <2> QED BY <1>1, <2>1, StartTold
<1>4. OpenSegments(q) = OpenSegments(p) \cup {u}
  <2>1. \A x : x \in OpenSegments(q) <=> x \in OpenSegments(p) \/ x = u
    BY <1>1, <1>2, PolicyIs DEF Allocated
  <2> QED BY <2>1
<1>5. /\ \A x \in DOMAIN p.by_upstream : Segment(p, x).down < p.next /\ Segment(p, x).down \in Nat
      /\ \A x \in OpenSegments(p) :
           /\ Segment(p, x).down \in Range(w.l.stack) /\ x \in DOMAIN p.by_upstream
           /\ w.l.blocks[Segment(p, x).down].type = Segment(p, x).type
      /\ \A x, y \in OpenSegments(p) : Segment(p, x).down = Segment(p, y).down => x = y
      /\ \A i \in Range(w.l.stack) : \E x \in OpenSegments(p) : Segment(p, x).down = i
  BY <1>1, PolicyIs DEF InStep
<1>6. /\ DOMAIN q.by_upstream = DOMAIN p.by_upstream \cup {u} /\ q.next = p.next + 1
      /\ Segment(q, u).type = type /\ Segment(q, u).down = p.next
      /\ \A x \in DOMAIN p.by_upstream \ {u} : Segment(q, x) = Segment(p, x)
  BY <1>2 DEF Allocated
<1>7. /\ v.l.next = p.next + 1 /\ Range(v.l.stack) = Range(w.l.stack) \cup {p.next}
      /\ v.l.blocks[p.next].type = type
      /\ \A x \in Range(w.l.stack) : v.l.blocks[x] = w.l.blocks[x] /\ x # p.next
  <2>1. Range(w.l.stack) \subseteq DOMAIN w.l.blocks /\ \A x \in DOMAIN w.l.blocks : x < w.l.next
    BY ToldFields DEF Sound
  <2>2. \A x \in Range(w.l.stack) : x # p.next
    BY <1>1, <2>1
  <2> QED BY <1>3, <2>1, <2>2 DEF StartedAt
<1>8. \A x \in DOMAIN q.by_upstream : Segment(q, x).down < q.next
  BY <1>1, <1>5, <1>6
<1>9. \A x \in OpenSegments(q) :
        /\ Segment(q, x).down \in Range(v.l.stack)
        /\ v.l.blocks[Segment(q, x).down].type = Segment(q, x).type
  BY <1>4, <1>5, <1>6, <1>7
<1>10. \A x, y \in OpenSegments(q) : Segment(q, x).down = Segment(q, y).down => x = y
  <2>1. \A x \in OpenSegments(p) : x # u /\ Segment(q, x).down = Segment(p, x).down /\ Segment(p, x).down # p.next
    BY <1>5, <1>6, <1>7
  <2> QED BY <1>4, <1>5, <1>6, <2>1
<1>11. \A i \in Range(v.l.stack) : \E x \in OpenSegments(q) : Segment(q, x).down = i
  <2>1. ASSUME NEW i \in Range(w.l.stack) PROVE \E x \in OpenSegments(q) : Segment(q, x).down = i
    <3>1. PICK x \in OpenSegments(p) : Segment(p, x).down = i
      BY <1>5
    <3>2. x # u /\ x \in DOMAIN p.by_upstream
      BY <1>5
    <3> QED BY <1>4, <1>6, <3>1, <3>2
  <2> QED BY <1>4, <1>6, <1>7, <2>1
<1>12. InStep(v.l, q)
  BY <1>2, <1>6, <1>7, <1>8, <1>9, <1>10, <1>11 DEF InStep
<1> QED BY <1>2, <1>3, <1>4, <1>12
\* An attempt's upstream, the policy and the ledger.
UpstreamStage == {"new", "open", "reason", "stopped", "broken"}
UpstreamBlock == [type : BlockType, open : BOOLEAN, sent : 0 .. 2]
NativeRecord == [stage : UpstreamStage, blocks : Seq(UpstreamBlock), events : Nat, text : Nat,
                 thinking : Nat]

\* Every block of the upstream has a segment or is dropped; an open segment's block is open.
Carried(p, up) ==
  /\ DOMAIN p.by_upstream \cup p.dropped = DOMAIN up.blocks
  /\ DOMAIN p.by_upstream \cap p.dropped = {}
  /\ p.suppressed \subseteq DOMAIN p.by_upstream \ OpenSegments(p)
  /\ \A u \in DOMAIN p.by_upstream : Segment(p, u).type = up.blocks[u].type
  /\ \A u \in OpenSegments(p) : up.blocks[u].open
  /\ \A u \in p.dropped : up.blocks[u].type \in {"thinking", "redacted_thinking"}

\* No tool's arguments are split over two segments or end too early.
Orderly == "split_tools" \notin NativeOddities /\ "bad_tools" \notin NativeOddities
ToolsOf(up) == {u \in DOMAIN up.blocks : up.blocks[u].type = "tool_use"}
CarriesTools(l, p, up) ==
  /\ ToolBlocks(l) = {Segment(p, u).down : u \in ToolsOf(up)}
  /\ \A u \in ToolsOf(up) :
       /\ l.blocks[Segment(p, u).down].parts = Part(up.blocks[u].sent)
       /\ Segment(p, u).open \/ up.blocks[u].sent = 2
  /\ \A u, v \in ToolsOf(up) : Segment(p, u).down = Segment(p, v).down => u = v

Ending == {"reason", "stopped"}
Progress(l, p, up) ==
  /\ up.stage = "new" => l = NewLedger /\ p = FreshPolicy /\ up = FreshNativeUpstream
  /\ up.stage # "new" => l.started
  /\ l.stopped <=> up.stage = "stopped"
  /\ up.stage \in {"open", "broken"} => CanAppend(l)
  /\ up.stage \in Ending =>
       Range(l.stack) = {} /\ HasContentBlock(l) /\ l.stop_reason \in {"end_turn", "tool_use"}

Attempt(l, p, up) ==
  /\ InStep(l, p) /\ up \in NativeRecord /\ Carried(p, up) /\ Progress(l, p, up)
  /\ l.said = UpTo(up.text) /\ (Orderly => CarriesTools(l, p, up))

LEMMA NativeIs ==
  ASSUME NEW up \in NativeRecord
  PROVE  /\ up.stage \in UpstreamStage /\ up.blocks \in Seq(UpstreamBlock) /\ up.events \in Nat
         /\ up.text \in Nat /\ up.thinking \in Nat /\ DOMAIN up.blocks = 1 .. Len(up.blocks)
         /\ Len(up.blocks) \in Nat
         /\ \A u \in DOMAIN up.blocks :
              /\ up.blocks[u] \in UpstreamBlock /\ up.blocks[u].type \in BlockType
              /\ up.blocks[u].open \in BOOLEAN /\ up.blocks[u].sent \in 0 .. 2
<1>1. /\ up.stage \in UpstreamStage /\ up.blocks \in Seq(UpstreamBlock) /\ up.events \in Nat
      /\ up.text \in Nat /\ up.thinking \in Nat
  BY DEF NativeRecord
<1>2. /\ DOMAIN up.blocks = 1 .. Len(up.blocks) /\ Len(up.blocks) \in Nat
      /\ \A u \in DOMAIN up.blocks : up.blocks[u] \in UpstreamBlock
  BY <1>1
<1>3. \A b \in UpstreamBlock : b.type \in BlockType /\ b.open \in BOOLEAN /\ b.sent \in 0 .. 2
  BY DEF UpstreamBlock
<1> QED BY <1>1, <1>2, <1>3

\* What is counted does not matter to the match.
LEMMA CountedMatches ==
  ASSUME NEW l, NEW p, NEW up, Attempt(l, p, up), up.stage # "new", NEW new \in NativeRecord,
         new.stage = up.stage, new.blocks = up.blocks, new.text = up.text
  PROVE  Attempt(l, p, new)
<1>1. InStep(l, p) /\ l.said = UpTo(new.text) /\ (Orderly => CarriesTools(l, p, up))
  BY Zenon DEF Attempt
<1>2. Carried(p, new)
  BY DEF Attempt, Carried
<1>3. Progress(l, p, new)
  BY DEF Attempt, Progress
<1>4. CarriesTools(l, p, up) => CarriesTools(l, p, new)
  BY DEF CarriesTools, ToolsOf
<1> QED BY <1>1, <1>2, <1>3, <1>4, Zenon DEF Attempt

\* The upstream ends a block whose segment is closed.
EndedBlock(up, new, u) ==
  /\ new \in NativeRecord /\ new.stage = up.stage /\ new.text = up.text
  /\ DOMAIN new.blocks = DOMAIN up.blocks
  /\ \A v \in DOMAIN up.blocks : /\ new.blocks[v].type = up.blocks[v].type
                                 /\ new.blocks[v].sent = up.blocks[v].sent
                                 /\ v # u => new.blocks[v].open = up.blocks[v].open

LEMMA EndedMatches ==
  ASSUME NEW l, NEW p, NEW up, Attempt(l, p, up), up.stage # "new", NEW new, NEW u,
         EndedBlock(up, new, u), u \notin OpenSegments(p)
  PROVE  Attempt(l, p, new)
<1>1. InStep(l, p) /\ l.said = UpTo(new.text) /\ (Orderly => CarriesTools(l, p, up))
      /\ new \in NativeRecord /\ p \in Policy
  BY Zenon DEF Attempt, EndedBlock, InStep
<1>2. OpenSegments(p) \subseteq DOMAIN p.by_upstream
  BY <1>1, PolicyIs
<1>3. /\ DOMAIN p.by_upstream \cup p.dropped = DOMAIN up.blocks
      /\ \A v \in OpenSegments(p) : up.blocks[v].open
      /\ \A v \in DOMAIN p.by_upstream : Segment(p, v).type = up.blocks[v].type
      /\ \A v \in p.dropped : up.blocks[v].type \in {"thinking", "redacted_thinking"}
  BY DEF Attempt, Carried
<1>4. Carried(p, new)
  <2>1. DOMAIN p.by_upstream \cup p.dropped = DOMAIN new.blocks
    BY <1>3 DEF EndedBlock
  <2>2. \A v \in DOMAIN p.by_upstream : Segment(p, v).type = new.blocks[v].type
    BY <1>3 DEF EndedBlock
  <2>3. \A v \in OpenSegments(p) : new.blocks[v].open
    BY <1>2, <1>3 DEF EndedBlock
  <2>4. \A v \in p.dropped : new.blocks[v].type \in {"thinking", "redacted_thinking"}
    BY <1>3 DEF EndedBlock
  <2> QED BY <2>1, <2>2, <2>3, <2>4 DEF Attempt, Carried
<1>5. Progress(l, p, new)
  BY DEF Attempt, Progress, EndedBlock
<1>6. CarriesTools(l, p, up) => CarriesTools(l, p, new)
  <2>1. ToolsOf(new) = ToolsOf(up) /\ \A v \in ToolsOf(up) : new.blocks[v].sent = up.blocks[v].sent
    BY DEF EndedBlock, ToolsOf
  <2> QED BY <2>1, Zenon DEF CarriesTools
<1> QED BY <1>1, <1>4, <1>5, <1>6, Zenon DEF Attempt

\* The policy closes some segments, none of a tool whose arguments are not complete.
WholeIn(up, us) == Orderly => \A u \in us : up.blocks[u].type = "tool_use" => up.blocks[u].sent = 2

LEMMA ClosedMatches ==
  ASSUME NEW l, NEW p, NEW up, Attempt(l, p, up), up.stage = "open", NEW m, NEW q, NEW us,
         ClosedIn(p, q, us), Stilled(l, m, p, us), us \subseteq OpenSegments(p),
         q.suppressed \subseteq p.suppressed \cup us, WholeIn(up, us)
  PROVE  Attempt(m, q, up) /\ OpenSegments(q) = OpenSegments(p) \ us
<1>1. InStep(l, p) /\ up \in NativeRecord /\ Carried(p, up) /\ l.said = UpTo(up.text) /\ p \in Policy
  BY Zenon DEF Attempt, InStep
<1>2. InStep(m, q) /\ OpenSegments(q) = OpenSegments(p) \ us
  BY <1>1, ClosedInStep
<1>3. /\ q \in Policy /\ q.dropped = p.dropped /\ DOMAIN q.by_upstream = DOMAIN p.by_upstream
      /\ \A v \in DOMAIN p.by_upstream :
           /\ Segment(q, v).type = Segment(p, v).type /\ Segment(q, v).down = Segment(p, v).down
           /\ Segment(q, v).open = (Segment(p, v).open /\ v \notin us)
  BY DEF ClosedIn
<1>4. us \subseteq DOMAIN p.by_upstream
  BY <1>1, PolicyIs
<1>5. Carried(q, up)
  BY <1>1, <1>2, <1>3, <1>4 DEF Carried
<1>6. Progress(m, q, up)
  <2>1. l.started /\ ~ l.stopped /\ CanAppend(l)
    BY DEF Attempt, Progress
  <2>2. m.started /\ ~ m.stopped /\ CanAppend(m)
    BY <2>1, Zenon DEF Stilled, Kept, CanAppend
  <2> QED BY <2>2 DEF Progress, Ending
<1>7. m.said = UpTo(up.text)
  BY <1>1 DEF Stilled
<1>8. ASSUME Orderly PROVE CarriesTools(m, q, up)
  <2>1. CarriesTools(l, p, up) /\ m.blocks = l.blocks
    BY <1>8 DEF Attempt, Stilled
  <2>2. ToolBlocks(m) = ToolBlocks(l)
    BY <2>1, Zenon DEF ToolBlocks
  <2>3. ToolsOf(up) \subseteq DOMAIN p.by_upstream
    BY <1>1 DEF ToolsOf, Carried
  <2>4. \A u \in ToolsOf(up) : Segment(q, u).down = Segment(p, u).down
    BY <1>3, <2>3
  <2>5. \A u \in ToolsOf(up) : Segment(q, u).open \/ up.blocks[u].sent = 2
    BY <1>3, <1>8, <2>1, <2>3 DEF CarriesTools, ToolsOf, WholeIn
  <2>6. {Segment(q, u).down : u \in ToolsOf(up)} = {Segment(p, u).down : u \in ToolsOf(up)}
    BY <2>4
  <2> QED BY <2>1, <2>2, <2>4, <2>5, <2>6, Zenon DEF CarriesTools
<1> QED BY <1>1, <1>2, <1>5, <1>6, <1>7, <1>8, Zenon DEF Attempt

\* The upstream begins a block.
BegunBlock(up, new, u, type) ==
  /\ new \in NativeRecord /\ new.stage = up.stage /\ new.text = up.text
  /\ u \notin DOMAIN up.blocks /\ DOMAIN new.blocks = DOMAIN up.blocks \cup {u}
  /\ \A v \in DOMAIN up.blocks : new.blocks[v] = up.blocks[v]
  /\ new.blocks[u].type = type /\ new.blocks[u].open /\ new.blocks[u].sent = 0

LEMMA InStepLike ==
  ASSUME NEW l, NEW p, InStep(l, p), NEW q \in Policy, q.next = p.next,
         q.by_upstream = p.by_upstream, OpenSegments(q) = OpenSegments(p),
         \A v : Segment(q, v) = Segment(p, v)
  PROVE  InStep(l, q)
<1>1. q.next = l.next /\ \A u \in DOMAIN q.by_upstream : Segment(q, u).down < q.next
  BY DEF InStep
<1>2. /\ \A u \in OpenSegments(q) :
           /\ Segment(q, u).down \in Range(l.stack)
           /\ l.blocks[Segment(q, u).down].type = Segment(q, u).type
      /\ \A u, v \in OpenSegments(q) : Segment(q, u).down = Segment(q, v).down => u = v
      /\ \A i \in Range(l.stack) : \E u \in OpenSegments(q) : Segment(q, u).down = i
  BY DEF InStep
<1> QED BY <1>1, <1>2, Zenon DEF InStep

LEMMA ToolsLike ==
  ASSUME NEW l, NEW p, NEW up, CarriesTools(l, p, up), NEW q, NEW new, ToolsOf(new) = ToolsOf(up),
         \A v \in ToolsOf(up) : Segment(q, v) = Segment(p, v) /\ new.blocks[v] = up.blocks[v]
  PROVE  CarriesTools(l, q, new)
<1>1. {Segment(q, v).down : v \in ToolsOf(new)} = {Segment(p, v).down : v \in ToolsOf(up)}
  OBVIOUS
<1>2. ToolBlocks(l) = {Segment(q, v).down : v \in ToolsOf(new)}
  BY <1>1 DEF CarriesTools
<1>3. \A v \in ToolsOf(new) : /\ l.blocks[Segment(q, v).down].parts = Part(new.blocks[v].sent)
                              /\ Segment(q, v).open \/ new.blocks[v].sent = 2
  BY DEF CarriesTools
<1>4. \A v, w \in ToolsOf(new) : Segment(q, v).down = Segment(q, w).down => v = w
  BY DEF CarriesTools
<1> QED BY <1>2, <1>3, <1>4, Zenon DEF CarriesTools

LEMMA DroppedMatches ==
  ASSUME NEW l, NEW p, NEW up, Attempt(l, p, up), up.stage = "open", NEW new, NEW u \in Nat, NEW type,
         BegunBlock(up, new, u, type), type \in {"thinking", "redacted_thinking"},
         NEW q \in Policy, q.next = p.next, q.by_upstream = p.by_upstream,
         q.suppressed = p.suppressed, q.dropped = p.dropped \cup {u}
  PROVE  Attempt(l, q, new)
<1>1. InStep(l, p) /\ Carried(p, up) /\ new \in NativeRecord /\ l.said = UpTo(new.text) /\ p \in Policy
  BY Zenon DEF Attempt, InStep, BegunBlock
<1>2. /\ DOMAIN p.by_upstream \cup p.dropped = DOMAIN up.blocks
      /\ DOMAIN p.by_upstream \cap p.dropped = {}
      /\ p.suppressed \subseteq DOMAIN p.by_upstream \ OpenSegments(p)
      /\ \A v \in DOMAIN p.by_upstream : Segment(p, v).type = up.blocks[v].type
      /\ \A v \in OpenSegments(p) : up.blocks[v].open
      /\ \A v \in p.dropped : up.blocks[v].type \in {"thinking", "redacted_thinking"}
  BY <1>1 DEF Carried
<1>3. OpenSegments(q) = OpenSegments(p) /\ \A v : Segment(q, v) = Segment(p, v)
  BY Zenon DEF OpenSegments, Segment
<1>4. OpenSegments(p) \subseteq DOMAIN p.by_upstream
  BY <1>1, PolicyIs
<1>5. InStep(l, q)
  BY <1>1, <1>3, InStepLike
<1>6. Carried(q, new)
  <2>1. DOMAIN q.by_upstream \cup q.dropped = DOMAIN new.blocks
    BY <1>2 DEF BegunBlock
  <2>2. DOMAIN q.by_upstream \cap q.dropped = {}
    BY <1>2 DEF BegunBlock
  <2>3. \A v \in DOMAIN q.by_upstream : Segment(q, v).type = new.blocks[v].type
    BY <1>2, <1>3 DEF BegunBlock
  <2>4. \A v \in OpenSegments(q) : new.blocks[v].open
    BY <1>2, <1>3, <1>4 DEF BegunBlock
  <2>5. \A v \in q.dropped : new.blocks[v].type \in {"thinking", "redacted_thinking"}
    BY <1>2 DEF BegunBlock
  <2> QED BY <1>2, <1>3, <2>1, <2>2, <2>3, <2>4, <2>5 DEF Carried
<1>7. Progress(l, q, new)
  BY DEF Attempt, Progress, BegunBlock, Ending
<1>8. ASSUME Orderly PROVE CarriesTools(l, q, new)
  <2>1. CarriesTools(l, p, up)
    BY <1>8 DEF Attempt
  <2>2. ToolsOf(new) = ToolsOf(up) /\ \A v \in ToolsOf(up) : new.blocks[v] = up.blocks[v]
    BY DEF BegunBlock, ToolsOf
  <2> QED BY <1>3, <2>1, <2>2, ToolsLike
<1> QED BY <1>1, <1>5, <1>6, <1>7, <1>8, Zenon DEF Attempt

LEMMA SuppressedMatches ==
  ASSUME NEW l, NEW p, NEW up, Attempt(l, p, up), up.stage = "open",
         NEW q \in Policy, q.next = p.next, q.by_upstream = p.by_upstream,
         q.suppressed \subseteq p.suppressed, q.dropped = p.dropped
  PROVE  Attempt(l, q, up) /\ OpenSegments(q) = OpenSegments(p)
<1>1. OpenSegments(q) = OpenSegments(p) /\ \A v : Segment(q, v) = Segment(p, v)
  BY Zenon DEF OpenSegments, Segment
<1>2. InStep(l, q)
  BY <1>1, Zenon DEF Attempt, InStep
<1>3. Carried(q, up)
  BY <1>1 DEF Attempt, Carried
<1>4. Progress(l, q, up)
  BY DEF Attempt, Progress, Ending
<1>5. ASSUME Orderly PROVE CarriesTools(l, q, up)
  <2>1. CarriesTools(l, p, up)
    BY <1>5 DEF Attempt
  <2> QED BY <1>1, <2>1, ToolsLike
<1> QED BY <1>1, <1>2, <1>3, <1>4, <1>5, Zenon DEF Attempt

\* What a block's start adds to the ledger.
LEMMA StartedHere ==
  ASSUME NEW l, NEW m, NEW i, NEW type, StartedAt(l, m, i, type), i \notin DOMAIN l.blocks
  PROVE  /\ type # "tool_use" => ToolBlocks(m) = ToolBlocks(l)
         /\ type = "tool_use" => ToolBlocks(m) = ToolBlocks(l) \cup {i}
         /\ m.blocks[i].parts = <<>> /\ HasContentBlock(m) /\ m.said = l.said
         /\ \A x \in DOMAIN l.blocks : m.blocks[x] = l.blocks[x]
<1> DEFINE none == <<>>
<1>1. /\ DOMAIN m.blocks = DOMAIN l.blocks \cup {i} /\ m.blocks[i] = [type |-> type, parts |-> none]
      /\ \A x \in DOMAIN l.blocks : m.blocks[x] = l.blocks[x]
      /\ m.said = l.said
  BY Zenon DEF StartedAt
<1> HIDE DEF none
<1>2. m.blocks[i].type = type /\ m.blocks[i].parts = none
  BY <1>1
<1>3. ToolBlocks(m) = IF type = "tool_use" THEN ToolBlocks(l) \cup {i} ELSE ToolBlocks(l)
  BY <1>1, <1>2 DEF ToolBlocks
<1> QED BY <1>1, <1>2, <1>3 DEF none, HasContentBlock

LEMMA BegunMatches ==
  ASSUME NEW l, NEW p, NEW up, Attempt(l, p, up), up.stage = "open", NEW new, NEW u \in Nat, NEW type,
         BegunBlock(up, new, u, type), NEW q, Allocated(p, q, u, type), NEW m,
         StartedAt(l, m, p.next, type), InStep(m, q), Sound(l),
         OpenSegments(q) = OpenSegments(p) \cup {u}
  PROVE  Attempt(m, q, new)
<1>1. InStep(l, p) /\ Carried(p, up) /\ new \in NativeRecord /\ l.said = UpTo(new.text) /\ p \in Policy
      /\ p.next = l.next
  BY Zenon DEF Attempt, InStep, BegunBlock
<1>2. /\ DOMAIN p.by_upstream \cup p.dropped = DOMAIN up.blocks
      /\ DOMAIN p.by_upstream \cap p.dropped = {}
      /\ p.suppressed \subseteq DOMAIN p.by_upstream \ OpenSegments(p)
      /\ \A v \in DOMAIN p.by_upstream : Segment(p, v).type = up.blocks[v].type
      /\ \A v \in OpenSegments(p) : up.blocks[v].open
      /\ \A v \in p.dropped : up.blocks[v].type \in {"thinking", "redacted_thinking"}
  BY <1>1 DEF Carried
<1>3. /\ q \in Policy /\ q.next = p.next + 1 /\ q.dropped = p.dropped /\ q.suppressed = p.suppressed
      /\ DOMAIN q.by_upstream = DOMAIN p.by_upstream \cup {u}
      /\ Segment(q, u).type = type /\ Segment(q, u).down = p.next /\ Segment(q, u).open
      /\ \A v \in DOMAIN p.by_upstream \ {u} : Segment(q, v) = Segment(p, v)
  BY DEF Allocated
<1>4. u \notin DOMAIN p.by_upstream /\ u \notin p.dropped /\ u \notin DOMAIN up.blocks
  BY <1>2 DEF BegunBlock
<1>5. OpenSegments(p) \subseteq DOMAIN p.by_upstream
  BY <1>1, PolicyIs
<1>6. Carried(q, new)
  <2>1. DOMAIN q.by_upstream \cup q.dropped = DOMAIN new.blocks
    BY <1>2, <1>3 DEF BegunBlock
  <2>2. DOMAIN q.by_upstream \cap q.dropped = {}
    BY <1>2, <1>3, <1>4
  <2>3. \A v \in DOMAIN q.by_upstream : Segment(q, v).type = new.blocks[v].type
    BY <1>2, <1>3, <1>4 DEF BegunBlock
  <2>4. \A v \in OpenSegments(q) : new.blocks[v].open
    BY <1>2, <1>5 DEF BegunBlock
  <2>5. \A v \in q.dropped : new.blocks[v].type \in {"thinking", "redacted_thinking"}
    BY <1>2, <1>3 DEF BegunBlock
  <2>6. q.suppressed \subseteq DOMAIN q.by_upstream \ OpenSegments(q)
    BY <1>2, <1>3, <1>4
  <2> QED BY <2>1, <2>2, <2>3, <2>4, <2>5, <2>6 DEF Carried
<1>7. p.next \notin DOMAIN l.blocks
  <2>1. \A i \in DOMAIN l.blocks : i < l.next
    BY DEF Sound
  <2>2. l.next \in Nat
    BY <1>1, PolicyIs
  <2> QED BY <1>1, <2>1, <2>2
<1>8. /\ type # "tool_use" => ToolBlocks(m) = ToolBlocks(l)
      /\ type = "tool_use" => ToolBlocks(m) = ToolBlocks(l) \cup {p.next}
      /\ m.blocks[p.next].parts = <<>> /\ HasContentBlock(m) /\ m.said = l.said
      /\ \A x \in DOMAIN l.blocks : m.blocks[x] = l.blocks[x]
  BY <1>7, StartedHere
<1>9. Progress(m, q, new)
  <2>1. l.started /\ ~ l.stopped /\ CanAppend(l)
    BY DEF Attempt, Progress
  <2>2. m.started /\ ~ m.stopped /\ CanAppend(m)
    BY <2>1, Zenon DEF StartedAt, Kept, CanAppend
  <2>3. new.stage = "open"
    BY DEF BegunBlock
  <2> QED BY <2>2, <2>3 DEF Progress, Ending
<1>10. ASSUME Orderly PROVE CarriesTools(m, q, new)
  <2>1. CarriesTools(l, p, up)
    BY <1>10 DEF Attempt
  <2>2. ToolsOf(up) \subseteq DOMAIN p.by_upstream /\ u \notin ToolsOf(up)
    BY <1>2, <1>4 DEF ToolsOf
  <2>3. \A v \in ToolsOf(up) : Segment(q, v) = Segment(p, v) /\ new.blocks[v] = up.blocks[v]
    BY <1>3, <2>2 DEF BegunBlock, ToolsOf
  <2>4. \A v \in ToolsOf(up) : Segment(p, v).down \in ToolBlocks(l)
    BY <2>1, Zenon DEF CarriesTools
  <2>5. ToolBlocks(l) \subseteq DOMAIN l.blocks
    BY DEF ToolBlocks
  <2>6. \A v \in ToolsOf(up) : /\ m.blocks[Segment(q, v).down].parts = Part(new.blocks[v].sent)
                               /\ Segment(q, v).open \/ new.blocks[v].sent = 2
    <3> SUFFICES ASSUME NEW v \in ToolsOf(up)
                 PROVE  /\ m.blocks[Segment(q, v).down].parts = Part(new.blocks[v].sent)
                        /\ Segment(q, v).open \/ new.blocks[v].sent = 2
      OBVIOUS
    <3>1. /\ l.blocks[Segment(p, v).down].parts = Part(up.blocks[v].sent)
          /\ Segment(p, v).open \/ up.blocks[v].sent = 2
      BY <2>1, Zenon DEF CarriesTools
    <3>2. m.blocks[Segment(p, v).down] = l.blocks[Segment(p, v).down]
      BY <1>8, <2>4, <2>5
    <3>3. Segment(q, v) = Segment(p, v) /\ new.blocks[v] = up.blocks[v]
      BY <2>3
    <3> QED BY <3>1, <3>2, <3>3
  <2>7. \A v \in ToolsOf(up) : Segment(q, v).down # p.next
    BY <1>7, <2>3, <2>4, <2>5, Zenon
  <2>8. CASE type # "tool_use"
    <3>1. ToolsOf(new) = ToolsOf(up)
      BY <2>8 DEF BegunBlock, ToolsOf
    <3>2. {Segment(q, v).down : v \in ToolsOf(up)} = {Segment(p, v).down : v \in ToolsOf(up)}
      BY <2>3
    <3>3. ToolBlocks(m) = {Segment(q, v).down : v \in ToolsOf(new)}
      BY <1>8, <2>1, <2>8, <3>1, <3>2 DEF CarriesTools
    <3>4. \A v, w \in ToolsOf(new) : Segment(q, v).down = Segment(q, w).down => v = w
      BY <2>1, <2>3, <3>1, Zenon DEF CarriesTools
    <3> QED BY <2>6, <3>1, <3>3, <3>4, Zenon DEF CarriesTools
  <2>9. CASE type = "tool_use"
    <3>1. ToolsOf(new) = ToolsOf(up) \cup {u}
      BY <2>9 DEF BegunBlock, ToolsOf
    <3>2. {Segment(q, v).down : v \in ToolsOf(up)} = {Segment(p, v).down : v \in ToolsOf(up)}
      BY <2>3
    <3>3. ToolBlocks(m) = {Segment(q, v).down : v \in ToolsOf(up)} \cup {Segment(q, u).down}
      BY <1>3, <1>8, <2>1, <2>9, <3>2 DEF CarriesTools
    <3>4. ToolBlocks(m) = {Segment(q, v).down : v \in ToolsOf(new)}
      BY <3>1, <3>3, Zenon
    <3>5. \A v, w \in ToolsOf(new) : Segment(q, v).down = Segment(q, w).down => v = w
      BY <1>3, <2>1, <2>3, <2>7, <3>1, Zenon DEF CarriesTools
    <3>6. m.blocks[Segment(q, u).down].parts = Part(new.blocks[u].sent)
      BY <1>3, <1>8 DEF BegunBlock, Part
    <3>7. \A v \in ToolsOf(new) : /\ m.blocks[Segment(q, v).down].parts = Part(new.blocks[v].sent)
                                  /\ Segment(q, v).open \/ new.blocks[v].sent = 2
      BY <1>3, <2>6, <3>1, <3>6, Zenon
    <3> QED BY <3>4, <3>5, <3>7, Zenon DEF CarriesTools
  <2> QED BY <2>8, <2>9
<1>11. m.said = UpTo(new.text)
  BY <1>1, <1>8, Zenon
<1> QED BY <1>1, <1>6, <1>9, <1>10, <1>11, Zenon DEF Attempt
\* A segment is begun for a block whose segment is closed.
LEMMA ReopenedMatches ==
  ASSUME NEW l, NEW p, NEW up, Attempt(l, p, up), up.stage = "open", NEW u \in DOMAIN p.by_upstream,
         u \notin OpenSegments(p), u \notin p.suppressed, up.blocks[u].open, NEW type,
         type = up.blocks[u].type, Orderly => type # "tool_use",
         NEW q, Allocated(p, q, u, type), NEW m, StartedAt(l, m, p.next, type), InStep(m, q), Sound(l),
         OpenSegments(q) = OpenSegments(p) \cup {u}
  PROVE  Attempt(m, q, up)
<1>1. InStep(l, p) /\ Carried(p, up) /\ up \in NativeRecord /\ l.said = UpTo(up.text) /\ p \in Policy
      /\ p.next = l.next
  BY Zenon DEF Attempt, InStep
<1>3. /\ q \in Policy /\ q.next = p.next + 1 /\ q.dropped = p.dropped /\ q.suppressed = p.suppressed
      /\ DOMAIN q.by_upstream = DOMAIN p.by_upstream
      /\ Segment(q, u).type = type /\ Segment(q, u).down = p.next /\ Segment(q, u).open
      /\ \A v \in DOMAIN p.by_upstream \ {u} : Segment(q, v) = Segment(p, v)
  BY DEF Allocated
<1>6. Carried(q, up)
  BY <1>1, <1>3 DEF Carried
<1>7. p.next \notin DOMAIN l.blocks
  <2>1. \A i \in DOMAIN l.blocks : i < l.next
    BY DEF Sound
  <2>2. l.next \in Nat
    BY <1>1, PolicyIs
  <2> QED BY <1>1, <2>1, <2>2
<1>8. /\ type # "tool_use" => ToolBlocks(m) = ToolBlocks(l)
      /\ m.blocks[p.next].parts = <<>> /\ HasContentBlock(m) /\ m.said = l.said
      /\ \A x \in DOMAIN l.blocks : m.blocks[x] = l.blocks[x]
  BY <1>7, StartedHere
<1>9. Progress(m, q, up)
  <2>1. l.started /\ ~ l.stopped /\ CanAppend(l)
    BY DEF Attempt, Progress
  <2>2. m.started /\ ~ m.stopped /\ CanAppend(m)
    BY <2>1, Zenon DEF StartedAt, Kept, CanAppend
  <2> QED BY <2>2 DEF Progress, Ending
<1>10. ASSUME Orderly PROVE CarriesTools(m, q, up)
  <2>1. CarriesTools(l, p, up) /\ type # "tool_use"
    BY <1>10 DEF Attempt
  <2>2. ToolsOf(up) \subseteq DOMAIN p.by_upstream \ {u}
    BY <1>1, <2>1 DEF ToolsOf, Carried
  <2>3. \A v \in ToolsOf(up) : Segment(q, v) = Segment(p, v)
    BY <1>3, <2>2
  <2>4. CarriesTools(l, q, up)
    BY <2>1, <2>3, ToolsLike
  <2>5. ToolBlocks(m) = ToolBlocks(l) /\ ToolBlocks(l) \subseteq DOMAIN l.blocks
    BY <1>8, <2>1 DEF ToolBlocks
  <2>6. \A v \in ToolsOf(up) : Segment(q, v).down \in ToolBlocks(l)
    BY <2>4, Zenon DEF CarriesTools
  <2>7. \A v \in ToolsOf(up) : m.blocks[Segment(q, v).down] = l.blocks[Segment(q, v).down]
    BY <1>8, <2>5, <2>6
  <2> QED BY <2>4, <2>5, <2>7 DEF CarriesTools
<1>11. m.said = UpTo(up.text)
  BY <1>1, <1>8, Zenon
<1> QED BY <1>1, <1>6, <1>9, <1>10, <1>11, Zenon DEF Attempt

\* The upstream's block grows by a fragment.
GrownBlock(up, new, u, data) ==
  /\ new \in NativeRecord /\ new.stage = up.stage /\ DOMAIN new.blocks = DOMAIN up.blocks
  /\ \A v \in DOMAIN up.blocks : /\ new.blocks[v].type = up.blocks[v].type
                                 /\ new.blocks[v].open = up.blocks[v].open
                                 /\ v # u => new.blocks[v].sent = up.blocks[v].sent
  /\ up.blocks[u].type = "text" => data = <<up.text + 1>> /\ new.text = up.text + 1
  /\ up.blocks[u].type # "text" => new.text = up.text
  /\ up.blocks[u].type = "tool_use" =>
       data = <<new.blocks[u].sent>> /\ new.blocks[u].sent = up.blocks[u].sent + 1

LEMMA GrownStep ==
  ASSUME NEW l, NEW m, NEW p, InStep(l, p), NEW i \in Range(l.stack), NEW data, GrownAt(l, m, i, data),
         Range(l.stack) \subseteq DOMAIN l.blocks
  PROVE  /\ InStep(m, p) /\ \A x \in DOMAIN l.blocks : m.blocks[x].type = l.blocks[x].type
         /\ ToolBlocks(m) = ToolBlocks(l)
<1> DEFINE more == l.blocks[i].parts \o data
<1>0. i \in DOMAIN l.blocks
  OBVIOUS
<1>1. /\ DOMAIN m.blocks = DOMAIN l.blocks /\ m.blocks[i] = [type |-> l.blocks[i].type, parts |-> more]
      /\ \A x \in DOMAIN l.blocks \ {i} : m.blocks[x] = l.blocks[x]
      /\ m.next = l.next /\ m.stack = l.stack
  BY Zenon DEF GrownAt
<1> HIDE DEF more
<1>2. \A x \in DOMAIN l.blocks : m.blocks[x].type = l.blocks[x].type
  BY <1>0, <1>1
<1>3. ToolBlocks(m) = ToolBlocks(l)
  BY <1>1, <1>2 DEF ToolBlocks
<1>4. \A j \in Range(l.stack) : m.blocks[j].type = l.blocks[j].type
  BY <1>2
<1>5. InStep(m, p)
  <2>1. p \in Policy /\ p.next = m.next /\ Range(m.stack) = Range(l.stack)
        /\ \A u \in DOMAIN p.by_upstream : Segment(p, u).down < p.next
    BY <1>1, Zenon DEF InStep
  <2>2. \A u \in OpenSegments(p) : /\ Segment(p, u).down \in Range(m.stack)
                                  /\ m.blocks[Segment(p, u).down].type = Segment(p, u).type
    BY <1>4, <2>1 DEF InStep
  <2>3. /\ \A u, v \in OpenSegments(p) : Segment(p, u).down = Segment(p, v).down => u = v
        /\ \A j \in Range(m.stack) : \E u \in OpenSegments(p) : Segment(p, u).down = j
    BY <2>1 DEF InStep
  <2> QED BY <2>1, <2>2, <2>3, Zenon DEF InStep
<1> QED BY <1>2, <1>3, <1>5
LEMMA GrownMatches ==
  ASSUME NEW l, NEW p, NEW up, Attempt(l, p, up), up.stage = "open", NEW u \in OpenSegments(p),
         NEW new, NEW data, GrownBlock(up, new, u, data), NEW i, i = Segment(p, u).down,
         NEW m, GrownAt(l, m, i, data), Sound(l)
  PROVE  Attempt(m, p, new)
<1>1. InStep(l, p) /\ Carried(p, up) /\ up \in NativeRecord /\ l.said = UpTo(up.text) /\ p \in Policy
  BY Zenon DEF Attempt, InStep
<1>2. /\ i \in Range(l.stack) /\ l.blocks[i].type = Segment(p, u).type
      /\ u \in DOMAIN p.by_upstream /\ u \in DOMAIN up.blocks
      /\ Segment(p, u).type = up.blocks[u].type
  <2>1. u \in DOMAIN p.by_upstream
    BY <1>1, PolicyIs
  <2> QED BY <1>1, <2>1 DEF InStep, Carried
<1>3. Range(l.stack) \subseteq DOMAIN l.blocks
  BY DEF Sound
<1>4. /\ InStep(m, p) /\ ToolBlocks(m) = ToolBlocks(l)
      /\ \A x \in DOMAIN l.blocks : m.blocks[x].type = l.blocks[x].type
  BY <1>1, <1>2, <1>3, GrownStep
<1>5. Carried(p, new)
  <2>1. \A v \in OpenSegments(p) : new.blocks[v].open
    BY <1>1, PolicyIs DEF Carried, GrownBlock
  <2>2. \A v \in DOMAIN p.by_upstream : Segment(p, v).type = new.blocks[v].type
    BY <1>1 DEF Carried, GrownBlock
  <2>3. \A v \in p.dropped : new.blocks[v].type \in {"thinking", "redacted_thinking"}
    BY <1>1 DEF Carried, GrownBlock
  <2>4. DOMAIN p.by_upstream \cup p.dropped = DOMAIN new.blocks
    BY <1>1 DEF Carried, GrownBlock
  <2> QED BY <1>1, <2>1, <2>2, <2>3, <2>4 DEF Carried
<1>6. Progress(m, p, new)
  <2>1. l.started /\ ~ l.stopped /\ CanAppend(l)
    BY DEF Attempt, Progress
  <2>2. m.started /\ ~ m.stopped /\ CanAppend(m)
    BY <2>1, Zenon DEF GrownAt, Kept, CanAppend
  <2>3. new.stage = "open"
    BY DEF GrownBlock
  <2> QED BY <2>2, <2>3 DEF Progress, Ending
<1>7. m.said = UpTo(new.text)
  <2>1. m.said = IF l.blocks[i].type = "text" THEN l.said \o data ELSE l.said
    BY Zenon DEF GrownAt
  <2>2. CASE up.blocks[u].type = "text"
    <3>1. data = <<up.text + 1>> /\ new.text = up.text + 1
      BY <2>2, Zenon DEF GrownBlock
    <3>2. m.said = l.said \o data
      BY <1>2, <2>1, <2>2
    <3>3. up.text \in Nat
      BY <1>1, NativeIs
    <3>4. UpTo(up.text) \o <<up.text + 1>> = UpTo(up.text + 1)
      BY <3>3, UpToNext
    <3> QED BY <1>1, <3>1, <3>2, <3>4, Zenon
  <2>3. CASE up.blocks[u].type # "text"
    <3>1. new.text = up.text
      BY <2>3, Zenon DEF GrownBlock
    <3> QED BY <1>1, <1>2, <2>1, <2>3, <3>1
  <2> QED BY <2>2, <2>3
<1>8. ASSUME Orderly PROVE CarriesTools(m, p, new)
  <2>1. /\ ToolBlocks(l) = {Segment(p, v).down : v \in ToolsOf(up)}
        /\ \A v \in ToolsOf(up) :
             /\ l.blocks[Segment(p, v).down].parts = Part(up.blocks[v].sent)
             /\ Segment(p, v).open \/ up.blocks[v].sent = 2
        /\ \A v, w \in ToolsOf(up) : Segment(p, v).down = Segment(p, w).down => v = w
    BY <1>8 DEF Attempt, CarriesTools
  <2>2. ToolsOf(new) = ToolsOf(up)
    BY DEF ToolsOf, GrownBlock
  <2>3. ASSUME NEW v \in ToolsOf(up), v # u
        PROVE  /\ m.blocks[Segment(p, v).down].parts = Part(new.blocks[v].sent)
               /\ Segment(p, v).open \/ new.blocks[v].sent = 2
    <3>1. new.blocks[v].sent = up.blocks[v].sent
      BY <2>3 DEF GrownBlock, ToolsOf
    <3>2. Segment(p, v).down \in ToolBlocks(l) /\ ToolBlocks(l) \subseteq DOMAIN l.blocks
      BY <2>1 DEF ToolBlocks
    <3>3. Segment(p, v).down # i
      <4>1. CASE u \in ToolsOf(up)
        BY <2>1, <2>3, <4>1
      <4>2. CASE u \notin ToolsOf(up)
        <5>1. i \notin ToolBlocks(l)
          BY <1>2, <4>2 DEF ToolBlocks, ToolsOf
        <5> QED BY <3>2, <5>1
      <4> QED BY <4>1, <4>2
    <3>4. m.blocks[Segment(p, v).down] = l.blocks[Segment(p, v).down]
      BY <3>2, <3>3 DEF GrownAt
    <3> QED BY <2>1, <3>1, <3>4
  <2>4. ASSUME u \in ToolsOf(up)
        PROVE  /\ m.blocks[i].parts = Part(new.blocks[u].sent)
               /\ Segment(p, u).open \/ new.blocks[u].sent = 2
    <3> DEFINE k == up.blocks[u].sent
    <3>1. data = <<new.blocks[u].sent>> /\ new.blocks[u].sent = k + 1
      BY <2>4, Zenon DEF GrownBlock, ToolsOf
    <3>2. k \in 0 .. 2 /\ new.blocks[u].sent \in 0 .. 2
      <4>1. up \in NativeRecord /\ new \in NativeRecord /\ u \in DOMAIN new.blocks
        BY <1>1, <1>2 DEF GrownBlock
      <4> QED BY <1>2, <4>1, NativeIs
    <3>3. m.blocks[i].parts = l.blocks[i].parts \o data
      <4> DEFINE more == l.blocks[i].parts \o data
      <4>1. m.blocks[i] = [type |-> l.blocks[i].type, parts |-> more]
        BY Zenon DEF GrownAt
      <4> HIDE DEF more
      <4>2. m.blocks[i].parts = more
        BY <4>1
      <4> QED BY <4>2 DEF more
    <3>4. l.blocks[i].parts = Part(k)
      BY <2>1, <2>4
    <3>5. Segment(p, u).open
      BY <1>1, PolicyIs
    <3> HIDE DEF k
    <3>6. k < 2
      BY <3>1, <3>2
    <3>7. Part(k) \o <<k + 1>> = Part(k + 1)
      BY <3>2, <3>6, PartIs
    <3>8. m.blocks[i].parts = Part(new.blocks[u].sent)
      BY <3>1, <3>3, <3>4, <3>7, Zenon
    <3> QED BY <3>5, <3>8
  <2>5. \A v \in ToolsOf(new) : /\ m.blocks[Segment(p, v).down].parts = Part(new.blocks[v].sent)
                                /\ Segment(p, v).open \/ new.blocks[v].sent = 2
    BY <2>2, <2>3, <2>4
  <2> QED BY <1>4, <2>1, <2>2, <2>5, Zenon DEF CarriesTools
<1>9. new \in NativeRecord
  BY Zenon DEF GrownBlock
<1> QED BY <1>4, <1>5, <1>6, <1>7, <1>8, <1>9, Zenon DEF Attempt
-----------------------------------------------------------------------------
(* The upstream's events.                                                   *)

LEMMA EvIs ==
  ASSUME NEW name, NEW i, NEW type, NEW data, NEW j
  PROVE  /\ Ev(name, i, type, data).name = name /\ Ev(name, i, type, data).i = i
         /\ Ev(name, i, type, data).type = type /\ Ev(name, i, type, data).data = data
         /\ [Ev(name, i, type, data) EXCEPT !.i = j] = Ev(name, j, type, data)
BY DEF Ev

StartEv(i, type) == Ev("content_block_start", i, type, <<>>)
GrowthEv(i, type, data) == Ev("content_block_delta", i, type, data)

LEMMA BlockEvents ==
  ASSUME NEW w, NEW i \in Nat, NEW type \in BlockType, NEW data \in Seq(Nat)
  PROVE  /\ StartEv(i, type) \in Event /\ Ingest(w, StartEv(i, type)) = BlockStart(w, i, type)
         /\ GrowthEv(i, type, data) \in Event
         /\ Ingest(w, GrowthEv(i, type, data)) = BlockDelta(w, i, type, data)
         /\ StopEv(i) \in Event /\ Ingest(w, StopEv(i)) = BlockStop(w, i)
<1>1. StartEv(i, type) \in Event
  <2>1. <<>> \in Seq(Nat)
    OBVIOUS
  <2>2. i \in Int
    OBVIOUS
  <2>3. type \in EventType
    BY Zenon DEF EventType
  <2> QED BY <2>1, <2>2, <2>3, Zenon DEF StartEv, Ev, Event, EventType
<1>2. GrowthEv(i, type, data) \in Event
  <2>1. i \in Int
    OBVIOUS
  <2>2. type \in EventType
    BY Zenon DEF EventType
  <2> QED BY <2>1, <2>2, Zenon DEF GrowthEv, Ev, Event, EventType
<1>3. /\ StartEv(i, type).name = "content_block_start" /\ StartEv(i, type).i = i
      /\ StartEv(i, type).type = type
  BY EvIs DEF StartEv
<1>4. /\ GrowthEv(i, type, data).name = "content_block_delta" /\ GrowthEv(i, type, data).i = i
      /\ GrowthEv(i, type, data).type = type /\ GrowthEv(i, type, data).data = data
  BY EvIs DEF GrowthEv
<1>5. Ingest(w, StartEv(i, type)) = BlockStart(w, i, type)
  BY <1>3, IngestIs
<1>6. Ingest(w, GrowthEv(i, type, data)) = BlockDelta(w, i, type, data)
  BY <1>4, IngestIs
<1>7. StopEv(i) \in Event /\ StopEv(i).name = "content_block_stop" /\ StopEv(i).i = i
  BY StopEvIs
<1>8. Ingest(w, StopEv(i)) = BlockStop(w, i)
  BY <1>7, IngestIs
<1> QED BY <1>1, <1>2, <1>5, <1>6, <1>7, <1>8

LEMMA TransformIs ==
  ASSUME NEW p, NEW e, NEW th
  PROVE  /\ e.name = "content_block_start" => Transform(p, e, th) = BlockStarted(p, e, th)
         /\ e.name = "content_block_delta" => Transform(p, e, th) = BlockGrown(p, e, th)
         /\ e.name = "content_block_stop" => Transform(p, e, th) = BlockStopped(p, e, th)
         /\ e.name \notin {"content_block_start", "content_block_delta", "content_block_stop"} =>
              Transform(p, e, th) = Becomes(p, <<e>>)
BY DEF Transform

LEMMA BecomesIs ==
  ASSUME NEW p, NEW es
  PROVE  Becomes(p, es).policy = p /\ Becomes(p, es).out = es
BY DEF Becomes

\* What a client is told agrees with what the upstream and the policy say.
Accords(c, w, q, new) == Tells(c, w) /\ Attempt(w.l, q, new)
PassedOn(c, w, t, new) == Accords(c, IngestAll(w, t.out), t.policy, new)

\* While the upstream's message is open.
Hears(c, w, p, up) == Accords(c, w, p, up) /\ up.stage = "open"

LEMMA HearsIs ==
  ASSUME NEW c, NEW w, NEW p, NEW up, Hears(c, w, p, up)
  PROVE  /\ Tells(c, w) /\ Speaks(w) /\ Sound(w.l) /\ InStep(w.l, p)
         /\ p \in Policy /\ up \in NativeRecord /\ Carried(p, up) /\ Attempt(w.l, p, up)
         /\ OpenSegments(p) \subseteq DOMAIN p.by_upstream /\ DOMAIN p.by_upstream \subseteq Nat
         /\ p.next \in Nat /\ p.next = w.l.next /\ up.stage = "open" /\ CanAppend(w.l)
<1>1. Tells(c, w) /\ Attempt(w.l, p, up) /\ up.stage = "open"
  BY Zenon DEF Hears, Accords
<1>3. InStep(w.l, p) /\ up \in NativeRecord /\ Carried(p, up) /\ Progress(w.l, p, up)
  BY <1>1, Zenon DEF Attempt
<1>4. w.l.started /\ ~ w.l.stopped /\ CanAppend(w.l)
  BY <1>1, <1>3 DEF Progress
<1>5. Speaks(w) /\ Sound(w.l)
  BY <1>1, <1>4, ToldFields, Zenon DEF Speaks
<1>6. p \in Policy /\ p.next = w.l.next
  BY <1>3, Zenon DEF InStep
<1>7. /\ OpenSegments(p) \subseteq DOMAIN p.by_upstream /\ DOMAIN p.by_upstream \subseteq Nat
      /\ p.next \in Nat
  BY <1>6, PolicyIs
<1> QED BY <1>1, <1>3, <1>4, <1>5, <1>6, <1>7
LEMMA StopsAre ==
  ASSUME NEW p \in Policy, NEW n \in Nat, NEW us \in SUBSET (1 .. n), us \subseteq OpenSegments(p)
  PROVE  /\ StopsOf(p, us) \in Seq(Event) /\ Len(StopsOf(p, us)) = Cardinality(us)
         /\ Cardinality(us) \in Nat
<1> DEFINE N == Cardinality(us)
<1>1. N \in Nat /\ \A k \in 1 .. N : Nth(us, k) \in us
  <2>1. n + 1 \in Nat /\ us \in SUBSET (0 .. (n + 1) - 1)
    OBVIOUS
  <2> QED BY <2>1, NthIs
<1>2. \A u \in us : Segment(p, u).down \in Int
  BY PolicyIs
<1>3. \A i \in Int : StopEv(i) \in Event
  BY StopEvIs
<1>4. StopsOf(p, us) = [k \in 1 .. N |-> StopEv(Segment(p, Nth(us, k)).down)]
  BY Zenon DEF StopsOf, StopEv
<1> HIDE DEF N
<1>5. \A k \in 1 .. N : StopEv(Segment(p, Nth(us, k)).down) \in Event
  BY <1>1, <1>2, <1>3
<1>6. StopsOf(p, us) \in Seq(Event) /\ Len(StopsOf(p, us)) = N
  BY <1>1, <1>4, <1>5
<1> QED BY <1>1, <1>6 DEF N

LEMMA IngestStops ==
  ASSUME NEW p \in Policy, NEW n \in Nat, NEW us \in SUBSET (1 .. n), us \subseteq OpenSegments(p),
         NEW w, NEW e \in Event
  PROVE  \E g : /\ StopsFrom(g, p, us, w)
                /\ IngestAll(w, StopsOf(p, us) \o <<e>>) = Ingest(g[Cardinality(us)], e)
<1> DEFINE N == Cardinality(us)
           s == StopsOf(p, us)
           es == s \o <<e>>
<1>1. s \in Seq(Event) /\ Len(s) = N /\ N \in Nat
  BY StopsAre
<1> HIDE DEF s, N
<1>2. /\ es \in Seq(Event) /\ Len(es) = N + 1 /\ \A k \in 1 .. N : es[k] = s[k]
      /\ es[N + 1] = e
  BY <1>1
<1> HIDE DEF es
<1>3. PICK g : /\ g[0] = w /\ IngestAll(w, es) = g[Len(es)]
               /\ \A k \in 1 .. Len(es) : g[k] = Ingest(g[k - 1], es[k])
  BY <1>2, IngestAllIs
<1>4. ASSUME NEW k \in 1 .. N PROVE g[k] = Ingest(g[k - 1], s[k])
  <2>1. k \in 1 .. Len(es) /\ es[k] = s[k]
    BY <1>1, <1>2
  <2> QED BY <1>3, <2>1
<1>5. StopsFrom(g, p, us, w)
  BY <1>3, <1>4 DEF StopsFrom, s, N
<1>6. g[N + 1] = Ingest(g[N], e)
  <2>1. N + 1 \in 1 .. Len(es) /\ (N + 1) - 1 = N
    BY <1>1, <1>2
  <2> QED BY <1>2, <1>3, <2>1
<1>7. IngestAll(w, es) = Ingest(g[N], e)
  BY <1>2, <1>3, <1>6
<1> QED BY <1>5, <1>7 DEF es, s, N
LEMMA OthersAre ==
  ASSUME NEW p \in Policy, NEW u
  PROVE  Others(p, u) \subseteq OpenSegments(p) /\ u \notin Others(p, u)
BY DEF Others



LEMMA OthersClosed ==
  ASSUME NEW c, NEW w, NEW p, NEW up, Hears(c, w, p, up), NEW u, NEW g,
         StopsFrom(g, p, Others(p, u), w), WholeIn(up, OpenSegments(p))
  PROVE  LET v == g[Cardinality(Others(p, u))]
             q == CloseOthers(p, u)
         IN  Hears(c, v, q, up) /\ q.next = p.next
             /\ OpenSegments(q) = OpenSegments(p) \ Others(p, u)
             /\ DOMAIN q.by_upstream = DOMAIN p.by_upstream
<1> DEFINE us == Others(p, u)
           v == g[Cardinality(us)]
           q == CloseOthers(p, u)
           n == Len(up.blocks)
<1>1. /\ Tells(c, w) /\ Speaks(w) /\ InStep(w.l, p)
      /\ p \in Policy /\ up \in NativeRecord /\ Carried(p, up) /\ Attempt(w.l, p, up)
      /\ OpenSegments(p) \subseteq DOMAIN p.by_upstream /\ up.stage = "open"
  BY HearsIs
<1>2. us \subseteq OpenSegments(p)
  BY <1>1, OthersAre
<1>3. us \in SUBSET (1 .. n) /\ n \in Nat
  <2>1. DOMAIN up.blocks = 1 .. n /\ n \in Nat
    BY <1>1, NativeIs
  <2>2. DOMAIN p.by_upstream \subseteq DOMAIN up.blocks
    BY <1>1 DEF Carried
  <2> QED BY <1>1, <1>2, <2>1, <2>2
<1>4. ClosedIn(p, q, us) /\ q.suppressed = p.suppressed \cup us
  BY <1>1, CloseOthersIs
<1>5. StopsFrom(g, p, us, w)
  OBVIOUS
<1> HIDE DEF us, n, q
<1>6. Tells(c, v) /\ Speaks(v) /\ Stilled(w.l, v.l, p, us)
  BY <1>1, <1>2, <1>3, <1>5, StopsTold
<1> HIDE DEF v
<1>8. Attempt(v.l, q, up) /\ OpenSegments(q) = OpenSegments(p) \ us
  <2>1. WholeIn(up, us)
    BY <1>2 DEF WholeIn
  <2>2. q.suppressed \subseteq p.suppressed \cup us
    BY <1>4
  <2>3. /\ Attempt(w.l, p, up) /\ up.stage = "open" /\ ClosedIn(p, q, us)
        /\ Stilled(w.l, v.l, p, us) /\ us \subseteq OpenSegments(p)
    BY <1>1, <1>2, <1>4, <1>6
  <2> QED BY <2>1, <2>2, <2>3, ClosedMatches
<1>9. Hears(c, v, q, up)
  BY <1>1, <1>6, <1>8, Zenon DEF Hears, Accords
<1>10. q.next = p.next /\ DOMAIN q.by_upstream = DOMAIN p.by_upstream
  BY <1>4, Zenon DEF ClosedIn
<1> QED BY <1>8, <1>9, <1>10, Zenon DEF us, v, q

\* A block begins: it is dropped, or the other segments are closed and one is begun.
StartsBlock(c, w, p, up, u, type, new) ==
  /\ Hears(c, w, p, up) /\ u \in Nat /\ type \in BlockType /\ BegunBlock(up, new, u, type)

LEMMA NotThere ==
  ASSUME NEW c, NEW w, NEW p, NEW up, NEW u, NEW type, NEW new, StartsBlock(c, w, p, up, u, type, new)
  PROVE  u \notin DOMAIN p.by_upstream /\ u \notin OpenSegments(p) /\ u \notin p.dropped /\ new.stage = "open"
<1>1. Hears(c, w, p, up) /\ BegunBlock(up, new, u, type)
  BY Zenon DEF StartsBlock
<1>2. Carried(p, up) /\ OpenSegments(p) \subseteq DOMAIN p.by_upstream /\ up.stage = "open"
  BY <1>1, HearsIs
<1>3. DOMAIN p.by_upstream \cup p.dropped = DOMAIN up.blocks
  BY <1>2, Zenon DEF Carried
<1>4. u \notin DOMAIN up.blocks /\ new.stage = up.stage
  BY <1>1, Zenon DEF BegunBlock
<1> QED BY <1>2, <1>3, <1>4

\* A segment is begun for it.
LEMMA BeginsTold ==
  ASSUME NEW c, NEW w, NEW p, NEW up, NEW u, NEW type, NEW new, StartsBlock(c, w, p, up, u, type, new),
         NEW v, v = BlockStart(w, p.next, type), NEW q, q = Allocate(p, u, type)
  PROVE  Hears(c, v, q, new) /\ Segment(q, u).down = p.next /\ u \in OpenSegments(q)
         /\ q.dropped = p.dropped
<1>1. Hears(c, w, p, up) /\ u \in Nat /\ type \in BlockType /\ BegunBlock(up, new, u, type)
  BY Zenon DEF StartsBlock
<1>2. /\ Tells(c, w) /\ Speaks(w) /\ Sound(w.l) /\ InStep(w.l, p) /\ Attempt(w.l, p, up)
      /\ up.stage = "open"
  BY <1>1, HearsIs
<1>3. u \notin OpenSegments(p) /\ new.stage = "open"
  BY NotThere
<1>4. /\ Tells(c, v) /\ Speaks(v) /\ StartedAt(w.l, v.l, p.next, type) /\ InStep(v.l, q)
      /\ Allocated(p, q, u, type) /\ OpenSegments(q) = OpenSegments(p) \cup {u}
  BY <1>1, <1>2, <1>3, AllocateStep
<1>5. Attempt(v.l, q, new)
  BY <1>1, <1>2, <1>4, BegunMatches
<1>6. Segment(q, u).down = p.next /\ q.dropped = p.dropped
  BY <1>4, Zenon DEF Allocated
<1> QED BY <1>3, <1>4, <1>5, <1>6, Zenon DEF Hears, Accords
\* A block of the upstream is dropped.
Drops(p, u) == [p EXCEPT !.dropped = p.dropped \cup {u}]

LEMMA DropsIs ==
  ASSUME NEW p \in Policy, NEW u \in Nat
  PROVE  /\ Drops(p, u) \in Policy /\ Drops(p, u).dropped = p.dropped \cup {u}
         /\ Drops(p, u).next = p.next /\ Drops(p, u).by_upstream = p.by_upstream
         /\ Drops(p, u).suppressed = p.suppressed
<1> DEFINE g == p.dropped \cup {u}
           q == Drops(p, u)
<1>1. q = [p EXCEPT !.dropped = g]
  BY DEF Drops
<1>2. g \in SUBSET Nat
  BY PolicyIs
<1> HIDE DEF g, q
<1>3. /\ q \in Policy /\ q.dropped = g /\ q.next = p.next
      /\ q.by_upstream = p.by_upstream /\ q.suppressed = p.suppressed
  BY <1>1, <1>2, DroppedWith
<1> QED BY <1>3 DEF g, q

LEMMA DroppedStart ==
  ASSUME NEW c, NEW w, NEW p, NEW up, NEW u, NEW type, NEW new, StartsBlock(c, w, p, up, u, type, new),
         type \in {"thinking", "redacted_thinking"}, NEW q, q = Drops(p, u)
  PROVE  Hears(c, w, q, new)
<1>1. Hears(c, w, p, up) /\ u \in Nat /\ BegunBlock(up, new, u, type)
  BY Zenon DEF StartsBlock
<1>2. Tells(c, w) /\ p \in Policy /\ Attempt(w.l, p, up) /\ up.stage = "open"
  BY <1>1, HearsIs

<1>4. /\ q \in Policy /\ q.dropped = p.dropped \cup {u} /\ q.next = p.next
      /\ q.by_upstream = p.by_upstream /\ q.suppressed = p.suppressed
  BY <1>1, <1>2, DropsIs
<1>5. Attempt(w.l, q, new)
  BY <1>1, <1>2, <1>4, DroppedMatches
<1>6. new.stage = "open"
  BY NotThere
<1> QED BY <1>2, <1>5, <1>6, Zenon DEF Hears, Accords

\* What the policy does with the start of a block.
BegunEvents(p, u, type) == StopsOf(p, Others(p, u)) \o <<StartEv(p.next, type)>>
LEMMA BlockStartedIs ==
  ASSUME NEW p, NEW u, NEW type, NEW th
  PROVE  /\ Unwanted(type, th) =>
              BlockStarted(p, StartEv(u, type), th) = Becomes(Drops(p, u), <<>>)
         /\ ~ Unwanted(type, th) =>
              BlockStarted(p, StartEv(u, type), th)
                = Becomes(Allocate(CloseOthers(p, u), u, type), BegunEvents(p, u, type))
<1>1. /\ StartEv(u, type).type = type /\ StartEv(u, type).i = u
      /\ [StartEv(u, type) EXCEPT !.i = p.next] = StartEv(p.next, type)
  BY EvIs DEF StartEv
<1> DEFINE e == StartEv(u, type)
<1>2. /\ Unwanted(e.type, th) => BlockStarted(p, e, th) = Becomes([p EXCEPT !.dropped = p.dropped \cup {e.i}], <<>>)
      /\ ~ Unwanted(e.type, th) =>
           BlockStarted(p, e, th) = Becomes(Allocate(CloseOthers(p, e.i), e.i, e.type),
                                            StopsOf(p, Others(p, e.i)) \o <<[e EXCEPT !.i = p.next]>>)
  BY DEF BlockStarted
<1>3. e.type = type /\ e.i = u /\ [e EXCEPT !.i = p.next] = StartEv(p.next, type)
  BY <1>1
<1> HIDE DEF e
<1>4. [p EXCEPT !.dropped = p.dropped \cup {e.i}] = Drops(p, u)
  BY <1>3 DEF Drops
<1>5. BlockStarted(p, e, th) = BlockStarted(p, StartEv(u, type), th)
  BY DEF e
<1> QED BY <1>2, <1>3, <1>4, <1>5 DEF BegunEvents

\* The start of a block is passed on, or the block is dropped.
LEMMA BlockStartTold ==
  ASSUME NEW c, NEW w, NEW p, NEW up, NEW u, NEW type, NEW new, StartsBlock(c, w, p, up, u, type, new),
         WholeIn(up, OpenSegments(p)), NEW th, NEW t, t = BlockStarted(p, StartEv(u, type), th)
  PROVE  PassedOn(c, w, t, new)
<1>1. Hears(c, w, p, up) /\ u \in Nat /\ type \in BlockType /\ BegunBlock(up, new, u, type)
  BY Zenon DEF StartsBlock
<1>2. /\ Tells(c, w) /\ p \in Policy /\ up \in NativeRecord /\ Carried(p, up) /\ p.next \in Nat
      /\ OpenSegments(p) \subseteq DOMAIN p.by_upstream
  BY <1>1, HearsIs
<1>3. CASE Unwanted(type, th)
  <2> DEFINE q == Drops(p, u)
  <2>1. t = Becomes(q, <<>>)
    BY <1>3, BlockStartedIs, Zenon
  <2>2. type \in {"thinking", "redacted_thinking"}
    BY <1>3, Zenon DEF Unwanted
  <2>3. Hears(c, w, q, new)
    BY <2>2, DroppedStart
  <2> HIDE DEF q
  <2>4. t.policy = q /\ t.out = <<>>
    BY <2>1, BecomesIs
  <2>5. IngestAll(w, t.out) = w
    BY <2>4, IngestNone
  <2> QED BY <2>3, <2>4, <2>5, Zenon DEF PassedOn, Hears
<1>4. CASE ~ Unwanted(type, th)
  <2> DEFINE us == Others(p, u)
             q == CloseOthers(p, u)
             e == StartEv(p.next, type)
             n == Len(up.blocks)
  <2>1. t = Becomes(Allocate(q, u, type), BegunEvents(p, u, type))
    BY <1>4, BlockStartedIs, Zenon
  <2>2. t.policy = Allocate(q, u, type) /\ t.out = StopsOf(p, us) \o <<e>>
    <3> DEFINE es == StopsOf(p, us) \o <<e>>
               a == Allocate(q, u, type)
    <3>1. t = Becomes(a, es)
      BY <2>1 DEF BegunEvents
    <3> HIDE DEF es, a
    <3>2. t.policy = a /\ t.out = es
      BY <3>1, BecomesIs
    <3> QED BY <3>2 DEF es, a
  <2>3. us \in SUBSET (1 .. n) /\ n \in Nat /\ us \subseteq OpenSegments(p)
    <3>1. DOMAIN up.blocks = 1 .. n /\ n \in Nat
      BY <1>2, NativeIs
    <3>2. DOMAIN p.by_upstream \subseteq DOMAIN up.blocks
      BY <1>2 DEF Carried
    <3>3. us \subseteq OpenSegments(p)
      BY <1>2, OthersAre
    <3> QED BY <1>2, <3>1, <3>2, <3>3
  <2>4. e \in Event
    <3>1. <<>> \in Seq(Nat)
      OBVIOUS
    <3> QED BY <1>1, <1>2, <3>1, BlockEvents
  <2> HIDE DEF n, e, us
  <2>5. PICK g : /\ StopsFrom(g, p, us, w)
                 /\ IngestAll(w, StopsOf(p, us) \o <<e>>) = Ingest(g[Cardinality(us)], e)
    <3>1. p \in Policy /\ n \in Nat /\ us \in SUBSET (1 .. n) /\ us \subseteq OpenSegments(p) /\ e \in Event
      BY <1>2, <2>3, <2>4
    <3> QED BY <3>1, IngestStops, Zenon
  <2> DEFINE v == g[Cardinality(us)]
  <2>6. Hears(c, v, q, up) /\ q.next = p.next
    BY <1>1, <2>5, OthersClosed DEF us
  <2> HIDE DEF q, v
  <2>7. StartsBlock(c, v, q, up, u, type, new)
    BY <1>1, <2>6, Zenon DEF StartsBlock
  <2> DEFINE x == BlockStart(v, q.next, type)
  <2>8. Hears(c, x, Allocate(q, u, type), new)
    BY <2>7, BeginsTold
  <2>9. IngestAll(w, t.out) = x
    <3>1. <<>> \in Seq(Nat)
      OBVIOUS
    <3>2. Ingest(v, e) = BlockStart(v, p.next, type)
      BY <1>1, <1>2, <3>1, BlockEvents DEF e
    <3> QED BY <2>2, <2>5, <2>6, <3>2 DEF v
  <2> QED BY <2>2, <2>8, <2>9, Zenon DEF PassedOn, Hears
<1> QED BY <1>3, <1>4
\* What is written in an open segment's block goes to the client.
WritesMore(up, new, u, type, data) ==
  /\ GrownBlock(up, new, u, data) /\ type = up.blocks[u].type /\ type # "redacted_thinking"
  /\ data \in Seq(Nat)

LEMMA GrowsTold ==
  ASSUME NEW c, NEW w, NEW p, NEW up, Hears(c, w, p, up), NEW u \in OpenSegments(p), NEW type,
         NEW data, NEW new, WritesMore(up, new, u, type, data), NEW i, i = Segment(p, u).down,
         NEW v, v = BlockDelta(w, i, type, data)
  PROVE  Hears(c, v, p, new)
<1>1. /\ Tells(c, w) /\ Speaks(w) /\ Sound(w.l) /\ InStep(w.l, p) /\ Attempt(w.l, p, up)
      /\ Carried(p, up) /\ OpenSegments(p) \subseteq DOMAIN p.by_upstream /\ up.stage = "open"
  BY HearsIs
<1>2. /\ GrownBlock(up, new, u, data) /\ type = up.blocks[u].type /\ type # "redacted_thinking"
      /\ data \in Seq(Nat)
  BY Zenon DEF WritesMore
<1>3. i \in Range(w.l.stack) /\ type = w.l.blocks[i].type
  <2>1. i \in Range(w.l.stack) /\ w.l.blocks[i].type = Segment(p, u).type
    BY <1>1 DEF InStep
  <2>2. Segment(p, u).type = up.blocks[u].type
    BY <1>1 DEF Carried
  <2> QED BY <1>2, <2>1, <2>2
<1>4. Tells(c, v) /\ Speaks(v) /\ GrownAt(w.l, v.l, i, data)
  BY <1>1, <1>2, <1>3, GrowthTold
<1>5. Attempt(v.l, p, new)
  BY <1>1, <1>2, <1>4, GrownMatches
<1>6. new.stage = "open"
  BY <1>1, <1>2, Zenon DEF GrownBlock
<1> QED BY <1>4, <1>5, <1>6, Zenon DEF Hears, Accords

\* The end of a closed segment is awaited no more.
Awaits(p, u) == [p EXCEPT !.suppressed = p.suppressed \ {u}]

LEMMA AwaitsIs ==
  ASSUME NEW p \in Policy, NEW u
  PROVE  /\ Awaits(p, u) \in Policy /\ Awaits(p, u).suppressed = p.suppressed \ {u}
         /\ Awaits(p, u).next = p.next /\ Awaits(p, u).by_upstream = p.by_upstream
         /\ Awaits(p, u).dropped = p.dropped
<1> DEFINE g == p.suppressed \ {u}
           q == Awaits(p, u)
<1>1. q = [p EXCEPT !.suppressed = g]
  BY DEF Awaits
<1>2. g \in SUBSET Nat
  BY PolicyIs
<1> HIDE DEF g, q
<1>3. /\ q \in Policy /\ q.suppressed = g /\ q.next = p.next
      /\ q.by_upstream = p.by_upstream /\ q.dropped = p.dropped
  BY <1>1, <1>2, SuppressedWith
<1> QED BY <1>3 DEF g, q

LEMMA AwaitsTold ==
  ASSUME NEW c, NEW w, NEW p, NEW up, Hears(c, w, p, up), NEW u, NEW q, q = Awaits(p, u)
  PROVE  Hears(c, w, q, up) /\ q.next = p.next /\ OpenSegments(q) = OpenSegments(p)
         /\ u \notin q.suppressed /\ DOMAIN q.by_upstream = DOMAIN p.by_upstream
<1>1. Tells(c, w) /\ p \in Policy /\ Attempt(w.l, p, up) /\ up.stage = "open"
  BY HearsIs
<1>2. /\ q \in Policy /\ q.suppressed = p.suppressed \ {u} /\ q.next = p.next
      /\ q.by_upstream = p.by_upstream /\ q.dropped = p.dropped
  BY <1>1, AwaitsIs
<1>3. q.suppressed \subseteq p.suppressed /\ u \notin q.suppressed
  BY <1>2
<1>4. Attempt(w.l, q, up) /\ OpenSegments(q) = OpenSegments(p)
  BY <1>1, <1>2, <1>3, SuppressedMatches
<1> QED BY <1>1, <1>2, <1>3, <1>4, Zenon DEF Hears, Accords

\* A segment is begun for a block whose segment is closed.
LEMMA ReopensTold ==
  ASSUME NEW c, NEW w, NEW p, NEW up, Hears(c, w, p, up), NEW u \in DOMAIN p.by_upstream,
         u \notin OpenSegments(p), u \notin p.suppressed, up.blocks[u].open, NEW type,
         type = up.blocks[u].type, type = "tool_use" => up.blocks[u].sent < 2,
         NEW v, v = BlockStart(w, p.next, type), NEW q, q = Allocate(p, u, type)
  PROVE  Hears(c, v, q, up) /\ Segment(q, u).down = p.next /\ u \in OpenSegments(q)
<1>1. /\ Tells(c, w) /\ Speaks(w) /\ Sound(w.l) /\ InStep(w.l, p) /\ Attempt(w.l, p, up)
      /\ up.stage = "open" /\ DOMAIN p.by_upstream \subseteq Nat /\ Carried(p, up)
      /\ up \in NativeRecord /\ p \in Policy
  BY HearsIs
<1>2. u \in DOMAIN up.blocks /\ u \in Nat /\ type \in BlockType
  BY <1>1, NativeIs DEF Carried
<1>3. /\ Tells(c, v) /\ Speaks(v) /\ StartedAt(w.l, v.l, p.next, type) /\ InStep(v.l, q)
      /\ Allocated(p, q, u, type) /\ OpenSegments(q) = OpenSegments(p) \cup {u}
  BY <1>1, <1>2, AllocateStep
<1>4. ASSUME Orderly PROVE type # "tool_use"
  <2>1. SUFFICES ASSUME type = "tool_use" PROVE FALSE
    OBVIOUS
  <2>2. CarriesTools(w.l, p, up) /\ u \in ToolsOf(up)
    BY <1>1, <1>2, <1>4, <2>1 DEF Attempt, ToolsOf
  <2>3. Segment(p, u).open \/ up.blocks[u].sent = 2
    BY <2>2, Zenon DEF CarriesTools
  <2>4. ~ Segment(p, u).open
    BY <1>1, PolicyIs
  <2> QED BY <1>2, <2>1, <2>3, <2>4
<1>5. Attempt(v.l, q, up)
  BY <1>1, <1>3, <1>4, ReopenedMatches
<1>6. Segment(q, u).down = p.next
  BY <1>3, Zenon DEF Allocated
<1> QED BY <1>1, <1>3, <1>5, <1>6, Zenon DEF Hears, Accords
\* What the policy does with a fragment.
Anew(p, u, type) == Allocate(Awaits(p, u), u, type)
StartAndGrow(i, type, data) == <<StartEv(i, type), GrowthEv(i, type, data)>>

GrownReply(p, u, type, data, th, t) ==
  /\ u \in p.dropped \/ Unwanted(type, th) => t = Becomes(p, <<>>)
  /\ u \notin p.dropped /\ ~ Unwanted(type, th) /\ u \in OpenSegments(p) =>
       t = Becomes(p, <<GrowthEv(Segment(p, u).down, type, data)>>)
  /\ /\ u \notin p.dropped /\ ~ Unwanted(type, th) /\ u \notin OpenSegments(p)
     /\ u \in DOMAIN p.by_upstream \/ type \in {"text", "tool_use"}
     => t = Becomes(Anew(p, u, type), StartAndGrow(p.next, type, data))

LEMMA BlockGrownIs ==
  ASSUME NEW p \in Policy, NEW u, NEW type, NEW data, NEW th,
         NEW t, t = BlockGrown(p, GrowthEv(u, type, data), th)
  PROVE  GrownReply(p, u, type, data, th, t)
<1> DEFINE e == GrowthEv(u, type, data)
<1>1. /\ e.type = type /\ e.i = u
      /\ \A j : [e EXCEPT !.i = j] = GrowthEv(j, type, data)
  BY EvIs DEF GrowthEv
<1>2. u \in OpenSegments(p) <=> u \in DOMAIN p.by_upstream /\ Segment(p, u).open
  BY PolicyIs
<1>3. Allocate([p EXCEPT !.suppressed = p.suppressed \ {u}], u, type) = Anew(p, u, type)
  BY Zenon DEF Awaits, Anew
<1>4. t = BlockGrown(p, e, th)
  BY Zenon
<1> HIDE DEF e
<1>5. CASE u \in p.dropped \/ Unwanted(type, th)
  BY <1>1, <1>4, <1>5 DEF BlockGrown, GrownReply
<1>6. CASE u \notin p.dropped /\ ~ Unwanted(type, th)
  <2> DEFINE begun == Allocate([p EXCEPT !.suppressed = p.suppressed \ {u}], u, type)
             reply == IF u \in DOMAIN p.by_upstream /\ Segment(p, u).open
                      THEN Becomes(p, <<[e EXCEPT !.i = Segment(p, u).down]>>)
                      ELSE IF u \in DOMAIN p.by_upstream \/ type \in {"text", "tool_use"}
                      THEN Becomes(begun, <<Ev("content_block_start", p.next, type, <<>>),
                                            [e EXCEPT !.i = p.next]>>)
                      ELSE Becomes(p, <<e>>)
  <2>1. t = reply
    BY <1>1, <1>4, <1>6 DEF BlockGrown
  <2>2. begun = Anew(p, u, type)
    BY <1>3
  <2> HIDE DEF begun
  <2>3. <<Ev("content_block_start", p.next, type, <<>>), [e EXCEPT !.i = p.next]>> = StartAndGrow(p.next, type, data)
    BY <1>1, Zenon DEF StartAndGrow, StartEv
  <2>4. [e EXCEPT !.i = Segment(p, u).down] = GrowthEv(Segment(p, u).down, type, data)
    BY <1>1, Zenon
  <2>5. reply = IF u \in OpenSegments(p)
                THEN Becomes(p, <<GrowthEv(Segment(p, u).down, type, data)>>)
                ELSE IF u \in DOMAIN p.by_upstream \/ type \in {"text", "tool_use"}
                THEN Becomes(Anew(p, u, type), StartAndGrow(p.next, type, data))
                ELSE Becomes(p, <<e>>)
    BY <1>2, <2>2, <2>3, <2>4, Zenon
  <2> QED BY <1>6, <2>1, <2>5 DEF GrownReply
<1> QED BY <1>5, <1>6

\* A segment begun and written in.
LEMMA StartAndGrowTold ==
  ASSUME NEW c, NEW w, NEW p, p \in Policy, NEW i \in Nat, NEW type \in BlockType, NEW data \in Seq(Nat),
         NEW u, NEW q, NEW mid, NEW new, Hears(c, BlockStart(w, i, type), q, mid),
         u \in OpenSegments(q), Segment(q, u).down = i, WritesMore(mid, new, u, type, data),
         NEW t, t = Becomes(q, StartAndGrow(i, type, data))
  PROVE  PassedOn(c, w, t, new)
<1> DEFINE x == BlockStart(w, i, type)
           v == BlockDelta(x, i, type, data)
<1>1. t.policy = q /\ t.out = StartAndGrow(i, type, data)
  <2> DEFINE es == StartAndGrow(i, type, data)
  <2>1. t = Becomes(q, es)
    OBVIOUS
  <2> HIDE DEF es
  <2>2. t.policy = q /\ t.out = es
    BY <2>1, BecomesIs
  <2> QED BY <2>2 DEF es
<1>2. /\ StartEv(i, type) \in Event /\ Ingest(w, StartEv(i, type)) = x
      /\ GrowthEv(i, type, data) \in Event /\ Ingest(x, GrowthEv(i, type, data)) = v
  BY BlockEvents
<1>3. Hears(c, x, q, mid)
  OBVIOUS
<1> HIDE DEF x, v
<1>4. IngestAll(w, t.out) = v
  <2>1. IngestAll(w, <<StartEv(i, type), GrowthEv(i, type, data)>>)
          = Ingest(Ingest(w, StartEv(i, type)), GrowthEv(i, type, data))
    BY <1>2, IngestTwo
  <2> QED BY <1>1, <1>2, <2>1 DEF StartAndGrow
<1>5. Hears(c, v, q, new)
  BY <1>3, GrowsTold DEF v
<1> QED BY <1>1, <1>4, <1>5, Zenon DEF PassedOn, Hears
\* A fragment of a block of the upstream that is open.
WritesBlock(c, w, p, up, u, type, data, new) ==
  /\ Hears(c, w, p, up) /\ u \in DOMAIN up.blocks /\ up.blocks[u].open
  /\ WritesMore(up, new, u, type, data)
  /\ type = "tool_use" => up.blocks[u].sent < 2
  /\ type = "thinking" => new.blocks = up.blocks

LEMMA BlockGrownTold ==
  ASSUME NEW c, NEW w, NEW p, NEW up, NEW u, NEW type, NEW data, NEW new,
         WritesBlock(c, w, p, up, u, type, data, new),
         NEW th, NEW t, t = BlockGrown(p, GrowthEv(u, type, data), th)
  PROVE  PassedOn(c, w, t, new)
<1>1. /\ Hears(c, w, p, up) /\ u \in DOMAIN up.blocks /\ up.blocks[u].open
      /\ WritesMore(up, new, u, type, data) /\ (type = "tool_use" => up.blocks[u].sent < 2)
      /\ (type = "thinking" => new.blocks = up.blocks)
  BY Zenon DEF WritesBlock
<1>2. /\ Tells(c, w) /\ p \in Policy /\ up \in NativeRecord /\ Carried(p, up) /\ p.next \in Nat
      /\ OpenSegments(p) \subseteq DOMAIN p.by_upstream /\ Attempt(w.l, p, up)
      /\ up.stage = "open"
  BY <1>1, HearsIs
<1>3. /\ GrownBlock(up, new, u, data) /\ type = up.blocks[u].type /\ type # "redacted_thinking"
      /\ data \in Seq(Nat)
  BY <1>1, Zenon DEF WritesMore
<1>4. type \in BlockType
  BY <1>1, <1>2, <1>3, NativeIs
<1>8. GrownReply(p, u, type, data, th, t)
  BY <1>2, BlockGrownIs
<1>5. CASE u \in p.dropped \/ Unwanted(type, th)
  <2>1. type = "thinking"
    <3>1. u \in p.dropped => up.blocks[u].type \in {"thinking", "redacted_thinking"}
      BY <1>2, Zenon DEF Carried
    <3> QED BY <1>3, <1>5, <3>1 DEF Unwanted
  <2>2. new \in NativeRecord /\ new.stage = up.stage /\ new.blocks = up.blocks /\ new.text = up.text
    BY <1>1, <1>3, <2>1 DEF GrownBlock
  <2>3. up.stage # "new"
    BY <1>2
  <2>4. Attempt(w.l, p, new)
    BY <1>2, <2>2, <2>3, CountedMatches
  <2>5. t = Becomes(p, <<>>)
    BY <1>5, <1>8, Zenon DEF GrownReply
  <2>6. t.policy = p /\ t.out = <<>>
    BY <2>5, BecomesIs
  <2>7. IngestAll(w, t.out) = w
    BY <2>6, IngestNone
  <2> QED BY <1>2, <2>4, <2>6, <2>7, Zenon DEF PassedOn, Accords
<1>6. CASE u \notin p.dropped /\ ~ Unwanted(type, th) /\ u \in OpenSegments(p)
  <2> DEFINE i == Segment(p, u).down
             e == GrowthEv(i, type, data)
             v == BlockDelta(w, i, type, data)
  <2>1. t = Becomes(p, <<e>>)
    BY <1>6, <1>8, Zenon DEF GrownReply
  <2>2. i \in Nat
    BY <1>2, <1>6, PolicyIs
  <2> HIDE DEF i
  <2>3. e \in Event /\ Ingest(w, e) = v
    BY <1>3, <1>4, <2>2, BlockEvents
  <2>4. Hears(c, v, p, new)
    BY <1>1, <1>6, GrowsTold DEF i
  <2> HIDE DEF e, v
  <2>5. t.policy = p /\ t.out = <<e>>
    BY <2>1, BecomesIs
  <2>6. IngestAll(w, t.out) = v
    BY <2>3, <2>5, IngestOne
  <2> QED BY <2>4, <2>5, <2>6, Zenon DEF PassedOn, Hears
<1>7. CASE u \notin p.dropped /\ ~ Unwanted(type, th) /\ u \notin OpenSegments(p)
  <2> DEFINE r == Awaits(p, u)
             q == Anew(p, u, type)
             v == BlockStart(w, p.next, type)
  <2>1. u \in DOMAIN p.by_upstream
    BY <1>1, <1>2, <1>7 DEF Carried
  <2>2. t = Becomes(q, StartAndGrow(p.next, type, data))
    BY <1>7, <1>8, <2>1, Zenon DEF GrownReply
  <2>3. /\ Hears(c, w, r, up) /\ r.next = p.next /\ u \notin OpenSegments(r)
        /\ u \notin r.suppressed /\ u \in DOMAIN r.by_upstream
    BY <1>1, <1>7, <2>1, AwaitsTold
  <2>4. q = Allocate(r, u, type)
    BY Zenon DEF Anew
  <2> HIDE DEF r, q
  <2>5. Hears(c, v, q, up) /\ Segment(q, u).down = p.next /\ u \in OpenSegments(q)
    <3>1. v = BlockStart(w, r.next, type)
      BY <2>3
    <3> HIDE DEF v
    <3>2. Hears(c, v, q, up) /\ Segment(q, u).down = r.next /\ u \in OpenSegments(q)
      BY <1>1, <1>3, <2>3, <2>4, <3>1, ReopensTold
    <3> QED BY <2>3, <3>2
  <2> QED BY <1>1, <1>2, <1>3, <1>4, <2>2, <2>5, StartAndGrowTold
<1> QED BY <1>5, <1>6, <1>7

\* A fragment of a text or a tool that was not begun.
LEMMA UnstartedTold ==
  ASSUME NEW c, NEW w, NEW p, NEW up, NEW u, NEW type, NEW mid, StartsBlock(c, w, p, up, u, type, mid),
         type \in {"text", "tool_use"}, NEW data, NEW new, WritesMore(mid, new, u, type, data),
         NEW th, NEW t, t = BlockGrown(p, GrowthEv(u, type, data), th)
  PROVE  PassedOn(c, w, t, new)
<1>1. Hears(c, w, p, up) /\ u \in Nat /\ type \in BlockType /\ BegunBlock(up, mid, u, type)
  BY Zenon DEF StartsBlock
<1>2. p \in Policy /\ p.next \in Nat
  BY <1>1, HearsIs
<1>3. u \notin DOMAIN p.by_upstream /\ u \notin OpenSegments(p) /\ u \notin p.dropped
  BY NotThere
<1> DEFINE r == Awaits(p, u)
           q == Anew(p, u, type)
           v == BlockStart(w, p.next, type)
<1>4. ~ Unwanted(type, th)
  BY DEF Unwanted
<1>5. t = Becomes(q, StartAndGrow(p.next, type, data))
  <2>1. GrownReply(p, u, type, data, th, t)
    BY <1>2, BlockGrownIs
  <2> QED BY <1>3, <1>4, <2>1, Zenon DEF GrownReply
<1>6. Hears(c, w, r, up) /\ r.next = p.next
  BY <1>1, AwaitsTold
<1>7. q = Allocate(r, u, type)
  BY Zenon DEF Anew
<1> HIDE DEF r, q
<1>8. StartsBlock(c, w, r, up, u, type, mid)
  BY <1>1, <1>6, Zenon DEF StartsBlock
<1>9. Hears(c, v, q, mid) /\ Segment(q, u).down = p.next /\ u \in OpenSegments(q)
  <2>1. v = BlockStart(w, r.next, type)
    BY <1>6
  <2> HIDE DEF v
  <2>2. Hears(c, v, q, mid) /\ Segment(q, u).down = r.next /\ u \in OpenSegments(q)
    BY <1>7, <1>8, <2>1, BeginsTold
  <2> QED BY <1>6, <2>2
<1>10. data \in Seq(Nat)
  BY Zenon DEF WritesMore
<1> QED BY <1>1, <1>2, <1>5, <1>9, <1>10, StartAndGrowTold
\* An event of another block.
Moved(e, j) == [e EXCEPT !.i = j]

\* What the policy does with the end of a block.
StoppedReply(p, u, th, t) ==
  /\ u \in p.dropped => t = Becomes(p, <<>>)
  /\ u \notin p.dropped /\ u \in p.suppressed => t = Becomes(Awaits(p, u), <<>>)
  /\ u \notin p.dropped /\ u \notin p.suppressed /\ u \in OpenSegments(p) =>
       t = Becomes(CloseOne(p, u), <<StopEv(Segment(p, u).down)>>)
  /\ /\ u \notin p.dropped /\ u \notin p.suppressed /\ u \in DOMAIN p.by_upstream
     /\ u \notin OpenSegments(p)
     => t = Becomes(p, <<>>)

LEMMA BlockStoppedIs ==
  ASSUME NEW p \in Policy, NEW u, NEW th, NEW t, t = BlockStopped(p, StopEv(u), th)
  PROVE  StoppedReply(p, u, th, t)
<1> DEFINE e == StopEv(u)
<1>1. e.i = u /\ \A j : [e EXCEPT !.i = j] = StopEv(j)

  <2>2. \A name, type, data, i, j : Moved(Ev(name, i, type, data), j) = Ev(name, j, type, data)
    BY EvIs DEF Moved
  <2>3. \A j : Moved(e, j) = StopEv(j)
    BY <2>2, Zenon DEF StopEv
  <2>4. e.i = u
    BY Zenon DEF StopEv, Ev
  <2> HIDE DEF e
  <2> QED BY <2>3, <2>4 DEF Moved
<1>2. u \in OpenSegments(p) <=> u \in DOMAIN p.by_upstream /\ Segment(p, u).open
  BY PolicyIs
<1>3. t = BlockStopped(p, e, th)
  BY Zenon
<1> HIDE DEF e
<1>4. ASSUME u \in p.dropped PROVE t = Becomes(p, <<>>)
  BY <1>1, <1>3, <1>4 DEF BlockStopped
<1>5. ASSUME u \notin p.dropped, u \in p.suppressed PROVE t = Becomes(Awaits(p, u), <<>>)
  BY <1>1, <1>3, <1>5 DEF BlockStopped, Awaits
<1>6. ASSUME u \notin p.dropped, u \notin p.suppressed, u \in OpenSegments(p)
      PROVE t = Becomes(CloseOne(p, u), <<StopEv(Segment(p, u).down)>>)
  <2>1. t = Becomes([p EXCEPT !.by_upstream[u].open = FALSE], <<[e EXCEPT !.i = Segment(p, u).down]>>)
    BY <1>1, <1>2, <1>3, <1>6 DEF BlockStopped
  <2>2. [e EXCEPT !.i = Segment(p, u).down] = StopEv(Segment(p, u).down)
    BY <1>1, Zenon
  <2> QED BY <2>1, <2>2, Zenon DEF CloseOne
<1>7. ASSUME u \notin p.dropped, u \notin p.suppressed, u \in DOMAIN p.by_upstream,
             u \notin OpenSegments(p)
      PROVE t = Becomes(p, <<>>)
  BY <1>1, <1>2, <1>3, <1>7 DEF BlockStopped
<1> QED BY <1>4, <1>5, <1>6, <1>7 DEF StoppedReply

\* The upstream ends a block, perhaps not for the first time.
StopsBlock(c, w, p, up, u, new) ==
  /\ Hears(c, w, p, up) /\ u \in DOMAIN up.blocks /\ EndedBlock(up, new, u)

LEMMA EndedTold ==
  ASSUME NEW c, NEW w, NEW p, NEW up, NEW u, NEW new, StopsBlock(c, w, p, up, u, new),
         u \notin OpenSegments(p)
  PROVE  Hears(c, w, p, new)
<1>1. Hears(c, w, p, up) /\ EndedBlock(up, new, u)
  BY Zenon DEF StopsBlock
<1>2. Tells(c, w) /\ Attempt(w.l, p, up) /\ up.stage = "open"
  BY <1>1, HearsIs
<1>3. up.stage # "new" /\ new.stage = "open"
  BY <1>1, <1>2 DEF EndedBlock
<1>4. Attempt(w.l, p, new)
  BY <1>1, <1>2, <1>3, EndedMatches
<1> QED BY <1>2, <1>3, <1>4, Zenon DEF Hears, Accords

LEMMA CloseTold ==
  ASSUME NEW c, NEW w, NEW p, NEW up, Hears(c, w, p, up), NEW u \in OpenSegments(p),
         WholeIn(up, {u}), NEW v, v = BlockStop(w, Segment(p, u).down), NEW q, q = CloseOne(p, u)
  PROVE  Hears(c, v, q, up) /\ u \notin OpenSegments(q)
<1>1. Tells(c, w) /\ Speaks(w) /\ InStep(w.l, p) /\ Attempt(w.l, p, up) /\ up.stage = "open"
  BY HearsIs
<1>2. /\ Tells(c, v) /\ Stilled(w.l, v.l, p, {u}) /\ ClosedIn(p, q, {u})
      /\ q.suppressed = p.suppressed
  BY <1>1, CloseStep
<1> DEFINE us == {u}
<1>3. /\ ClosedIn(p, q, us) /\ Stilled(w.l, v.l, p, us) /\ us \subseteq OpenSegments(p)
      /\ q.suppressed \subseteq p.suppressed \cup us /\ WholeIn(up, us) /\ u \in us
  BY <1>2
<1> HIDE DEF us
<1>4. Attempt(v.l, q, up) /\ OpenSegments(q) = OpenSegments(p) \ us
  BY <1>1, <1>3, ClosedMatches
<1>5. u \notin OpenSegments(q)
  BY <1>3, <1>4
<1> QED BY <1>1, <1>2, <1>4, <1>5, Zenon DEF Hears, Accords

\* The end of a block is passed on once.
LEMMA BlockStoppedTold ==
  ASSUME NEW c, NEW w, NEW p, NEW up, NEW u, NEW new, StopsBlock(c, w, p, up, u, new),
         WholeIn(up, {u}), NEW th, NEW t, t = BlockStopped(p, StopEv(u), th)
  PROVE  PassedOn(c, w, t, new)
<1>1. Hears(c, w, p, up) /\ u \in DOMAIN up.blocks /\ EndedBlock(up, new, u)
  BY Zenon DEF StopsBlock
<1>2. p \in Policy /\ Carried(p, up) /\ OpenSegments(p) \subseteq DOMAIN p.by_upstream
  BY <1>1, HearsIs
<1>3. /\ u \in DOMAIN p.by_upstream \/ u \in p.dropped
      /\ u \in p.dropped => u \notin OpenSegments(p)
      /\ u \in p.suppressed => u \notin OpenSegments(p)
  BY <1>1, <1>2 DEF Carried
<1>4. StoppedReply(p, u, th, t)
  BY <1>2, BlockStoppedIs
<1>5. ASSUME u \notin OpenSegments(p), t = Becomes(p, <<>>) PROVE PassedOn(c, w, t, new)
  <2>1. Hears(c, w, p, new)
    BY <1>5, EndedTold
  <2>2. t.policy = p /\ t.out = <<>>
    BY <1>5, BecomesIs
  <2>3. IngestAll(w, t.out) = w
    BY <2>2, IngestNone
  <2> QED BY <2>1, <2>2, <2>3, Zenon DEF PassedOn, Hears
<1>6. CASE u \in p.dropped
  BY <1>3, <1>4, <1>5, <1>6, Zenon DEF StoppedReply
<1>7. CASE u \notin p.dropped /\ u \in p.suppressed
  <2> DEFINE q == Awaits(p, u)
  <2>1. t = Becomes(q, <<>>)
    BY <1>4, <1>7, Zenon DEF StoppedReply
  <2>2. Hears(c, w, q, up) /\ OpenSegments(q) = OpenSegments(p)
    BY <1>1, AwaitsTold
  <2> HIDE DEF q
  <2>3. StopsBlock(c, w, q, up, u, new) /\ u \notin OpenSegments(q)
    BY <1>1, <1>3, <1>7, <2>2, Zenon DEF StopsBlock
  <2>4. Hears(c, w, q, new)
    BY <2>3, EndedTold
  <2>5. t.policy = q /\ t.out = <<>>
    BY <2>1, BecomesIs
  <2>6. IngestAll(w, t.out) = w
    BY <2>5, IngestNone
  <2> QED BY <2>4, <2>5, <2>6, Zenon DEF PassedOn, Hears
<1>8. CASE u \notin p.dropped /\ u \notin p.suppressed /\ u \in OpenSegments(p)
  <2> DEFINE q == CloseOne(p, u)
             i == Segment(p, u).down
             v == BlockStop(w, i)
             e == StopEv(i)
  <2>1. t = Becomes(q, <<e>>)
    BY <1>4, <1>8, Zenon DEF StoppedReply
  <2>2. i \in Nat
    BY <1>2, <1>8, PolicyIs
  <2>3. Hears(c, v, q, up) /\ u \notin OpenSegments(q)
    BY <1>1, <1>8, CloseTold
  <2> HIDE DEF q, i
  <2>4. e \in Event /\ Ingest(w, e) = v
    <3>1. <<>> \in Seq(Nat) /\ "text" \in BlockType
      BY DEF BlockType
    <3> QED BY <2>2, <3>1, BlockEvents
  <2> HIDE DEF v, e
  <2>5. StopsBlock(c, v, q, up, u, new)
    BY <1>1, <2>3, Zenon DEF StopsBlock
  <2>6. Hears(c, v, q, new)
    BY <2>3, <2>5, EndedTold
  <2>7. t.policy = q /\ t.out = <<e>>
    BY <2>1, BecomesIs
  <2>8. IngestAll(w, t.out) = v
    BY <2>4, <2>7, IngestOne
  <2> QED BY <2>6, <2>7, <2>8, Zenon DEF PassedOn, Hears
<1>9. CASE u \notin p.dropped /\ u \notin p.suppressed /\ u \notin OpenSegments(p)
  BY <1>3, <1>4, <1>5, <1>9, Zenon DEF StoppedReply
<1> QED BY <1>6, <1>7, <1>8, <1>9
-----------------------------------------------------------------------------
(* Events of the whole message.                                             *)

StartNotice == Ev("message_start", NoIndex, "", <<>>)
DeltaNotice(reason) == Ev("message_delta", NoIndex, reason, <<>>)
StopNotice == Ev("message_stop", NoIndex, "", <<>>)
ErrorNotice == Ev("error", NoIndex, "", <<>>)

LEMMA NoticeIs ==
  /\ StartNotice \in Event /\ StartNotice.name = "message_start"
  /\ StopNotice \in Event /\ StopNotice.name = "message_stop"
  /\ ErrorNotice \in Event /\ ErrorNotice.name = "error"
<1>1. <<>> \in Seq(Nat) /\ NoIndex \in Int
  BY DEF NoIndex
<1>2. StartNotice \in Event /\ StartNotice.name = "message_start"
  BY <1>1, Zenon DEF StartNotice, Ev, Event
<1>3. StopNotice \in Event /\ StopNotice.name = "message_stop"
  BY <1>1, Zenon DEF StopNotice, Ev, Event
<1>4. ErrorNotice \in Event /\ ErrorNotice.name = "error"
  BY <1>1, Zenon DEF ErrorNotice, Ev, Event
<1> QED BY <1>2, <1>3, <1>4

LEMMA DeltaNoticeIs ==
  ASSUME NEW reason \in {"end_turn", "tool_use"}
  PROVE  /\ DeltaNotice(reason) \in Event /\ DeltaNotice(reason).name = "message_delta"
         /\ DeltaNotice(reason).type = reason
<1>1. <<>> \in Seq(Nat) /\ NoIndex \in Int
  BY DEF NoIndex
<1>2. /\ DeltaNotice(reason).name = "message_delta" /\ DeltaNotice(reason).type = reason
  BY EvIs DEF DeltaNotice
<1>3. reason \in BlockType \cup {"", "end_turn", "tool_use"}
  BY Zenon
<1>4. DeltaNotice(reason) \in Event
  BY <1>1, <1>3, Zenon DEF DeltaNotice, Ev, Event
<1> QED BY <1>2, <1>4

LEMMA NoticePassed ==
  ASSUME NEW c, NEW w, NEW p, NEW new, NEW e \in Event,
         e.name \in {"message_start", "message_delta", "message_stop", "error"},
         NEW v, v = Ingest(w, e), Accords(c, v, p, new), NEW th, NEW t, t = Transform(p, e, th)
  PROVE  PassedOn(c, w, t, new)
<1>1. t = Becomes(p, <<e>>)
  BY TransformIs
<1>2. t.policy = p /\ t.out = <<e>>
  BY <1>1, BecomesIs
<1>3. IngestAll(w, t.out) = v
  BY <1>2, IngestOne
<1> QED BY <1>2, <1>3, Zenon DEF PassedOn

\* A notice changes nothing but how far the message is.
LEMMA NoticeMatches ==
  ASSUME NEW l, NEW m, NEW p, NEW up, Attempt(l, p, up), Same(l, m), NEW new \in NativeRecord,
         new.blocks = up.blocks, new.text = up.text, Progress(m, p, new)
  PROVE  Attempt(m, p, new)
<1>1. /\ InStep(l, p) /\ Carried(p, up) /\ l.said = UpTo(up.text)
      /\ Orderly => CarriesTools(l, p, up)
  BY Zenon DEF Attempt
<1>2. /\ m.next = l.next /\ m.stack = l.stack /\ m.blocks = l.blocks /\ m.said = l.said
  BY Zenon DEF Same
<1>3. InStep(m, p)
  BY <1>1, <1>2, Zenon DEF InStep
<1>4. Carried(p, new)
  BY <1>1, Zenon DEF Carried
<1>5. Orderly => CarriesTools(m, p, new)
  BY <1>1, <1>2, Zenon DEF CarriesTools, ToolBlocks, ToolsOf
<1> QED BY <1>1, <1>2, <1>3, <1>4, <1>5, Zenon DEF Attempt

LEMMA StartNoticeTold ==
  ASSUME NEW c, NEW w, NEW p, NEW up, Accords(c, w, p, up), up.stage = "new",
         NEW new \in NativeRecord, new.blocks = up.blocks, new.text = up.text, new.stage = "open",
         NEW th, NEW t, t = Transform(p, StartNotice, th)
  PROVE  PassedOn(c, w, t, new)
<1> DEFINE e == StartNotice
           v == MessageStart(w)
<1>1. Tells(c, w) /\ Attempt(w.l, p, up)
  BY Zenon DEF Accords
<1>2. w.l = NewLedger
  BY <1>1, Zenon DEF Attempt, Progress
<1>3. ~ w.l.started /\ ~ w.l.stopped /\ CanAppend(w.l)
  BY <1>2, NewLedgerIs
<1>4. Tells(c, v) /\ Speaks(v) /\ Same(w.l, v.l) /\ v.l.stop_reason = w.l.stop_reason
  BY <1>1, <1>3, MessageStartTold, Zenon
<1> HIDE DEF v
<1>5. Progress(v.l, p, new)
  <2>1. v.l.started /\ ~ v.l.stopped
    BY <1>4, Zenon DEF Speaks
  <2>2. CanAppend(v.l)
    BY <1>3, <1>4, <2>1, Zenon DEF CanAppend
  <2> QED BY <2>1, <2>2 DEF Progress, Ending
<1>6. Accords(c, v, p, new)
  BY <1>1, <1>4, <1>5, NoticeMatches DEF Accords
<1>7. e \in Event /\ e.name = "message_start"
  BY NoticeIs
<1> HIDE DEF e
<1>8. v = Ingest(w, e)
  BY <1>7, IngestIs DEF v
<1>9. t = Transform(p, e, th)
  BY Zenon DEF e
<1> QED BY <1>6, <1>7, <1>8, <1>9, NoticePassed

LEMMA NothingOpen ==
  ASSUME NEW l, NEW p, NEW up, Attempt(l, p, up), \A u \in DOMAIN up.blocks : ~ up.blocks[u].open
  PROVE  Range(l.stack) = {} /\ OpenSegments(p) = {}
<1>1. InStep(l, p) /\ Carried(p, up) /\ p \in Policy
  BY Zenon DEF Attempt, InStep
<1>2. OpenSegments(p) \subseteq DOMAIN up.blocks /\ \A u \in OpenSegments(p) : up.blocks[u].open
  BY <1>1, PolicyIs DEF Carried
<1>3. OpenSegments(p) = {}
  BY <1>2
<1>4. \A i \in Range(l.stack) : \E u \in OpenSegments(p) : Segment(p, u).down = i
  BY <1>1, Zenon DEF InStep
<1> QED BY <1>3, <1>4

LEMMA DeltaNoticeTold ==
  ASSUME NEW c, NEW w, NEW p, NEW up, Hears(c, w, p, up),
         \A u \in DOMAIN up.blocks : ~ up.blocks[u].open, HasContentBlock(w.l),
         NEW new \in NativeRecord, new.blocks = up.blocks, new.text = up.text, new.stage = "reason",
         NEW reason \in {"end_turn", "tool_use"},
         NEW th, NEW t, t = Transform(p, DeltaNotice(reason), th)
  PROVE  PassedOn(c, w, t, new)
<1> DEFINE e == DeltaNotice(reason)
           v == MessageDelta(w, reason)
<1>1. Tells(c, w) /\ Speaks(w) /\ Attempt(w.l, p, up)
  BY HearsIs
<1>2. Range(w.l.stack) = {}
  BY <1>1, NothingOpen
<1>3. Tells(c, v) /\ Speaks(v) /\ Same(w.l, v.l) /\ v.l.stop_reason \in {"end_turn", "tool_use"}
  BY <1>1, MessageDeltaTold
<1> HIDE DEF v
<1>4. Range(v.l.stack) = {} /\ HasContentBlock(v.l)
  BY <1>2, <1>3, Zenon DEF Same, HasContentBlock
<1>5. Progress(v.l, p, new)
  BY <1>3, <1>4 DEF Progress, Ending, Speaks
<1>6. Accords(c, v, p, new)
  BY <1>1, <1>3, <1>5, NoticeMatches DEF Accords
<1>7. e \in Event /\ e.name = "message_delta" /\ e.type = reason
  BY DeltaNoticeIs
<1> HIDE DEF e
<1>8. v = Ingest(w, e)
  BY <1>7, IngestIs DEF v
<1>9. t = Transform(p, e, th)
  BY Zenon DEF e
<1> QED BY <1>6, <1>7, <1>8, <1>9, NoticePassed

LEMMA StopNoticeTold ==
  ASSUME NEW c, NEW w, NEW p, NEW up, Accords(c, w, p, up), up.stage = "reason",
         NEW new \in NativeRecord, new.blocks = up.blocks, new.text = up.text, new.stage = "stopped",
         NEW th, NEW t, t = Transform(p, StopNotice, th)
  PROVE  PassedOn(c, w, t, new)
<1> DEFINE e == StopNotice
           v == MessageStop(w)
<1>1. Tells(c, w) /\ Attempt(w.l, p, up) /\ Progress(w.l, p, up)
  BY Zenon DEF Accords, Attempt
<1>2. /\ Speaks(w) /\ Range(w.l.stack) = {} /\ HasContentBlock(w.l)
      /\ w.l.stop_reason \in {"end_turn", "tool_use"}
  BY <1>1 DEF Progress, Ending, Speaks
<1>3. /\ Tells(c, v) /\ v.l.stopped /\ v.l.started /\ Same(w.l, v.l)
      /\ v.l.stop_reason \in {"end_turn", "tool_use"}
  BY <1>1, <1>2, MessageStopTold
<1> HIDE DEF v
<1>4. Range(v.l.stack) = {} /\ HasContentBlock(v.l)
  BY <1>2, <1>3, Zenon DEF Same, HasContentBlock
<1>5. Progress(v.l, p, new)
  BY <1>3, <1>4 DEF Progress, Ending
<1>6. Accords(c, v, p, new)
  BY <1>1, <1>3, <1>5, NoticeMatches DEF Accords
<1>7. e \in Event /\ e.name = "message_stop"
  BY NoticeIs
<1> HIDE DEF e
<1>8. v = Ingest(w, e)
  BY <1>7, IngestIs DEF v
<1>9. t = Transform(p, e, th)
  BY Zenon DEF e
<1> QED BY <1>6, <1>7, <1>8, <1>9, NoticePassed

LEMMA ErrorNoticeTold ==
  ASSUME NEW c, NEW w, NEW p, NEW up, Hears(c, w, p, up),
         NEW new \in NativeRecord, new.blocks = up.blocks, new.text = up.text, new.stage = "broken",
         NEW th, NEW t, t = Transform(p, ErrorNotice, th)
  PROVE  PassedOn(c, w, t, new)
<1> DEFINE e == ErrorNotice
           v == TopLevelError(w)
<1>1. Tells(c, w) /\ Speaks(w) /\ Attempt(w.l, p, up) /\ CanAppend(w.l)
  BY HearsIs
<1>2. Tells(c, v) /\ v.l = w.l
  BY <1>1, TopLevelErrorTold
<1>3. v = Emit(w, w.l, e)
  BY Zenon DEF TopLevelError, ErrorNotice
<1> HIDE DEF v
<1>4. Same(w.l, v.l)
  BY <1>2 DEF Same
<1>5. Progress(v.l, p, new)
  BY <1>1, <1>2 DEF Progress, Ending, Speaks
<1>6. Accords(c, v, p, new)
  BY <1>1, <1>2, <1>4, <1>5, NoticeMatches DEF Accords
<1>7. e \in Event /\ e.name = "error"
  BY NoticeIs
<1> HIDE DEF e
<1>8. v = Ingest(w, e)
  BY <1>3, <1>7, IngestIs
<1>9. t = Transform(p, e, th)
  BY Zenon DEF e
<1> QED BY <1>6, <1>7, <1>8, <1>9, NoticePassed
-----------------------------------------------------------------------------
(* What the upstream has sent, after its next event.                        *)

LEMMA StageWith ==
  ASSUME NEW up \in NativeRecord, NEW s \in UpstreamStage, NEW new, new = [up EXCEPT !.stage = s]
  PROVE  /\ new \in NativeRecord /\ new.stage = s /\ new.blocks = up.blocks /\ new.text = up.text
         /\ new.events = up.events
BY DEF NativeRecord

\* An event more.
Counted(up, n) == [up EXCEPT !.events = n]

LEMMA CountedIs ==
  ASSUME NEW up \in NativeRecord, NEW n \in Nat
  PROVE  /\ Counted(up, n) \in NativeRecord /\ Counted(up, n).stage = up.stage
         /\ Counted(up, n).blocks = up.blocks /\ Counted(up, n).text = up.text
         /\ Counted(up, n).thinking = up.thinking
BY DEF Counted, NativeRecord

\* A block more, and an event more.
Began(up, type) ==
  [up EXCEPT !.blocks = Append(@, [type |-> type, open |-> TRUE, sent |-> 0]), !.events = @ + 1]

LEMMA BeganIs ==
  ASSUME NEW up \in NativeRecord, NEW type \in BlockType
  PROVE  BegunBlock(up, Began(up, type), Len(up.blocks) + 1, type) /\ Began(up, type) \in NativeRecord
<1> DEFINE b == [type |-> type, open |-> TRUE, sent |-> 0]
           s == up.blocks
           n == Len(s)
           t == Append(s, b)
           new == Began(up, type)
<1>1. b \in UpstreamBlock /\ b.type = type /\ b.open /\ b.sent = 0
  BY DEF UpstreamBlock
<1>2. s \in Seq(UpstreamBlock) /\ DOMAIN s = 1 .. n /\ n \in Nat /\ up.events \in Nat
  BY NativeIs
<1> DEFINE r == [up EXCEPT !.blocks = t]
<1> HIDE DEF b
<1>4. /\ t \in Seq(UpstreamBlock) /\ DOMAIN t = 1 .. n + 1 /\ t[n + 1] = b
      /\ \A v \in 1 .. n : t[v] = s[v]
  BY <1>1, <1>2
<1>3. new = Counted(r, up.events + 1)
  BY DEF Began, Counted, b
<1> HIDE DEF t, new
<1>a. r \in NativeRecord /\ r.stage = up.stage /\ r.text = up.text /\ r.blocks = t
  BY <1>4 DEF NativeRecord
<1> HIDE DEF r
<1>c. up.events + 1 \in Nat
  BY <1>2
<1>5. new \in NativeRecord /\ new.stage = up.stage /\ new.text = up.text /\ new.blocks = t
  BY <1>3, <1>a, <1>c, CountedIs, Zenon
<1> HIDE DEF s
<1>6. n + 1 \notin DOMAIN s /\ DOMAIN t = DOMAIN s \cup {n + 1}
  BY <1>2, <1>4
<1>7. BegunBlock(up, new, n + 1, type)
  BY <1>1, <1>2, <1>4, <1>5, <1>6 DEF BegunBlock, s
<1> QED BY <1>5, <1>7 DEF new, s

\* A block ended, and an event more.
Shuts(up, u) == [up EXCEPT !.blocks[u].open = FALSE, !.events = @ + 1]

LEMMA ShutsIs ==
  ASSUME NEW up \in NativeRecord, NEW u \in DOMAIN up.blocks
  PROVE  EndedBlock(up, Shuts(up, u), u)
<1> DEFINE s == up.blocks
           t == [s EXCEPT ![u].open = FALSE]
           new == Shuts(up, u)
<1>1. /\ s \in Seq(UpstreamBlock) /\ up.events \in Nat
      /\ \A v \in DOMAIN s : s[v] \in UpstreamBlock
  BY NativeIs
<1> DEFINE r == [up EXCEPT !.blocks = t]
<1>2. new = Counted(r, up.events + 1)
  BY DEF Shuts, Counted
<1>3. [s[u] EXCEPT !.open = FALSE] \in UpstreamBlock
  BY <1>1 DEF UpstreamBlock
<1>4. t = [s EXCEPT ![u] = [s[u] EXCEPT !.open = FALSE]] /\ u \in DOMAIN s
  OBVIOUS
<1>5. t \in Seq(UpstreamBlock) /\ DOMAIN t = DOMAIN s
  BY <1>1, <1>3, <1>4
<1>6. \A v \in DOMAIN s : t[v].type = s[v].type /\ t[v].sent = s[v].sent /\ (v # u => t[v] = s[v])
  BY <1>1, <1>4 DEF UpstreamBlock
<1>a. t[u].open = FALSE
  BY <1>1, <1>4 DEF UpstreamBlock
<1> HIDE DEF t, new
<1>b. r \in NativeRecord /\ r.stage = up.stage /\ r.text = up.text /\ r.blocks = t
  BY <1>5 DEF NativeRecord
<1> HIDE DEF r
<1>c. up.events + 1 \in Nat
  BY <1>1
<1>7. new \in NativeRecord /\ new.stage = up.stage /\ new.text = up.text /\ new.blocks = t
  BY <1>2, <1>b, <1>c, CountedIs, Zenon
<1> QED BY <1>5, <1>6, <1>7, <1>a DEF EndedBlock, s, new

\* A fragment more.
LEMMA GrownIs ==
  ASSUME NEW up \in NativeRecord, NEW u \in DOMAIN up.blocks, NEW type, type = up.blocks[u].type,
         type # "redacted_thinking", type = "tool_use" => up.blocks[u].sent < 2,
         NEW n \in Nat, NEW new, new = Counted(Grown(up, u), n)
  PROVE  /\ WritesMore(up, new, u, type, <<Fragment(new, u)>>)
         /\ type = "thinking" => new.blocks = up.blocks
<1> DEFINE s == up.blocks
           data == <<Fragment(new, u)>>
           g == Grown(up, u)
<1>1. /\ s \in Seq(UpstreamBlock) /\ up.text \in Nat /\ up.thinking \in Nat
      /\ \A v \in DOMAIN s : s[v] \in UpstreamBlock /\ s[v].type \in BlockType /\ s[v].sent \in 0 .. 2
  BY NativeIs
<1>2. CASE type = "text"
  <2>1. g = [up EXCEPT !.text = up.text + 1]
    BY <1>2 DEF Grown
  <2>2. /\ g \in NativeRecord /\ g.stage = up.stage /\ g.blocks = s /\ g.text = up.text + 1
    BY <1>1, <2>1 DEF NativeRecord
  <2> HIDE DEF g
  <2>3. new \in NativeRecord /\ new.stage = up.stage /\ new.blocks = s /\ new.text = up.text + 1
    BY <2>2, CountedIs DEF g
  <2>4. data = <<new.text>>
    BY <1>2, <2>3 DEF Fragment
  <2>5. data = <<up.text + 1>> /\ data \in Seq(Nat)
    BY <1>1, <2>3, <2>4
  <2> HIDE DEF data
  <2>6. GrownBlock(up, new, u, data)
    BY <1>2, <2>3, <2>5 DEF GrownBlock
  <2> QED BY <1>2, <2>5, <2>6 DEF WritesMore, data
<1>3. CASE type = "thinking"
  <2>1. g = [up EXCEPT !.thinking = up.thinking + 1]
    BY <1>3 DEF Grown
  <2>2. /\ g \in NativeRecord /\ g.stage = up.stage /\ g.blocks = s /\ g.text = up.text
        /\ g.thinking = up.thinking + 1
    BY <1>1, <2>1 DEF NativeRecord
  <2> HIDE DEF g
  <2>3. /\ new \in NativeRecord /\ new.stage = up.stage /\ new.blocks = s /\ new.text = up.text
        /\ new.thinking = up.thinking + 1
    BY <2>2, CountedIs DEF g
  <2>4. data = <<new.thinking>>
    BY <1>3, <2>3 DEF Fragment
  <2>5. data \in Seq(Nat)
    BY <1>1, <2>3, <2>4
  <2> HIDE DEF data
  <2>6. GrownBlock(up, new, u, data)
    BY <1>3, <2>3 DEF GrownBlock
  <2> QED BY <1>3, <2>3, <2>5, <2>6 DEF WritesMore, data
<1>4. CASE type = "tool_use"
  <2> DEFINE t == [s EXCEPT ![u] = [s[u] EXCEPT !.sent = s[u].sent + 1]]
  <2>1. g = [up EXCEPT !.blocks = t]
    BY <1>4 DEF Grown
  <2>2. [s[u] EXCEPT !.sent = s[u].sent + 1] \in UpstreamBlock
    BY <1>1, <1>4 DEF UpstreamBlock
  <2>3. t \in Seq(UpstreamBlock) /\ DOMAIN t = DOMAIN s
    BY <1>1, <2>2
  <2>4. /\ \A v \in DOMAIN s : t[v].type = s[v].type /\ t[v].open = s[v].open /\ (v # u => t[v] = s[v])
        /\ t[u].sent = s[u].sent + 1
    BY <1>1 DEF UpstreamBlock
  <2> HIDE DEF t
  <2>5. g \in NativeRecord /\ g.stage = up.stage /\ g.blocks = t /\ g.text = up.text
    BY <2>1, <2>3 DEF NativeRecord
  <2> HIDE DEF g
  <2>6. new \in NativeRecord /\ new.stage = up.stage /\ new.blocks = t /\ new.text = up.text
    BY <2>5, CountedIs DEF g
  <2>7. data = <<new.blocks[u].sent>>
    BY <1>4, <2>4, <2>6 DEF Fragment
  <2>8. data \in Seq(Nat)
    BY <1>1, <2>4, <2>6, <2>7
  <2> HIDE DEF data
  <2>9. GrownBlock(up, new, u, data)
    BY <1>4, <2>3, <2>4, <2>6, <2>7 DEF GrownBlock
  <2> QED BY <1>4, <2>8, <2>9 DEF WritesMore, data
<1>5. type \in {"text", "thinking", "tool_use"}
  BY <1>1 DEF BlockType
<1> QED BY <1>2, <1>3, <1>4, <1>5
-----------------------------------------------------------------------------
(* The native adapter: an invariant.                                        *)

NativeFields ==
  /\ native_phase \in NativePhase /\ native_thinking \in BOOLEAN /\ native_ledger \in Ledger
  /\ native_buffer \in Buffer /\ native_retries \in 0 .. EarlyRetries
  /\ native_policy \in Policy /\ native_upstream \in NativeRecord /\ native_client \in Client
  /\ \A u \in DOMAIN native_policy.by_upstream : Segment(native_policy, u).down < native_policy.next

\* While the adapter works, what is out and what is held lead to the ledger, which holds
\* what the upstream of this attempt has sent.
NativeLive ==
  native_phase \notin NativeOver =>
    /\ Live(native_client, native_ledger, native_buffer)
    /\ Attempt(native_ledger, native_policy, native_upstream)
    /\ Stage("new") => native_buffer.held = <<>> /\ ~ native_buffer.committed
    /\ native_phase = "opening" => Stage("new")
    /\ native_phase = "recovering" => HasContentBlock(native_ledger)

\* When it has returned, what is out leads to the end of a message, and to an error said
\* if there was one.
NativeTail(u) ==
  /\ u.out = native_buffer.wire /\ Tells(Listener(native_client, FALSE), u) /\ u.l.stopped
  /\ native_phase # "failed" => u.l = native_ledger
  /\ native_phase = "failed" =>
       /\ Confessed(Listener(native_client, FALSE), u)
       /\ u.l = native_ledger \/ u.l.said = <<>> \/ u.l.said = EmptyObject
NativeEnd == native_phase \in NativeOver => \E u : NativeTail(u)

\* What the ledger holds then.
NativeAfter ==
  /\ native_phase \in NativeOver => ShortRepeats \/ Exact(native_ledger.said)
  /\ native_phase = "answered" =>
       Attempt(native_ledger, native_policy, native_upstream) /\ Stage("stopped")
  /\ native_phase = "continued" =>
       \A i \in ToolBlocks(native_ledger) : native_ledger.blocks[i].parts = Whole

NativeSafe == NativeFields /\ NativeLive /\ NativeEnd /\ NativeAfter

\* The adapter is at work, and nothing is waiting to be read.
Working == native_buffer.wire = <<>> /\ native_phase \notin NativeOver

LEMMA WorkingIs ==
  ASSUME NativeSafe, Working
  PROVE  /\ Live(native_client, native_ledger, native_buffer)
         /\ Attempt(native_ledger, native_policy, native_upstream)
         /\ native_buffer.wire = <<>> /\ native_phase \notin NativeOver
         /\ \E d : Meets(native_client, native_ledger, native_buffer, d)
<1>1. /\ Live(native_client, native_ledger, native_buffer)
      /\ Attempt(native_ledger, native_policy, native_upstream)
      /\ native_buffer.wire = <<>> /\ native_phase \notin NativeOver
  BY Zenon DEF NativeSafe, NativeLive, Working
<1>2. \E d : Meets(native_client, native_ledger, native_buffer, d)
  BY <1>1, LiveMeets
<1> QED BY <1>1, <1>2

\* A client that has read what is held agrees with the upstream, too.
LEMMA MeetsAccords ==
  ASSUME NativeSafe, Working, NEW d, Meets(native_client, native_ledger, native_buffer, d)
  PROVE  Accords(Listener(d, FALSE), Work(native_ledger), native_policy, native_upstream)
<1>1. Tells(Listener(d, FALSE), Work(native_ledger))
  BY Zenon DEF Meets
<1>2. Attempt(Work(native_ledger).l, native_policy, native_upstream)
  BY WorkingIs, WorkIs
<1> QED BY <1>1, <1>2, Zenon DEF Accords

LEMMA AttemptIs ==
  ASSUME NEW l, NEW p, NEW up, Attempt(l, p, up)
  PROVE  /\ p \in Policy /\ up \in NativeRecord /\ \A u \in DOMAIN p.by_upstream : Segment(p, u).down < p.next
         /\ InStep(l, p) /\ Carried(p, up) /\ Progress(l, p, up) /\ l.said = UpTo(up.text)
<1>1. InStep(l, p) /\ up \in NativeRecord /\ Carried(p, up) /\ Progress(l, p, up) /\ l.said = UpTo(up.text)
  BY Zenon DEF Attempt
<1>2. p \in Policy /\ \A u \in DOMAIN p.by_upstream : Segment(p, u).down < p.next
  BY <1>1, Zenon DEF InStep
<1> QED BY <1>1, <1>2

\* What an event of the upstream is replaced by.
Replaced(e) == Transform(native_policy, e, native_thinking)
Agreed(d) == Accords(Listener(d, FALSE), Work(native_ledger), native_policy, native_upstream)
Carries(e, new) ==
  \A d : Agreed(d) => PassedOn(Listener(d, FALSE), Work(native_ledger), Replaced(e), new)

LEMMA PassIs ==
  ASSUME NEW e, NEW new, Pass(e, new)
  PROVE  LET w == IngestAll(Work(native_ledger), Replaced(e).out)
         IN  /\ native_buffer.wire = <<>> /\ native_phase = "streaming" /\ native_policy' = Replaced(e).policy
             /\ native_ledger' = w.l /\ native_buffer' \in Push(native_buffer, w.out)
             /\ native_upstream' = new /\ native_phase' = native_phase
             /\ native_thinking' = native_thinking /\ native_retries' = native_retries
             /\ native_client' = native_client
BY DEF Pass, NativeReady, Replaced

LEMMA PassSafe ==
  ASSUME NativeSafe, NEW e, NEW new, Pass(e, new), new.stage # "new", Carries(e, new)
  PROVE  NativeSafe'
<1> DEFINE w == IngestAll(Work(native_ledger), Replaced(e).out)
<1>1. /\ native_buffer.wire = <<>> /\ native_phase = "streaming" /\ native_policy' = Replaced(e).policy
      /\ native_ledger' = w.l /\ native_buffer' \in Push(native_buffer, w.out)
      /\ native_upstream' = new /\ native_phase' = native_phase
      /\ native_thinking' = native_thinking /\ native_retries' = native_retries
      /\ native_client' = native_client
  BY PassIs
<1>2. /\ native_phase \notin NativeOver /\ native_phase # "opening" /\ native_phase # "recovering"
      /\ native_phase # "answered" /\ native_phase # "continued" /\ native_phase # "failed"
  BY <1>1 DEF NativeOver
<1>3. Live(native_client, native_ledger, native_buffer) /\ Working
  BY <1>1, <1>2, WorkingIs DEF Working
<1>4. PICK d : Meets(native_client, native_ledger, native_buffer, d)
  BY <1>3, WorkingIs
<1>5. Accords(Listener(d, FALSE), w, native_policy', new)
  <2>1. Agreed(d)
    BY <1>3, <1>4, MeetsAccords, Zenon DEF Agreed
  <2>2. PassedOn(Listener(d, FALSE), Work(native_ledger), Replaced(e), new)
    BY <2>1, Zenon DEF Carries
  <2> QED BY <1>1, <2>2, Zenon DEF PassedOn
<1> HIDE DEF w
<1>6. Tells(Listener(d, FALSE), w) /\ Attempt(w.l, native_policy', new)
  BY <1>5, Zenon DEF Accords
<1>7. Live(native_client, w.l, native_buffer')
  BY <1>1, <1>3, <1>4, <1>6, PushedLive
<1>8. NativeFields'
  <2>1. w.l \in Ledger /\ native_buffer' \in Buffer
    BY <1>6, <1>7, ToldFields DEF Live
  <2>2. /\ native_policy' \in Policy /\ new \in NativeRecord
        /\ \A u \in DOMAIN native_policy'.by_upstream : Segment(native_policy', u).down < native_policy'.next
    BY <1>6, AttemptIs
  <2> QED BY <1>1, <2>1, <2>2, Zenon DEF NativeFields, NativeSafe
<1>9. NativeLive'
  <2>1. ~ Stage("new")'
    BY <1>1 DEF Stage
  <2> QED BY <1>1, <1>2, <1>6, <1>7, <2>1, Zenon DEF NativeLive
<1>10. NativeEnd' /\ NativeAfter'
  BY <1>1, <1>2, Zenon DEF NativeEnd, NativeAfter
<1> QED BY <1>8, <1>9, <1>10, Zenon DEF NativeSafe
\* What the steps below start from.
LEMMA PassFrom ==
  ASSUME NativeSafe, NEW e, NEW new, Pass(e, new)
  PROVE  /\ Attempt(native_ledger, native_policy, native_upstream) /\ native_policy \in Policy
         /\ native_upstream \in NativeRecord /\ Carried(native_policy, native_upstream)
         /\ Work(native_ledger).l = native_ledger
<1>1. Working
  BY PassIs DEF Working, NativeOver
<1>2. Attempt(native_ledger, native_policy, native_upstream)
  BY <1>1, WorkingIs
<1> QED BY <1>2, AttemptIs, WorkIs

LEMMA AgreedHears ==
  ASSUME NEW d, Agreed(d), Stage("open")
  PROVE  Hears(Listener(d, FALSE), Work(native_ledger), native_policy, native_upstream)
BY Zenon DEF Agreed, Hears, Stage

LEMMA NativeMessageStartSafe ==
  ASSUME NativeSafe, NativeMessageStart
  PROVE  NativeSafe'
<1> DEFINE new == [native_upstream EXCEPT !.stage = "open"]
<1>1. Stage("new") /\ Pass(StartNotice, new)
  BY Zenon DEF NativeMessageStart, StartNotice
<1>2. native_upstream \in NativeRecord /\ native_upstream.stage = "new"
  BY <1>1, PassFrom DEF Stage
<1>3. /\ new \in NativeRecord /\ new.stage = "open" /\ new.blocks = native_upstream.blocks
      /\ new.text = native_upstream.text /\ new.stage # "new"
  BY <1>2, StageWith DEF UpstreamStage
<1> HIDE DEF new
<1>4. Carries(StartNotice, new)
  <2>1. ASSUME NEW d, Agreed(d)
        PROVE  PassedOn(Listener(d, FALSE), Work(native_ledger), Replaced(StartNotice), new)
    BY <1>2, <1>3, <2>1, StartNoticeTold, Zenon DEF Agreed, Replaced
  <2> QED BY <2>1, Zenon DEF Carries
<1> QED BY <1>1, <1>3, <1>4, PassSafe

LEMMA ReasonIs == Reason \in {"end_turn", "tool_use"}
BY DEF Reason

LEMMA NativeMessageDeltaSafe ==
  ASSUME NativeSafe, "empty" \notin NativeOddities, NativeMessageDelta
  PROVE  NativeSafe'
<1> DEFINE new == [native_upstream EXCEPT !.stage = "reason"]
           e == DeltaNotice(Reason)
<1>1. /\ Stage("open") /\ Pass(e, new) /\ HasContentBlock(native_ledger)
      /\ \A u \in DOMAIN native_upstream.blocks : ~ native_upstream.blocks[u].open
  BY Zenon DEF NativeMessageDelta, DeltaNotice
<1>2. native_upstream \in NativeRecord /\ Work(native_ledger).l = native_ledger
  BY <1>1, PassFrom
<1>3. /\ new \in NativeRecord /\ new.stage = "reason" /\ new.blocks = native_upstream.blocks
      /\ new.text = native_upstream.text /\ new.stage # "new"
  BY <1>2, StageWith DEF UpstreamStage
<1> HIDE DEF new
<1>4. Carries(e, new)
  <2>1. ASSUME NEW d, Agreed(d)
        PROVE  PassedOn(Listener(d, FALSE), Work(native_ledger), Replaced(e), new)
    <3>1. Hears(Listener(d, FALSE), Work(native_ledger), native_policy, native_upstream)
      BY <1>1, <2>1, AgreedHears, Zenon
    <3>2. HasContentBlock(Work(native_ledger).l)
      BY <1>1, <1>2
    <3> QED BY <1>1, <1>3, <3>1, <3>2, ReasonIs, DeltaNoticeTold, Zenon DEF Replaced
  <2> QED BY <2>1, Zenon DEF Carries
<1> HIDE DEF e
<1> QED BY <1>1, <1>3, <1>4, PassSafe

LEMMA NativeMessageStopSafe ==
  ASSUME NativeSafe, NativeMessageStop
  PROVE  NativeSafe'
<1> DEFINE new == [native_upstream EXCEPT !.stage = "stopped"]
<1>1. Stage("reason") /\ Pass(StopNotice, new)
  BY Zenon DEF NativeMessageStop, StopNotice
<1>2. native_upstream \in NativeRecord /\ native_upstream.stage = "reason"
  BY <1>1, PassFrom DEF Stage
<1>3. /\ new \in NativeRecord /\ new.stage = "stopped" /\ new.blocks = native_upstream.blocks
      /\ new.text = native_upstream.text /\ new.stage # "new"
  BY <1>2, StageWith DEF UpstreamStage
<1> HIDE DEF new
<1>4. Carries(StopNotice, new)
  <2>1. ASSUME NEW d, Agreed(d)
        PROVE  PassedOn(Listener(d, FALSE), Work(native_ledger), Replaced(StopNotice), new)
    BY <1>2, <1>3, <2>1, StopNoticeTold, Zenon DEF Agreed, Replaced
  <2> QED BY <2>1, Zenon DEF Carries
<1> QED BY <1>1, <1>3, <1>4, PassSafe

LEMMA NativeErrorEventSafe ==
  ASSUME NativeSafe, NativeErrorEvent
  PROVE  NativeSafe'
<1> DEFINE new == [native_upstream EXCEPT !.stage = "broken"]
<1>1. Stage("open") /\ Pass(ErrorNotice, new)
  BY Zenon DEF NativeErrorEvent, ErrorNotice
<1>2. native_upstream \in NativeRecord
  BY <1>1, PassFrom
<1>3. /\ new \in NativeRecord /\ new.stage = "broken" /\ new.blocks = native_upstream.blocks
      /\ new.text = native_upstream.text /\ new.stage # "new"
  BY <1>2, StageWith DEF UpstreamStage
<1> HIDE DEF new
<1>4. Carries(ErrorNotice, new)
  <2>1. ASSUME NEW d, Agreed(d)
        PROVE  PassedOn(Listener(d, FALSE), Work(native_ledger), Replaced(ErrorNotice), new)
    <3>1. Hears(Listener(d, FALSE), Work(native_ledger), native_policy, native_upstream)
      BY <1>1, <2>1, AgreedHears, Zenon
    <3> QED BY <1>3, <3>1, ErrorNoticeTold, Zenon DEF Replaced
  <2> QED BY <2>1, Zenon DEF Carries
<1> QED BY <1>1, <1>3, <1>4, PassSafe
\* A block begins while another is open only if no tool's arguments are split by that.
LEMMA OverlapIsWhole ==
  ASSUME MayOverlap, native_upstream \in NativeRecord, Carried(native_policy, native_upstream),
         native_policy \in Policy
  PROVE  WholeIn(native_upstream, OpenSegments(native_policy))
<1> SUFFICES ASSUME Orderly, NEW u \in OpenSegments(native_policy),
                    native_upstream.blocks[u].type = "tool_use"
             PROVE  native_upstream.blocks[u].sent = 2
  BY Zenon DEF WholeIn
<1>1. u \in DOMAIN native_upstream.blocks /\ native_upstream.blocks[u].open
  BY PolicyIs DEF Carried
<1>2. WholeTool(native_upstream.blocks[u])
  BY <1>1, Zenon DEF MayOverlap, Orderly
<1> QED BY <1>2 DEF WholeTool, Whole

LEMMA NativeBlockStartSafe ==
  ASSUME NativeSafe, NEW type \in BlockType, NativeBlockStart(type)
  PROVE  NativeSafe'
<1> DEFINE u == Len(native_upstream.blocks) + 1
           new == Began(native_upstream, type)
           e == StartEv(u, type)
<1>1. Stage("open") /\ MayOverlap /\ Pass(e, new)
  BY Zenon DEF NativeBlockStart, StartEv, Began, Begun
<1>2. /\ native_upstream \in NativeRecord /\ Carried(native_policy, native_upstream)
      /\ native_policy \in Policy
  BY <1>1, PassFrom, Zenon
<1>3. u \in Nat
  BY <1>2, NativeIs
<1>4. BegunBlock(native_upstream, new, u, type)
  BY <1>2, BeganIs
<1>5. WholeIn(native_upstream, OpenSegments(native_policy))
  BY <1>1, <1>2, OverlapIsWhole, Zenon
<1> HIDE DEF u, new
<1>6. new.stage # "new"
  BY <1>1, <1>4, Zenon DEF BegunBlock, Stage
<1>7. e.name = "content_block_start"
  BY EvIs DEF StartEv
<1>8. Replaced(e) = BlockStarted(native_policy, e, native_thinking)
  BY <1>7, TransformIs, Zenon DEF Replaced
<1>9. Carries(e, new)
  <2>1. ASSUME NEW d, Agreed(d)
        PROVE  PassedOn(Listener(d, FALSE), Work(native_ledger), Replaced(e), new)
    <3>1. Hears(Listener(d, FALSE), Work(native_ledger), native_policy, native_upstream)
      BY <1>1, <2>1, AgreedHears, Zenon
    <3>2. StartsBlock(Listener(d, FALSE), Work(native_ledger), native_policy, native_upstream, u, type, new)
      BY <1>3, <1>4, <3>1, Zenon DEF StartsBlock
    <3> QED BY <1>5, <1>8, <3>2, BlockStartTold, Zenon
  <2> QED BY <2>1, Zenon DEF Carries
<1> HIDE DEF e
<1> QED BY <1>1, <1>6, <1>9, PassSafe, Zenon

\* A fragment of a block goes through the policy.
LEMMA DeltaIs ==
  ASSUME NEW up, NEW u, NativeDelta(up, u)
  PROVE  \E n, new, type :
           /\ n = native_upstream.events + 1 /\ new = Counted(Grown(up, u), n)
           /\ type = up.blocks[u].type
           /\ Pass(GrowthEv(u, type, <<Fragment(new, u)>>), new)
BY DEF NativeDelta, Counted, GrowthEv

LEMMA NativeBlockDeltaSafe ==
  ASSUME NativeSafe, NEW u \in 1 .. NativeBlocks, NativeBlockDelta(u)
  PROVE  NativeSafe'
<1>1. /\ Stage("open") /\ NativeDelta(native_upstream, u)
      /\ u <= Len(native_upstream.blocks) /\ native_upstream.blocks[u].open
      /\ native_upstream.blocks[u].type # "redacted_thinking"
      /\ native_upstream.blocks[u].type = "tool_use" => native_upstream.blocks[u].sent < Len(Whole)
  BY DEF NativeBlockDelta
<1>2. PICK n, new, type :
        /\ n = native_upstream.events + 1 /\ new = Counted(Grown(native_upstream, u), n)
        /\ type = native_upstream.blocks[u].type
        /\ Pass(GrowthEv(u, type, <<Fragment(new, u)>>), new)
  BY <1>1, DeltaIs
<1> DEFINE data == <<Fragment(new, u)>>
           e == GrowthEv(u, type, data)
<1>3. native_upstream \in NativeRecord
  BY <1>2, PassFrom, Zenon
<1>4. n \in Nat /\ u \in DOMAIN native_upstream.blocks
  BY <1>1, <1>2, <1>3, NativeIs, NativeAssumption
<1>5. /\ type # "redacted_thinking"
      /\ type = "tool_use" => native_upstream.blocks[u].sent < 2
  BY <1>1, <1>2 DEF Whole
<1>6. /\ WritesMore(native_upstream, new, u, type, data)
      /\ type = "thinking" => new.blocks = native_upstream.blocks
  <2>1. new = Counted(Grown(native_upstream, u), n) /\ type = native_upstream.blocks[u].type
    BY <1>2, Zenon
  <2> QED BY <1>3, <1>4, <1>5, <2>1, GrownIs
<1>7. Pass(e, new)
  BY <1>2, Zenon
<1> HIDE DEF data
<1>8. new.stage # "new"
  BY <1>1, <1>6, Zenon DEF WritesMore, GrownBlock, Stage
<1>9. e.name = "content_block_delta"
  BY EvIs DEF GrowthEv
<1>10. Replaced(e) = BlockGrown(native_policy, e, native_thinking)
  BY <1>9, TransformIs, Zenon DEF Replaced
<1>11. Carries(e, new)
  <2>1. ASSUME NEW d, Agreed(d)
        PROVE  PassedOn(Listener(d, FALSE), Work(native_ledger), Replaced(e), new)
    <3>1. Hears(Listener(d, FALSE), Work(native_ledger), native_policy, native_upstream)
      BY <1>1, <2>1, AgreedHears, Zenon
    <3>2. WritesBlock(Listener(d, FALSE), Work(native_ledger), native_policy, native_upstream, u, type,
                      data, new)
      BY <1>1, <1>4, <1>5, <1>6, <3>1, Zenon DEF WritesBlock
    <3> QED BY <1>10, <3>2, BlockGrownTold, Zenon
  <2> QED BY <2>1, Zenon DEF Carries
<1> HIDE DEF e
<1> QED BY <1>7, <1>8, <1>11, PassSafe, Zenon

LEMMA NativeUnstartedSafe ==
  ASSUME NativeSafe, NEW type \in {"text", "tool_use"}, NativeUnstarted(type)
  PROVE  NativeSafe'
<1> DEFINE u == Len(native_upstream.blocks) + 1
           mid == Began(native_upstream, type)
<1>1. Stage("open") /\ NativeDelta(mid, u)
  BY Zenon DEF NativeUnstarted, Began, Begun
<1>2. PICK n, new, type2 :
        /\ n = native_upstream.events + 1 /\ new = Counted(Grown(mid, u), n)
        /\ type2 = mid.blocks[u].type
        /\ Pass(GrowthEv(u, type2, <<Fragment(new, u)>>), new)
  BY <1>1, DeltaIs, Zenon
<1> DEFINE data == <<Fragment(new, u)>>
           e == GrowthEv(u, type, data)
<1>3. native_upstream \in NativeRecord
  BY <1>2, PassFrom, Zenon
<1>4. n \in Nat /\ u \in Nat
  BY <1>2, <1>3, NativeIs
<1>5. BegunBlock(native_upstream, mid, u, type) /\ mid \in NativeRecord /\ type \in BlockType
  BY <1>3, BeganIs DEF BlockType
<1> HIDE DEF u, mid
<1>6. /\ u \in DOMAIN mid.blocks /\ mid.blocks[u].type = type /\ mid.blocks[u].sent < 2
      /\ type # "redacted_thinking" /\ type2 = type /\ mid.stage = native_upstream.stage
  BY <1>2, <1>5 DEF BegunBlock
<1>7. WritesMore(mid, new, u, type, data)
  BY <1>2, <1>4, <1>5, <1>6, GrownIs, Zenon
<1>8. Pass(e, new)
  BY <1>2, <1>6, Zenon
<1> HIDE DEF data
<1>9. new.stage # "new"
  BY <1>1, <1>6, <1>7, Zenon DEF WritesMore, GrownBlock, Stage
<1>10. e.name = "content_block_delta"
  BY EvIs DEF GrowthEv
<1>11. Replaced(e) = BlockGrown(native_policy, e, native_thinking)
  BY <1>10, TransformIs, Zenon DEF Replaced
<1>12. Carries(e, new)
  <2>1. ASSUME NEW d, Agreed(d)
        PROVE  PassedOn(Listener(d, FALSE), Work(native_ledger), Replaced(e), new)
    <3>1. Hears(Listener(d, FALSE), Work(native_ledger), native_policy, native_upstream)
      BY <1>1, <2>1, AgreedHears, Zenon
    <3>2. StartsBlock(Listener(d, FALSE), Work(native_ledger), native_policy, native_upstream, u, type, mid)
      BY <1>4, <1>5, <3>1, Zenon DEF StartsBlock
    <3> QED BY <1>7, <1>11, <3>2, UnstartedTold, Zenon
  <2> QED BY <2>1, Zenon DEF Carries
<1> HIDE DEF e
<1> QED BY <1>8, <1>9, <1>12, PassSafe, Zenon

LEMMA NativeBlockStopSafe ==
  ASSUME NativeSafe, NEW u \in 1 .. NativeBlocks, NativeBlockStop(u)
  PROVE  NativeSafe'
<1> DEFINE new == Shuts(native_upstream, u)
           e == StopEv(u)
<1>1. /\ Stage("open") /\ u <= Len(native_upstream.blocks) /\ Pass(e, new)
      /\ WholeTool(native_upstream.blocks[u]) \/ "bad_tools" \in NativeOddities
  BY Zenon DEF NativeBlockStop, StopEv, Shuts
<1>2. native_upstream \in NativeRecord
  BY <1>1, PassFrom, Zenon
<1>3. u \in DOMAIN native_upstream.blocks /\ u \in Int
  BY <1>1, <1>2, NativeIs, NativeAssumption
<1>4. EndedBlock(native_upstream, new, u)
  BY <1>2, <1>3, ShutsIs
<1>5. WholeIn(native_upstream, {u})
  BY <1>1 DEF WholeIn, Orderly, WholeTool, Whole
<1> HIDE DEF new
<1>6. new.stage # "new"
  BY <1>1, <1>4, Zenon DEF EndedBlock, Stage
<1>7. e.name = "content_block_stop"
  BY <1>3, StopEvIs
<1>8. Replaced(e) = BlockStopped(native_policy, e, native_thinking)
  BY <1>7, TransformIs, Zenon DEF Replaced
<1>9. Carries(e, new)
  <2>1. ASSUME NEW d, Agreed(d)
        PROVE  PassedOn(Listener(d, FALSE), Work(native_ledger), Replaced(e), new)
    <3>1. Hears(Listener(d, FALSE), Work(native_ledger), native_policy, native_upstream)
      BY <1>1, <2>1, AgreedHears, Zenon
    <3>2. StopsBlock(Listener(d, FALSE), Work(native_ledger), native_policy, native_upstream, u, new)
      BY <1>3, <1>4, <3>1, Zenon DEF StopsBlock
    <3> QED BY <1>5, <1>8, <3>2, BlockStoppedTold, Zenon
  <2> QED BY <2>1, Zenon DEF Carries
<1> HIDE DEF e
<1> QED BY <1>1, <1>6, <1>9, PassSafe, Zenon
-----------------------------------------------------------------------------
(* The end of an answer.                                                    *)

\* Whatever of the end is missing is said.
Answers(c, w, u) ==
  /\ Tells(c, u) /\ u.l.stopped /\ u.l.blocks = w.l.blocks /\ u.l.said = w.l.said

\* A message that can end, or has ended.
Finishes(c, w) ==
  /\ Tells(c, w) /\ w.l.started /\ HasContentBlock(w.l)
  /\ w.l.stopped => Range(w.l.stack) = {} /\ w.l.stop_reason \in {"end_turn", "tool_use"}

LEMMA SameLedger ==
  ASSUME NEW c, NEW w, NEW v, NEW u, Same(v.l, u.l), v.l.blocks = w.l.blocks, v.l.said = w.l.said,
         Tells(c, u), u.l.stopped
  PROVE  Answers(c, w, u)
BY Zenon DEF Same, Answers

LEMMA StackEmpty ==
  ASSUME NEW s \in Seq(Nat), Range(s) = {}
  PROVE  Len(s) = 0
<1> SUFFICES ASSUME Len(s) # 0 PROVE FALSE
  OBVIOUS
<1>1. 1 \in 1 .. Len(s)
  BY DEF Range
<1>2. s[1] \in Range(s)
  BY <1>1, RangeIs
<1> QED BY <1>2

\* Why the message ended is not said yet.
NoReason(l) == l.stop_reason = ""
LEMMA NoReasonNot ==
  ASSUME NEW l, l.stop_reason \in {"end_turn", "tool_use"}
  PROVE  ~ NoReason(l)
<1>1. CASE l.stop_reason = "end_turn"
  BY <1>1, Zenon DEF NoReason
<1>2. CASE l.stop_reason = "tool_use"
  BY <1>2, Zenon DEF NoReason
<1> QED BY <1>1, <1>2

\* A message that was ended gets nothing more; another gets its end.
LEMMA SuccessTailIs ==
  ASSUME NEW w, NEW v, v = CloseUnclosed(w), NEW d,
         d = MessageDelta(v, FinalStopReason(v.l, "end_turn"))
  PROVE  SuccessTail(w) = LET u == IF NoReason(v.l) THEN d ELSE v
                          IN  IF u.l.stopped THEN u ELSE MessageStop(u)
BY Zenon DEF SuccessTail, NoReason

LEMMA SuccessTailTold ==
  ASSUME NEW c, NEW w, Finishes(c, w)
  PROVE  Answers(c, w, SuccessTail(w))
<1> DEFINE v == CloseUnclosed(w)
           reason == FinalStopReason(v.l, "end_turn")
           d == MessageDelta(v, reason)
<1>1. CASE w.l.stopped
  <2>1. w.l.stack \in Seq(Nat) /\ Range(w.l.stack) = {} /\ w.l.stop_reason \in {"end_turn", "tool_use"}
        /\ Tells(c, w)
    BY <1>1, ToldFields, LedgerFields DEF Finishes
  <2>2. Len(w.l.stack) = 0
    BY <2>1, StackEmpty
  <2>3. v = w
    <3> DEFINE s == w.l.stack
               g == [k \in 0 .. 0 |-> w]
    <3>1. g = [k \in 0 .. 0 |-> IF k = 0 THEN w ELSE BlockStop(g[k - 1], s[0 + 1 - k])]
      OBVIOUS
    <3> DEFINE Closes(f) ==
                 f = [k \in 0 .. 0 |-> IF k = 0 THEN w ELSE BlockStop(f[k - 1], s[0 + 1 - k])]
               f == CHOOSE x : Closes(x)
    <3>2. Closes(g)
      BY <3>1
    <3>3. Closes(f)
      <4> HIDE DEF Closes, g
      <4> QED BY <3>2
    <3>4. f[0] = w
      <4> HIDE DEF f
      <4> QED BY <3>3
    <3>5. CloseUnclosed(w) = f[0]
      BY <2>2 DEF CloseUnclosed
    <3> QED BY <3>4, <3>5
  <2>4. SuccessTail(w) = w
    <3>1. ~ NoReason(w.l)
      BY <2>1, NoReasonNot
    <3> HIDE DEF v
    <3>2. v = CloseUnclosed(w)
      BY DEF v
    <3>3. SuccessTail(w) = LET u == IF NoReason(v.l)
                                    THEN MessageDelta(v, FinalStopReason(v.l, "end_turn")) ELSE v
                           IN  IF u.l.stopped THEN u ELSE MessageStop(u)
      BY <3>2, SuccessTailIs, Zenon
    <3> QED BY <1>1, <2>3, <3>1, <3>3, Zenon
  <2> QED BY <1>1, <2>1, <2>4, Zenon DEF Answers
<1>2. CASE ~ w.l.stopped
  <2>1. Tells(c, w) /\ Speaks(w) /\ HasContentBlock(w.l)
    BY <1>2, Zenon DEF Finishes, Speaks
  <2>2. /\ Tells(c, v) /\ Speaks(v) /\ Range(v.l.stack) = {} /\ v.l.blocks = w.l.blocks
        /\ v.l.said = w.l.said
    BY <2>1, CloseUnclosedTold
  <2> HIDE DEF v
  <2>3. HasContentBlock(v.l) /\ reason \in {"end_turn", "tool_use"}
    BY <2>1, <2>2 DEF HasContentBlock, FinalStopReason
  <2> HIDE DEF reason
  <2>4. Tells(c, d) /\ Speaks(d) /\ Same(v.l, d.l)
    BY <2>2, <2>3, MessageDeltaTold
  <2>5. Answers(c, w, MessageStop(v))
    <3>1. Tells(c, MessageStop(v)) /\ MessageStop(v).l.stopped /\ Same(v.l, MessageStop(v).l)
      BY <2>2, <2>3, MessageStopTold
    <3> QED BY <2>2, <3>1, SameLedger, Zenon
  <2> HIDE DEF d
  <2>6. Range(d.l.stack) = {} /\ HasContentBlock(d.l) /\ d.l.blocks = w.l.blocks /\ d.l.said = w.l.said
    BY <2>2, <2>3, <2>4, Zenon DEF Same, HasContentBlock
  <2>7. Answers(c, w, MessageStop(d))
    <3>1. Tells(c, MessageStop(d)) /\ MessageStop(d).l.stopped /\ Same(d.l, MessageStop(d).l)
      BY <2>4, <2>6, MessageStopTold
    <3> QED BY <2>6, <3>1, SameLedger, Zenon
  <2>8. SuccessTail(w) \in {MessageStop(v), MessageStop(d)}
    <3>1. ~ v.l.stopped /\ ~ d.l.stopped
      BY <2>2, <2>4, Zenon DEF Speaks
    <3>2. SuccessTail(w) = LET u == IF NoReason(v.l) THEN d ELSE v
                           IN  IF u.l.stopped THEN u ELSE MessageStop(u)
      BY SuccessTailIs DEF v, d, reason
    <3> QED BY <3>1, <3>2
  <2> QED BY <2>5, <2>7, <2>8
<1> QED BY <1>1, <1>2

\* A failure is said, and the message ended.
Confesses(c, w, u) ==
  /\ Tells(c, u) /\ u.l.stopped /\ Confessed(c, u)
  /\ u.l.said = w.l.said \/ u.l.said = w.l.said \o EmptyObject

LEMMA FailedConfesses ==
  ASSUME NEW c, NEW w, NEW v, NEW u, Failed(c, v, u), v.l.said = w.l.said
  PROVE  Confesses(c, w, u)
BY DEF Failed, Confesses

LEMMA ErrorTailIs ==
  ASSUME NEW w, NEW v, v = CloseUnclosed(w)
  PROVE  LET d == MessageDelta(EmitError(v), "end_turn")
             t == TopLevelError(v)
         IN  /\ CanAppend(v.l) /\ ~ d.l.stopped => MidstreamErrorTail(w) = MessageStop(d)
             /\ ~ CanAppend(v.l) /\ ~ t.l.stopped => MidstreamErrorTail(w) = MessageStop(t)
BY DEF MidstreamErrorTail

LEMMA MidstreamErrorTailTold ==
  ASSUME NEW c, NEW w, Tells(c, w), Speaks(w), CanAppend(w.l) \/ HasContentBlock(w.l)
  PROVE  Confesses(c, w, MidstreamErrorTail(w))
<1> DEFINE v == CloseUnclosed(w)
           f == EmitError(v)
           d == MessageDelta(f, "end_turn")
           t == TopLevelError(v)
<1>1. /\ Tells(c, v) /\ Speaks(v) /\ Range(v.l.stack) = {} /\ Kept(w.l, v.l)
      /\ v.l.blocks = w.l.blocks /\ v.l.said = w.l.said /\ ~ v.l.text_on /\ ~ v.l.thinking_on
  BY CloseUnclosedTold
<1>2. CanAppend(v.l) = CanAppend(w.l) /\ HasContentBlock(v.l) = HasContentBlock(w.l)
  BY <1>1, Zenon DEF Kept, CanAppend, HasContentBlock
<1> HIDE DEF v
<1>3. CASE CanAppend(v.l)
  <2>1. Tells(c, f) /\ Speaks(f)
    BY <1>1, EmitErrorTold
  <2> HIDE DEF f
  <2>2. Speaks(d)
    BY <2>1, MessageDeltaTold
  <2>3. MidstreamErrorTail(w) = MessageStop(d)
    BY <1>3, <2>2, ErrorTailIs DEF v, f, Speaks
  <2>4. Failed(c, v, MessageStop(d))
    BY <1>1, ErrorTold DEF f
  <2> QED BY <1>1, <2>3, <2>4, FailedConfesses, Zenon
<1>4. CASE ~ CanAppend(v.l)
  <2>1. HasContentBlock(v.l)
    BY <1>2, <1>4
  <2>2. Speaks(t) /\ t.l = v.l /\ \A b : b.from = c.from => Tells(b, t)
    BY <1>1, TopLevelErrorTold
  <2>3. MidstreamErrorTail(w) = MessageStop(t)
    BY <1>4, <2>2, ErrorTailIs DEF v, Speaks
  <2> HIDE DEF t
  <2>4. \A b : b.from = c.from =>
          Tells(b, MessageStop(t)) /\ MessageStop(t).l.stopped /\ Same(t.l, MessageStop(t).l)
    BY <1>1, <2>1, <2>2, MessageStopTold
  <2>5. Listener(c.from, TRUE).from = c.from
    BY DEF Listener
  <2>6. Confessed(c, MessageStop(t))
    BY <2>4, <2>5, Zenon DEF Confessed
  <2>7. MessageStop(t).l.said = w.l.said
    BY <1>1, <2>2, <2>4, Zenon DEF Same
  <2> QED BY <2>3, <2>4, <2>6, <2>7, Zenon DEF Confesses
<1> QED BY <1>3, <1>4
-----------------------------------------------------------------------------
(* How the adapter ends.                                                    *)

\* A client that has read everything.
LEMMA AllRead ==
  ASSUME NativeSafe, Working, native_buffer.held = <<>>
  PROVE  Agrees(native_client, native_ledger)
<1>1. PICK d : Meets(native_client, native_ledger, native_buffer, d)
  BY WorkingIs
<1>2. Path(native_client, <<>>, d) /\ Agrees(d, native_ledger)
  BY <1>1, Zenon DEF Meets
<1>3. d = native_client
  BY <1>2, PathEmpty
<1> QED BY <1>2, <1>3

\* A client that was told nothing, and an answer that has begun.
LEMMA BegunIs ==
  ASSUME NativeSafe, Working
  PROVE  /\ Stage("new") =>
              /\ native_buffer.held = <<>> /\ ~ native_buffer.committed
              /\ native_ledger = NewLedger /\ Agrees(native_client, NewLedger)
         /\ ~ Stage("new") =>
              native_ledger.started /\ (native_buffer.committed \/ native_buffer.held # <<>>)
<1>1. Progress(native_ledger, native_policy, native_upstream)
  BY WorkingIs, AttemptIs
<1>2. Live(native_client, native_ledger, native_buffer) /\ native_phase \notin NativeOver
  BY WorkingIs
<1>3. ASSUME Stage("new")
      PROVE  /\ native_buffer.held = <<>> /\ ~ native_buffer.committed
             /\ native_ledger = NewLedger /\ Agrees(native_client, NewLedger)
  <2>1. native_buffer.held = <<>> /\ ~ native_buffer.committed
    BY <1>2, <1>3, Zenon DEF NativeSafe, NativeLive
  <2>2. native_ledger = NewLedger
    BY <1>1, <1>3, Zenon DEF Progress, Stage
  <2> QED BY <1>2, <2>1, <2>2, Zenon DEF Live
<1>4. ASSUME ~ Stage("new")
      PROVE  native_ledger.started /\ (native_buffer.committed \/ native_buffer.held # <<>>)
  <2>1. native_ledger.started
    BY <1>1, <1>4, Zenon DEF Progress, Stage
  <2>2. ASSUME ~ native_buffer.committed, native_buffer.held = <<>>
        PROVE  FALSE
    <3>1. Agrees(native_client, native_ledger) /\ Agrees(native_client, NewLedger)
      BY <1>2, <2>2, AllRead, Zenon DEF Live
    <3>2. PhaseOf(native_ledger) = PhaseOf(NewLedger)
      BY <3>1, Zenon DEF Agrees
    <3>3. ~ NewLedger.started /\ ~ NewLedger.stopped
      BY DEF NewLedger
    <3> QED BY <2>1, <3>2, <3>3 DEF PhaseOf
  <2> QED BY <2>1, <2>2
<1> QED BY <1>3, <1>4

LEMMA SilentClient ==
  ASSUME NativeSafe, Working, native_client.phase = "new"
  PROVE  Agrees(native_client, NewLedger)
<1>1. Live(native_client, native_ledger, native_buffer)
  BY WorkingIs
<1>2. CASE ~ native_buffer.committed
  BY <1>1, <1>2, Zenon DEF Live
<1>3. CASE native_buffer.committed
  <2>1. native_buffer.held = <<>>
    BY <1>1, <1>3, Zenon DEF Live
  <2>2. native_client.phase = PhaseOf(native_ledger)
    BY <2>1, AllRead, Zenon DEF Agrees
  <2>3. ~ native_ledger.started
    BY <2>2 DEF PhaseOf
  <2> QED BY <2>3, BegunIs
<1> QED BY <1>2, <1>3

\* What an operation says, whoever listens.
Voices(w) == \A d : Agreed(d) => Tells(Listener(d, FALSE), w)

\* The end of an answer that did not fail.
LEMMA NativeEndsSafe ==
  ASSUME NativeSafe, Working, NEW w, Voices(w), w.l.stopped, native_ledger' = w.l,
         native_buffer' = FlushThen(native_buffer, w.out),
         native_phase' \in {"answered", "continued"}, NativeAfter',
         native_thinking' = native_thinking, native_retries' = native_retries,
         native_policy' = native_policy, native_upstream' = native_upstream,
         native_client' = native_client
  PROVE  NativeSafe'
<1>1. Live(native_client, native_ledger, native_buffer)
  BY WorkingIs
<1>2. PICK d : Meets(native_client, native_ledger, native_buffer, d)
  BY WorkingIs
<1>3. Tells(Listener(d, FALSE), w)
  BY <1>2, MeetsAccords, Zenon DEF Voices, Agreed
<1>4. /\ Tells(Listener(native_client, FALSE), [l |-> w.l, out |-> FlushThen(native_buffer, w.out).wire])
      /\ FlushThen(native_buffer, w.out) \in Buffer
  <2>1. FALSE \in BOOLEAN
    OBVIOUS
  <2> QED BY <1>1, <1>2, <1>3, <2>1, FlushedReaches
<1>5. native_phase' \in NativeOver /\ native_phase' # "failed" /\ native_phase' \in NativePhase
  BY DEF NativeOver, NativePhase
<1>6. PICK u : u = [l |-> w.l, out |-> FlushThen(native_buffer, w.out).wire]
  OBVIOUS
<1>7. u.l = w.l /\ u.out = native_buffer'.wire /\ Tells(Listener(native_client, FALSE), u)
  BY <1>4, <1>6
<1>8. NativeTail(u)'
  BY <1>5, <1>7, Zenon DEF NativeTail
<1>9. NativeEnd' /\ NativeLive'
  BY <1>5, <1>8, Zenon DEF NativeEnd, NativeLive
<1>10. NativeFields'
  <2>1. w.l \in Ledger
    BY <1>3, ToldFields
  <2> QED BY <1>4, <1>5, <2>1, Zenon DEF NativeFields, NativeSafe
<1> QED BY <1>9, <1>10, Zenon DEF NativeSafe
\* The text of an attempt, and of an attempt that was given up.
LEMMA ExactSoFar ==
  ASSUME NativeSafe, Working
  PROVE  native_ledger.said \in Seq(Nat) /\ Exact(native_ledger.said)
<1>1. native_upstream \in NativeRecord /\ native_ledger.said = UpTo(native_upstream.text)
  BY WorkingIs, AttemptIs
<1>2. native_upstream.text \in Nat
  BY <1>1, NativeIs
<1> QED BY <1>1, <1>2, UpToIs

\* A client that was told nothing is told the error in a message of its own.
LEMMA UntoldSafe ==
  ASSUME NativeSafe, Working, Agrees(native_client, NewLedger),
         native_buffer' = [native_buffer EXCEPT !.wire = ErrorSequence(FALSE)],
         native_phase' = "failed", native_ledger' = native_ledger,
         native_thinking' = native_thinking, native_retries' = native_retries,
         native_policy' = native_policy, native_upstream' = native_upstream,
         native_client' = native_client
  PROVE  NativeSafe'
<1>1. native_client \in Client /\ native_buffer \in Buffer
  BY WorkingIs, Zenon DEF Live
<1>2. \A c, f : Listener(c, f).from = c /\ Listener(c, f).error = f
  BY DEF Listener
<1>3. PICK u : /\ ErrorSequence(FALSE) = u.out
               /\ Failed(Listener(native_client, FALSE), Work(NewLedger), u)
  <2>1. Listener(native_client, FALSE).from = native_client /\ ~ Listener(native_client, FALSE).error
    BY <1>2
  <2> QED BY <1>1, <2>1, ErrorSequenceTold
<1>4. Tells(Listener(native_client, FALSE), u) /\ u.l.stopped /\ Confessed(Listener(native_client, FALSE), u)
  BY <1>3, Zenon DEF Failed
<1>5. u.out \in Seq(Event)
  BY <1>4, ToldFields
<1>6. u.l.said = <<>> \/ u.l.said = EmptyObject
  <2>1. NewLedger.said = <<>> /\ Work(NewLedger).l = NewLedger
    BY NewLedgerIs, WorkIs
  <2>2. <<>> \o EmptyObject = EmptyObject
    BY DEF EmptyObject
  <2>3. u.l.said \in {NewLedger.said, NewLedger.said \o EmptyObject}
    BY <1>3, <2>1, Zenon DEF Failed
  <2> QED BY <2>1, <2>2, <2>3
<1>7. native_buffer' \in Buffer /\ native_buffer'.wire = u.out
  BY <1>1, <1>3, <1>5 DEF Buffer
<1>8. /\ native_phase' \in NativeOver /\ native_phase' \in NativePhase /\ native_phase' # "continued"
      /\ native_phase' # "answered" /\ native_phase' = "failed"
  BY DEF NativeOver, NativePhase
<1>9. NativeTail(u)'
  BY <1>4, <1>6, <1>7, <1>8, Zenon DEF NativeTail
<1>10. NativeEnd' /\ NativeLive' /\ NativeAfter'
  BY <1>8, <1>9, ExactSoFar, Zenon DEF NativeEnd, NativeLive, NativeAfter
<1>11. NativeFields'
  BY <1>7, <1>8, Zenon DEF NativeSafe, NativeFields
<1> QED BY <1>10, <1>11, Zenon DEF NativeSafe

\* Where an answer that is not complete can still be told of a failure.
LEMMA CanConfess ==
  ASSUME NativeSafe, Working, ~ Stage("new"), ~ Stage("stopped"), NEW d, Agreed(d)
  PROVE  Confesses(Listener(d, FALSE), Work(native_ledger), MidstreamErrorTail(Work(native_ledger)))
<1> DEFINE w == Work(native_ledger)
<1>1. w.l = native_ledger
  BY WorkIs
<1>2. Tells(Listener(d, FALSE), w) /\ Progress(w.l, native_policy, native_upstream)
      /\ native_upstream \in NativeRecord
  <2>1. Tells(Listener(d, FALSE), w)
    BY Zenon DEF Agreed, Accords
  <2> QED BY <1>1, <2>1, WorkingIs, AttemptIs
<1> HIDE DEF w
<1>3. w.l.started /\ ~ w.l.stopped
  BY <1>2, Zenon DEF Progress, Stage
<1>4. CanAppend(w.l) \/ HasContentBlock(w.l)
  <2>1. native_upstream.stage \in UpstreamStage
    BY <1>2, NativeIs
  <2>2. native_upstream.stage \in {"open", "broken"} \/ native_upstream.stage \in Ending
    BY <2>1 DEF UpstreamStage, Ending, Stage
  <2> QED BY <1>2, <2>2, Zenon DEF Progress
<1>5. Speaks(w)
  BY <1>3, Zenon DEF Speaks
<1>6. Confesses(Listener(d, FALSE), w, MidstreamErrorTail(w))
  BY <1>2, <1>4, <1>5, MidstreamErrorTailTold
<1> QED BY <1>6, Zenon DEF w

LEMMA GivesUpIs ==
  ASSUME NativeSafe, Working, NativeGivesUp, NEW w, w = MidstreamErrorTail(Work(native_ledger))
  PROVE  /\ native_phase' = "failed" /\ native_thinking' = native_thinking
         /\ native_retries' = native_retries /\ native_policy' = native_policy
         /\ native_upstream' = native_upstream /\ native_client' = native_client
         /\ Stage("new") => /\ native_ledger' = native_ledger
                            /\ native_buffer' = [native_buffer EXCEPT !.wire = ErrorSequence(FALSE)]
         /\ ~ Stage("new") => native_ledger' = w.l /\ native_buffer' = FlushThen(native_buffer, w.out)
<1>1. native_buffer.committed \/ native_buffer.held # <<>> <=> ~ Stage("new")
  BY BegunIs
<1>2. /\ native_phase' = "failed" /\ native_thinking' = native_thinking
      /\ native_retries' = native_retries /\ native_policy' = native_policy
      /\ native_upstream' = native_upstream /\ native_client' = native_client
      /\ native_buffer' = IF native_buffer.committed \/ native_buffer.held # <<>>
                          THEN FlushThen(native_buffer, w.out)
                          ELSE [native_buffer EXCEPT !.wire = ErrorSequence(FALSE)]
      /\ native_ledger' = IF native_buffer.committed \/ native_buffer.held # <<>>
                          THEN w.l ELSE native_ledger
  BY DEF NativeGivesUp
<1> QED BY <1>1, <1>2

\* The error ends the message that was begun, or is a message of its own.
LEMMA NativeGivesUpSafe ==
  ASSUME NativeSafe, Working, ~ Stage("stopped"), NativeGivesUp
  PROVE  NativeSafe'
<1> DEFINE w == MidstreamErrorTail(Work(native_ledger))
<1>1. /\ native_phase' = "failed" /\ native_thinking' = native_thinking
      /\ native_retries' = native_retries /\ native_policy' = native_policy
      /\ native_upstream' = native_upstream /\ native_client' = native_client
      /\ Stage("new") => /\ native_ledger' = native_ledger
                         /\ native_buffer' = [native_buffer EXCEPT !.wire = ErrorSequence(FALSE)]
      /\ ~ Stage("new") => native_ledger' = w.l /\ native_buffer' = FlushThen(native_buffer, w.out)
  BY GivesUpIs
<1>2. CASE Stage("new")
  <2>1. Agrees(native_client, NewLedger)
    BY <1>2, BegunIs
  <2> QED BY <1>1, <1>2, <2>1, UntoldSafe
<1>3. CASE ~ Stage("new")
  <2>1. Live(native_client, native_ledger, native_buffer)
    BY WorkingIs
  <2>2. PICK d : Meets(native_client, native_ledger, native_buffer, d)
    BY WorkingIs
  <2>3. Confesses(Listener(d, FALSE), Work(native_ledger), w)
    BY <1>3, <2>2, CanConfess, MeetsAccords, Zenon DEF Agreed
  <2> HIDE DEF w
  <2>4. \A e \in BOOLEAN :
          Tells(Listener(d, e), w) =>
            /\ Tells(Listener(native_client, e), [l |-> w.l, out |-> FlushThen(native_buffer, w.out).wire])
            /\ FlushThen(native_buffer, w.out) \in Buffer
    BY <2>1, <2>2, FlushedReaches
  <2>5. PICK u : u = [l |-> w.l, out |-> FlushThen(native_buffer, w.out).wire]
    OBVIOUS
  <2>6. /\ u.l = w.l /\ u.out = native_buffer'.wire /\ Tells(Listener(native_client, FALSE), u)
        /\ FlushThen(native_buffer, w.out) \in Buffer /\ u.l.stopped
    <3>1. Tells(Listener(d, FALSE), w) /\ w.l.stopped
      BY <2>3, Zenon DEF Confesses
    <3> QED BY <1>1, <1>3, <2>4, <2>5, <3>1
  <2>7. Confessed(Listener(native_client, FALSE), u)
    <3>1. \A c, e : Listener(c, e).from = c
      BY DEF Listener
    <3>2. Tells(Listener(d, TRUE), w) \/ 0 \in Range(w.l.said)
      BY <2>3, <3>1, Zenon DEF Confesses, Confessed
    <3>3. Tells(Listener(d, TRUE), w) => Tells(Listener(native_client, TRUE), u)
      BY <2>4, <2>5
    <3> QED BY <2>6, <3>1, <3>2, <3>3, Zenon DEF Confessed
  <2>8. /\ native_phase' \in NativeOver /\ native_phase' = "failed" /\ native_phase' \in NativePhase
        /\ native_phase' # "continued" /\ native_phase' # "answered"
    BY <1>1 DEF NativeOver, NativePhase
  <2>9. NativeTail(u)'
    BY <1>1, <1>3, <2>6, <2>7, <2>8, Zenon DEF NativeTail
  <2>10. Exact(w.l.said)
    <3>1. native_ledger.said \in Seq(Nat) /\ Exact(native_ledger.said)
      BY ExactSoFar
    <3>2. Work(native_ledger).l = native_ledger
      BY WorkIs
    <3>3. w.l.said = native_ledger.said \/ w.l.said = native_ledger.said \o EmptyObject
      BY <2>3, <3>2, Zenon DEF Confesses
    <3>4. Exact(native_ledger.said \o EmptyObject)
      BY <3>1, OrderToldMore
    <3> QED BY <3>1, <3>3, <3>4
  <2>11. NativeEnd' /\ NativeLive' /\ NativeAfter'
    BY <1>1, <1>3, <2>8, <2>9, <2>10, Zenon DEF NativeEnd, NativeLive, NativeAfter
  <2>12. NativeFields'
    <3>1. w.l \in Ledger
      BY <2>3, ToldFields DEF Confesses
    <3> QED BY <1>1, <1>3, <2>6, <2>8, <3>1, Zenon DEF NativeFields, NativeSafe
  <2> QED BY <2>11, <2>12, Zenon DEF NativeSafe
<1> QED BY <1>2, <1>3
\* The next attempt starts from nothing, and the client was told nothing.
Retries ==
  /\ ~ native_buffer.committed /\ native_retries < EarlyRetries
  /\ native_retries' = native_retries + 1 /\ native_buffer' = Discarded(native_buffer)
  /\ native_ledger' = NewLedger /\ native_policy' = FreshPolicy
  /\ native_upstream' = FreshNativeUpstream /\ native_phase' = "opening"
  /\ native_thinking' = native_thinking /\ native_client' = native_client
Rescues ==
  /\ HasContentBlock(native_ledger) /\ native_phase' = "recovering"
  /\ UNCHANGED <<native_thinking, native_ledger, native_buffer, native_retries, native_policy,
                 native_upstream, native_client>>

LEMMA NativeFailsIs ==
  ASSUME NEW retryable, NEW opened, NativeFails(retryable, opened)
  PROVE  /\ Retries \/ Rescues \/ NativeGivesUp
         /\ retryable /\ HasContentBlock(native_ledger) => Retries \/ Rescues
<1> DEFINE again == EarlyRetry(native_buffer, native_retries, retryable, opened,
                               Salvageable(native_ledger))
<1>1. CASE again
  <2>1. ~ native_buffer.committed /\ native_retries < EarlyRetries
    BY <1>1 DEF EarlyRetry
  <2> HIDE DEF again
  <2>2. /\ native_retries' = native_retries + 1 /\ native_buffer' = Discarded(native_buffer)
        /\ native_ledger' = NewLedger /\ native_policy' = FreshPolicy
        /\ native_upstream' = FreshNativeUpstream /\ native_phase' = "opening"
        /\ native_thinking' = native_thinking /\ native_client' = native_client
    BY <1>1 DEF NativeFails, again
  <2> QED BY <2>1, <2>2, Zenon DEF Retries
<1>2. CASE ~ again /\ retryable /\ HasContentBlock(native_ledger)
  <2> HIDE DEF again
  <2> QED BY <1>2 DEF NativeFails, again, Rescues
<1>3. CASE ~ again /\ ~ (retryable /\ HasContentBlock(native_ledger))
  <2> HIDE DEF again
  <2> QED BY <1>3 DEF NativeFails, again
<1> HIDE DEF again
<1> QED BY <1>1, <1>2, <1>3

\* Nothing was sent in a new attempt.
LEMMA FreshAttempt == Attempt(NewLedger, FreshPolicy, FreshNativeUpstream)
<1> DEFINE none == <<>>
           l == NewLedger
           p == [next |-> 0, by_upstream |-> none, dropped |-> {}, suppressed |-> {}]
           up == [stage |-> "new", blocks |-> none, events |-> 0, text |-> 0, thinking |-> 0]
<1>1. FreshPolicy = p /\ FreshNativeUpstream = up
  BY DEF FreshPolicy, FreshNativeUpstream
<1>2. /\ none \in Seq(UpstreamBlock) /\ DOMAIN none = {} /\ none \in Partial(SegmentRecord)
      /\ none = UpTo(0) /\ none \in Seq(Nat)
  <2>1. none \in Seq(UpstreamBlock) /\ none \in Seq(Nat) /\ DOMAIN none = {}
    BY NothingIs
  <2>2. none = UpTo(0)
    <3>1. UpTo(0) \in Seq(Nat) /\ Len(UpTo(0)) = 0
      BY UpToIs
    <3> HIDE DEF none
    <3> QED BY <3>1 DEF none
  <2> HIDE DEF none
  <2>3. none \in [{} -> SegmentRecord]
    <3>1. none = [x \in DOMAIN none |-> none[x]]
      BY <2>1
    <3> QED BY <2>1, <3>1
  <2>4. none \in Partial(SegmentRecord)
    BY <2>1, <2>3, PartialIs
  <2> QED BY <2>1, <2>2, <2>4
<1>3. /\ DOMAIN l.blocks = {} /\ ToolBlocks(l) = {} /\ l.said = none /\ Range(l.stack) = {}
      /\ l.next = 0 /\ ~ l.stopped
  BY NewLedgerIs
<1> HIDE DEF l, none
<1>4. p \in Policy /\ DOMAIN p.by_upstream = {} /\ OpenSegments(p) = {} /\ p.next = 0
  BY <1>2 DEF Policy, OpenSegments
<1>5. /\ up \in NativeRecord /\ DOMAIN up.blocks = {} /\ up.stage = "new" /\ up.text = 0
      /\ ToolsOf(up) = {}
  BY <1>2 DEF NativeRecord, UpstreamStage, ToolsOf
<1>6. Carried(p, up)
  BY <1>4, <1>5 DEF Carried
<1>7. InStep(l, p)
  <2> HIDE DEF p
  <2> QED BY <1>3, <1>4 DEF InStep
<1>8. Progress(l, FreshPolicy, FreshNativeUpstream)
  <2>1. FreshNativeUpstream.stage = "new" /\ "new" \notin Ending
    BY DEF FreshNativeUpstream, Ending
  <2> QED BY <1>3, <2>1 DEF Progress, l
<1>9. CarriesTools(l, p, up)
  <2> HIDE DEF p, up
  <2>1. {Segment(p, u).down : u \in ToolsOf(up)} = {}
    BY <1>5
  <2> QED BY <1>3, <1>5, <2>1 DEF CarriesTools
<1>10. l.said = UpTo(up.text)
  BY <1>2, <1>3, <1>5
<1> HIDE DEF p, up
<1> QED BY <1>1, <1>5, <1>6, <1>7, <1>8, <1>9, <1>10, Zenon DEF Attempt, l

LEMMA RetriesSafe ==
  ASSUME NativeSafe, Working, Retries
  PROVE  NativeSafe'
<1>1. Live(native_client, native_ledger, native_buffer) /\ ~ native_buffer.committed
  BY WorkingIs, Zenon DEF Retries
<1>2. /\ native_client \in Client /\ native_buffer.wire = <<>> /\ Agrees(native_client, NewLedger)
      /\ native_buffer \in Buffer
  BY <1>1, Zenon DEF Live
<1>3. /\ native_buffer' \in Buffer /\ native_buffer'.wire = <<>> /\ native_buffer'.held = <<>>
      /\ ~ native_buffer'.committed
  <2>1. <<>> \in Seq(Event)
    OBVIOUS
  <2>2. native_buffer' = [held |-> <<>>, committed |-> native_buffer.committed, wire |-> native_buffer.wire]
    BY <1>2, BufferIs DEF Retries, Discarded
  <2> QED BY <1>1, <1>2, <2>1, <2>2 DEF Buffer
<1>4. Tells(Listener(native_client, FALSE), Work(NewLedger))
  <2>1. Listener(native_client, FALSE).from = native_client /\ Listener(native_client, FALSE).error = FALSE
    BY DEF Listener
  <2> QED BY <1>2, <2>1, NothingTold
<1>5. Work(NewLedger) = [l |-> NewLedger, out |-> native_buffer'.wire \o native_buffer'.held]
  <2> DEFINE l == NewLedger
  <2>1. <<>> \o <<>> = <<>>
    OBVIOUS
  <2> HIDE DEF l
  <2> QED BY <1>3, <2>1 DEF Work
<1>6. Live(native_client, NewLedger, native_buffer')
  BY <1>2, <1>3, <1>4, <1>5, Zenon DEF Live
<1>7. native_phase' \notin NativeOver /\ native_phase' # "recovering" /\ native_phase' # "continued"
      /\ native_phase' = "opening" /\ native_phase' \in NativePhase /\ native_phase' # "answered"
  BY DEF Retries, NativeOver, NativePhase
<1>8. /\ native_ledger' = NewLedger /\ native_policy' = FreshPolicy
      /\ native_upstream' = FreshNativeUpstream
      /\ native_client' = native_client /\ native_thinking' = native_thinking
  BY DEF Retries
<1>9. NativeLive' /\ NativeEnd' /\ NativeAfter'
  <2>1. Stage("new")'
    BY <1>8 DEF Stage, FreshNativeUpstream
  <2> QED BY <1>3, <1>6, <1>7, <1>8, <2>1, FreshAttempt, Zenon DEF NativeLive, NativeEnd, NativeAfter
<1>10. NativeFields'
  <2>1. native_retries' \in 0 .. EarlyRetries
    BY RecoveryAssumption DEF NativeSafe, NativeFields, Retries
  <2>2. /\ FreshPolicy \in Policy /\ FreshNativeUpstream \in NativeRecord
        /\ \A u \in DOMAIN FreshPolicy.by_upstream : Segment(FreshPolicy, u).down < FreshPolicy.next
        /\ NewLedger \in Ledger
    BY FreshAttempt, AttemptIs, NewLedgerIs
  <2>3. native_thinking \in BOOLEAN
    BY Zenon DEF NativeSafe, NativeFields
  <2> QED BY <1>2, <1>3, <1>7, <1>8, <2>1, <2>2, <2>3, Zenon DEF NativeFields
<1> QED BY <1>9, <1>10, Zenon DEF NativeSafe

LEMMA RescuesSafe ==
  ASSUME NativeSafe, Working, Rescues
  PROVE  NativeSafe'
<1>1. /\ native_phase' = "recovering" /\ native_thinking' = native_thinking
      /\ native_ledger' = native_ledger /\ native_buffer' = native_buffer
      /\ native_retries' = native_retries /\ native_policy' = native_policy
      /\ native_upstream' = native_upstream /\ native_client' = native_client
      /\ HasContentBlock(native_ledger)
  BY DEF Rescues
<1>2. native_phase' \notin NativeOver /\ native_phase' # "opening" /\ native_phase' # "continued"
      /\ native_phase' \in NativePhase /\ native_phase' # "answered"
  BY <1>1 DEF NativeOver, NativePhase
<1>3. Stage("new")' <=> Stage("new")
  BY <1>1 DEF Stage
<1>4. NativeLive' /\ NativeEnd' /\ NativeAfter'
  BY <1>1, <1>2, <1>3, WorkingIs, BegunIs, Zenon DEF NativeLive, NativeEnd, NativeAfter
<1>5. NativeFields'
  BY <1>1, <1>2, Zenon DEF NativeFields, NativeSafe
<1> QED BY <1>4, <1>5, Zenon DEF NativeSafe

\* A failure of the open stream, and of the recovery. After message_stop only an answer
\* with a tool can fail, and not for good.
LEMMA NativeBrokenSafe ==
  ASSUME NativeSafe, "late_cut" \notin NativeOddities,
         NativeOpenFails \/ NativeBreaks \/ NativeRecoveryFails
  PROVE  NativeSafe'
<1>1. ASSUME NEW p \in {"opening", "streaming", "recovering"}, NativeReady(p)
      PROVE  Working
  BY <1>1 DEF NativeReady, NativeOver, Working
<1>2. CASE NativeOpenFails
  <2>1. NativeReady("opening")
    BY <1>2 DEF NativeOpenFails
  <2>2. PICK r : NativeFails(r, FALSE)
    BY <1>2 DEF NativeOpenFails
  <2>3. Working
    BY <1>1, <2>1
  <2>4. Stage("new")
    BY <2>1, <2>3, Zenon DEF NativeSafe, NativeLive, NativeReady, Working
  <2>5. ~ Stage("stopped")
    BY <2>4 DEF Stage
  <2> QED BY <2>2, <2>3, <2>5, NativeFailsIs, RetriesSafe, RescuesSafe, NativeGivesUpSafe, Zenon
<1>3. CASE NativeBreaks
  <2>1. NativeReady("streaming") /\ (Stage("stopped") => HasToolBlock(native_ledger))
    BY <1>3 DEF NativeBreaks
  <2>2. PICK r \in BOOLEAN : NativeFails(r, TRUE) /\ (Stage("stopped") => r)
    BY <1>3 DEF NativeBreaks
  <2>3. Working
    BY <1>1, <2>1
  <2>4. HasToolBlock(native_ledger) => HasContentBlock(native_ledger)
    BY DEF HasToolBlock, HasContentBlock, ToolBlocks
  <2> QED BY <2>1, <2>2, <2>3, <2>4, NativeFailsIs, RetriesSafe, RescuesSafe, NativeGivesUpSafe, Zenon
<1>4. CASE NativeRecoveryFails
  <2>1. NativeReady("recovering") /\ ~ Stage("stopped") /\ NativeGivesUp
    BY <1>4 DEF NativeRecoveryFails
  <2> QED BY <1>1, <2>1, NativeGivesUpSafe
<1> QED BY <1>2, <1>3, <1>4

\* Nothing came: the error sequence takes the adapter's place, if the client was sent
\* nothing before.
LEMMA NativeStallsSafe ==
  ASSUME NativeSafe, ~ LateStalls, NativeStalls
  PROVE  NativeSafe'
<1>1. /\ native_buffer.wire = <<>> /\ native_phase \notin NativeOver /\ CanStall(native_client)
      /\ native_buffer' = [native_buffer EXCEPT !.wire = StallEvents(native_client)]
      /\ native_phase' = "failed" /\ native_thinking' = native_thinking
      /\ native_ledger' = native_ledger /\ native_retries' = native_retries
      /\ native_policy' = native_policy /\ native_upstream' = native_upstream
      /\ native_client' = native_client
  BY DEF NativeStalls
<1>2. Working /\ native_client.phase = "new"
  BY <1>1, Zenon DEF CanStall, Working
<1>3. StallEvents(native_client) = ErrorSequence(FALSE)
  BY <1>2 DEF StallEvents
<1>4. Agrees(native_client, NewLedger)
  BY <1>2, SilentClient
<1> QED BY <1>1, <1>2, <1>3, <1>4, UntoldSafe
\* The stream is open.
LEMMA NativeOpensSafe ==
  ASSUME NativeSafe, NativeOpens
  PROVE  NativeSafe'
<1>1. /\ native_phase = "opening" /\ native_phase' = "streaming" /\ native_thinking' = native_thinking
      /\ native_ledger' = native_ledger /\ native_buffer' = native_buffer
      /\ native_retries' = native_retries /\ native_policy' = native_policy
      /\ native_upstream' = native_upstream /\ native_client' = native_client
      /\ native_buffer.wire = <<>>
  BY DEF NativeOpens, NativeReady
<1>2. native_phase' \notin NativeOver /\ native_phase' # "opening" /\ native_phase' # "continued"
      /\ native_phase' \in NativePhase /\ native_phase' # "answered" /\ native_phase' # "recovering"
      /\ native_phase \notin NativeOver
  BY <1>1 DEF NativeOver, NativePhase
<1>3. Working /\ (Stage("new")' <=> Stage("new"))
  BY <1>1, <1>2 DEF Stage, Working
<1>4. NativeLive' /\ NativeEnd' /\ NativeAfter'
  BY <1>1, <1>2, <1>3, WorkingIs, BegunIs, Zenon DEF NativeLive, NativeEnd, NativeAfter
<1>5. NativeFields'
  BY <1>1, <1>2, Zenon DEF NativeFields, NativeSafe
<1> QED BY <1>4, <1>5, Zenon DEF NativeSafe

\* The stream ended after message_stop.
LEMMA NativeAnsweredSafe ==
  ASSUME NativeSafe, NativeAnswered
  PROVE  NativeSafe'
<1> DEFINE w == Work(native_ledger)
<1>1. /\ native_buffer.wire = <<>> /\ native_phase = "streaming" /\ native_ledger.stopped
      /\ native_buffer' = FlushThen(native_buffer, <<>>) /\ native_phase' = "answered"
      /\ native_ledger' = native_ledger /\ native_thinking' = native_thinking
      /\ native_retries' = native_retries /\ native_policy' = native_policy
      /\ native_upstream' = native_upstream /\ native_client' = native_client
  BY DEF NativeAnswered, NativeReady
<1>2. Working
  BY <1>1 DEF Working, NativeOver
<1>3. w.l = native_ledger /\ w.out = <<>>
  BY WorkIs
<1>4. Voices(w)
  BY Zenon DEF Voices, Agreed, Accords
<1> HIDE DEF w
<1>5. Attempt(native_ledger, native_policy, native_upstream) /\ Stage("stopped")
  BY <1>1, <1>2, WorkingIs, AttemptIs, Zenon DEF Progress, Stage
<1>6. Stage("stopped")' <=> Stage("stopped")
  BY <1>1 DEF Stage
<1>7. native_phase' \in {"answered", "continued"} /\ native_phase' # "continued"
  BY <1>1
<1>8. NativeAfter'
  BY <1>1, <1>2, <1>5, <1>6, <1>7, ExactSoFar, Zenon DEF NativeAfter
<1> QED BY <1>1, <1>2, <1>3, <1>4, <1>7, <1>8, NativeEndsSafe

\* What a continuation adds to the text.
LEMMA ContinuedExact ==
  ASSUME NativeSafe, Working, NEW c \in Stretches(native_ledger.said), NEW short \in BOOLEAN
  PROVE  LET text == ContinuationSuffix(native_ledger.said, c, short)
         IN  text \in Seq(Nat) /\ (ShortRepeats \/ Exact(native_ledger.said \o text))
<1> DEFINE said == native_ledger.said
           text == ContinuationSuffix(said, c, short)
<1>1. PICK n : n = native_upstream.text
  OBVIOUS
<1>2. n \in Nat /\ said = UpTo(n) /\ said \in Seq(Nat)
  BY <1>1, WorkingIs, AttemptIs, NativeIs, ExactSoFar
<1>3. text \in Seq(Nat)
  BY <1>2, StretchIs
<1>4. CASE ~ ShortRepeats
  <2> DEFINE none == <<>>
             last == <<n + 1>>
  <2> HIDE DEF said
  <2>1. text \in {none, last}
    BY <1>2, <1>4, SuffixAfter DEF said
  <2> HIDE DEF text
  <2>2. said \o none = said
    BY <1>2 DEF none
  <2>3. UpTo(n) \o last = UpTo(n + 1)
    BY <1>2, UpToNext
  <2>4. n + 1 \in Nat
    BY <1>2
  <2> HIDE DEF last, none
  <2>5. Exact(UpTo(n)) /\ Exact(UpTo(n + 1))
    BY <1>2, <2>4, UpToIs
  <2>6. Exact(said \o text)
    BY <1>2, <2>1, <2>2, <2>3, <2>5, Zenon
  <2> QED BY <1>3, <2>6, Zenon DEF said, text
<1>5. CASE ShortRepeats
  BY <1>3, <1>5
<1> QED BY <1>4, <1>5

\* A continuation adds text or thinking, and no tool.
LEMMA NativeContinuesSafe ==
  ASSUME NativeSafe, NEW more \in BOOLEAN, NEW short \in BOOLEAN, NEW c \in Collected,
         NativeContinues(more, c, short)
  PROVE  NativeSafe'
<1> DEFINE w0 == Work(native_ledger)
           text == ContinuationSuffix(native_ledger.said, c, short)
           thought == IF more THEN <<Len(native_ledger.thought) + 1>> ELSE <<>>
           u == Think(w0, thought)
           v == Say(u, text)
           w == SuccessTail(v)
<1>1. /\ native_buffer.wire = <<>> /\ native_phase = "recovering" /\ ~ HasToolBlock(native_ledger)
      /\ CanAppend(native_ledger) /\ native_ledger' = w.l
      /\ native_buffer' = FlushThen(native_buffer, w.out) /\ native_phase' = "continued"
      /\ native_thinking' = native_thinking /\ native_retries' = native_retries
      /\ native_policy' = native_policy /\ native_upstream' = native_upstream
      /\ native_client' = native_client
  BY DEF NativeContinues, NativeReady, NativeContinued
<1>2. Working /\ HasContentBlock(native_ledger)
  <2>1. Working
    BY <1>1 DEF Working, NativeOver
  <2> QED BY <1>1, <2>1, Zenon DEF NativeSafe, NativeLive, Working
<1>3. w0.l = native_ledger
  BY WorkIs
<1>4. native_ledger.started /\ ~ native_ledger.stopped
  <2>1. ~ Stage("new")
    <3>1. DOMAIN NewLedger.blocks = {}
      BY NewLedgerIs
    <3> QED BY <1>2, <3>1, BegunIs, Zenon DEF HasContentBlock
  <2>2. ~ native_ledger.stopped
    BY <1>1, Zenon DEF CanAppend
  <2> QED BY <1>2, <2>1, <2>2, BegunIs
<1>5. text \in Seq(Nat) /\ (ShortRepeats \/ Exact(native_ledger.said \o text))
  BY <1>2, ContinuedExact DEF Collected
<1>6. thought \in Seq(Nat)
  <2>1. native_ledger.thought \in Seq(Nat)
    BY LedgerFields DEF NativeSafe, NativeFields
  <2> QED BY <2>1
<1> HIDE DEF w0, text, thought
<1>7. ASSUME NEW d, Tells(d, w0)
      PROVE  /\ Tells(d, w) /\ w.l.stopped /\ w.l.said = native_ledger.said \o text
             /\ ToolBlocks(w.l) = {}
  <2>1. Speaks(w0) /\ w0.l.said \in Seq(Nat)
    BY <1>3, <1>4, <1>2, ExactSoFar, Zenon DEF Speaks
  <2>2. /\ Tells(d, u) /\ Speaks(u) /\ Content(w0.l, u.l) /\ u.l.said = w0.l.said
        /\ ToolBlocks(u.l) = ToolBlocks(w0.l)
    BY <1>6, <1>7, <2>1, ThinkTold
  <2> HIDE DEF u
  <2>3. /\ Tells(d, v) /\ Speaks(v) /\ Content(u.l, v.l) /\ v.l.said = u.l.said \o text
        /\ ToolBlocks(v.l) = ToolBlocks(u.l)
    BY <1>5, <2>2, SayTold
  <2> HIDE DEF v
  <2>4. HasContentBlock(v.l)
    <3>1. Content(w0.l, v.l)
      BY <2>2, <2>3, ContentTwice
    <3> QED BY <1>2, <1>3, <3>1, ContentHas
  <2>5. Finishes(d, v)
    BY <2>3, <2>4, Zenon DEF Finishes, Speaks
  <2>6. Answers(d, v, w)
    BY <2>5, SuccessTailTold
  <2> HIDE DEF w
  <2>7. Tells(d, w) /\ w.l.stopped /\ w.l.blocks = v.l.blocks /\ w.l.said = v.l.said
    BY <2>6, Zenon DEF Answers
  <2>8. ToolBlocks(w.l) = ToolBlocks(v.l)
    BY <2>7 DEF ToolBlocks
  <2>9. ToolBlocks(native_ledger) = {}
    BY <1>1, Zenon DEF HasToolBlock
  <2> QED BY <1>3, <2>2, <2>3, <2>7, <2>8, <2>9, Zenon
<1> HIDE DEF u, v, w
<1>8. Voices(w)
  BY <1>7, Zenon DEF Voices, Agreed, Accords, w0
<1>9. PICK d : Tells(Listener(d, FALSE), w0)
  <2>1. PICK d : Meets(native_client, native_ledger, native_buffer, d)
    BY <1>2, WorkingIs
  <2> QED BY <2>1, Zenon DEF Meets, w0
<1>10. w.l.stopped /\ w.l.said = native_ledger.said \o text /\ ToolBlocks(w.l) = {}
  BY <1>7, <1>9
<1>11. native_phase' \in {"answered", "continued"} /\ native_phase' # "answered"
  BY <1>1
<1>12. NativeAfter'
  <2>1. \A i \in ToolBlocks(w.l) : w.l.blocks[i].parts = Whole
    BY <1>10
  <2> QED BY <1>1, <1>5, <1>10, <1>11, <2>1, Zenon DEF NativeAfter
<1> QED BY <1>1, <1>2, <1>8, <1>10, <1>11, <1>12, NativeEndsSafe
-----------------------------------------------------------------------------
(* The repair of a native answer's tools.                                   *)

\* A tool block is whole, or open for what is missing.
Mendable(l) == \A i \in ToolBlocks(l) : l.blocks[i].parts = Whole \/ i \in Range(l.stack)
Mended(c, w, v) ==
  /\ Tells(c, v) /\ v.l.stack = w.l.stack /\ v.l.stop_reason = w.l.stop_reason
  /\ v.l.started = w.l.started /\ v.l.stopped = w.l.stopped /\ v.l.said = w.l.said
  /\ DOMAIN v.l.blocks = DOMAIN w.l.blocks /\ ToolBlocks(v.l) = ToolBlocks(w.l)
  /\ Mendable(v.l)

LEMMA GrownMendable ==
  ASSUME NEW l, NEW m, NEW i \in Range(l.stack), NEW data, GrownAt(l, m, i, data), Mendable(l)
  PROVE  ToolBlocks(m) = ToolBlocks(l) /\ Mendable(m)
<1> DEFINE more == l.blocks[i].parts \o data
<1>1. /\ DOMAIN m.blocks = DOMAIN l.blocks /\ m.blocks[i] = [type |-> l.blocks[i].type, parts |-> more]
      /\ \A x \in DOMAIN l.blocks \ {i} : m.blocks[x] = l.blocks[x]
      /\ m.stack = l.stack
  BY Zenon DEF GrownAt
<1> HIDE DEF more
<1>2. \A x \in DOMAIN l.blocks : m.blocks[x].type = l.blocks[x].type
  BY <1>1
<1>3. ToolBlocks(m) = ToolBlocks(l)
  BY <1>1, <1>2 DEF ToolBlocks
<1>4. ASSUME NEW x \in ToolBlocks(m) PROVE m.blocks[x].parts = Whole \/ x \in Range(m.stack)
  <2>1. x \in ToolBlocks(l) /\ x \in DOMAIN l.blocks
    BY <1>3 DEF ToolBlocks
  <2>2. CASE x = i
    BY <1>1, <2>2
  <2>3. CASE x # i
    BY <1>1, <2>1, <2>3 DEF Mendable
  <2> QED BY <2>2, <2>3
<1> QED BY <1>3, <1>4 DEF Mendable

LEMMA RepairBlockTold ==
  ASSUME NEW c, NEW w, Tells(c, w), w.l.started, Mendable(w.l), NEW i \in ToolBlocks(w.l)
  PROVE  Mended(c, w, RepairBlock(w, i))
<1> DEFINE parts == w.l.blocks[i].parts
           v == BlockDelta(w, i, "tool_use", MissingSuffix(parts))
<1>1. CASE parts = Whole \/ ~ CanAppend(w.l)
  <2>1. RepairBlock(w, i) = w
    BY <1>1 DEF RepairBlock
  <2> QED BY <2>1, Zenon DEF Mended
<1>2. CASE parts # Whole /\ CanAppend(w.l)
  <2>1. RepairBlock(w, i) = v
    BY <1>2 DEF RepairBlock
  <2>2. i \in Range(w.l.stack)
    BY <1>2 DEF Mendable
  <2>3. "tool_use" = w.l.blocks[i].type /\ "tool_use" # "redacted_thinking"
    BY DEF ToolBlocks
  <2>4. parts \in Seq(Nat)
    <3>1. i \in DOMAIN w.l.blocks /\ w.l.blocks \in Blocks
      BY ToldFields, LedgerFields DEF ToolBlocks
    <3> QED BY <3>1, BlocksAre
  <2>5. Speaks(w)
    BY <1>2, Zenon DEF Speaks, CanAppend
  <2> DEFINE data == MissingSuffix(parts)
  <2>6. data \in Seq(Nat)
    BY <2>4, MissingSuffixIs
  <2> HIDE DEF data
  <2>7. Tells(c, BlockDelta(w, i, "tool_use", data)) /\ GrownAt(w.l, BlockDelta(w, i, "tool_use", data).l, i, data)
    BY <2>2, <2>3, <2>5, <2>6, GrowthTold
  <2>8. Tells(c, v) /\ GrownAt(w.l, v.l, i, data)
    BY <2>7, Zenon DEF data
  <2> HIDE DEF v, parts
  <2>9. ToolBlocks(v.l) = ToolBlocks(w.l) /\ Mendable(v.l)
    BY <2>2, <2>8, GrownMendable
  <2>10. w.l.blocks[i].type # "text"
    BY <2>3
  <2> QED BY <2>1, <2>8, <2>9, <2>10, Zenon DEF Mended, GrownAt, Kept
<1> QED BY <1>1, <1>2

LEMMA RepairBlocksIs ==
  ASSUME NEW w, NEW N \in Nat, N = Cardinality(ToolBlocks(w.l))
  PROVE  \E g : /\ g[0] = w /\ RepairBlocks(w) = g[N]
                /\ \A k \in 1 .. N : g[k] = RepairBlock(g[k - 1], Nth(ToolBlocks(w.l), k))
<1> DEFINE S == ToolBlocks(w.l)
<1>1. \E g : g = [k \in 0 .. N |-> IF k = 0 THEN w ELSE RepairBlock(g[k - 1], Nth(S, k))]
  <2> DEFINE T == {q \in Nat : \E g : g = [k \in 0 .. q |-> IF k = 0 THEN w
                                                     ELSE RepairBlock(g[k - 1], Nth(S, k))]}
  <2> HIDE DEF S
  <2>1. 0 \in T
    <3> DEFINE g == [k \in 0 .. 0 |-> w]
    <3>1. g = [k \in 0 .. 0 |-> IF k = 0 THEN w ELSE RepairBlock(g[k - 1], Nth(S, k))]
      OBVIOUS
    <3> HIDE DEF g
    <3> QED BY <3>1
  <2>2. ASSUME NEW q \in Nat, q \in T PROVE q + 1 \in T
    <3>1. PICK g : g = [k \in 0 .. q |-> IF k = 0 THEN w ELSE RepairBlock(g[k - 1], Nth(S, k))]
      BY <2>2
    <3> DEFINE h == [k \in 0 .. q + 1 |-> IF k <= q THEN g[k] ELSE RepairBlock(g[q], Nth(S, (q + 1)))]
    <3>2. ASSUME NEW k \in 0 .. q + 1
          PROVE  h[k] = IF k = 0 THEN w ELSE RepairBlock(h[k - 1], Nth(S, k))
      <4>1. CASE k = 0
        BY <3>1, <4>1
      <4>2. CASE k \in 1 .. q
        <5>1. h[k] = g[k] /\ h[k - 1] = g[k - 1]
          BY <4>2
        <5>2. g[k] = RepairBlock(g[k - 1], Nth(S, k))
          BY <3>1, <4>2
        <5> QED BY <4>2, <5>1, <5>2
      <4>3. CASE k = q + 1
        <5>1. h[k] = RepairBlock(g[q], Nth(S, (q + 1))) /\ h[k - 1] = g[q] /\ k # 0
          BY <4>3
        <5> QED BY <4>3, <5>1
      <4> QED BY <4>1, <4>2, <4>3
    <3>3. h = [k \in 0 .. q + 1 |-> IF k = 0 THEN w ELSE RepairBlock(h[k - 1], Nth(S, k))]
      <4>1. h = [k \in 0 .. q + 1 |-> h[k]]
        OBVIOUS
      <4> HIDE DEF h
      <4> QED BY <3>2, <4>1
    <3>4. \E y : y = [k \in 0 .. q + 1 |-> IF k = 0 THEN w ELSE RepairBlock(y[k - 1], Nth(S, k))]
      <4> WITNESS h
      <4> QED BY <3>3
    <3>5. q + 1 \in Nat
      OBVIOUS
    <3> HIDE DEF h
    <3> QED BY <3>4, <3>5, Zenon
  <2>3. Nat \subseteq T
    <3> HIDE DEF T
    <3> QED BY <2>1, <2>2, EveryNumber
  <2>4. N \in T
    <3> HIDE DEF T
    <3> QED BY <2>3
  <2> QED BY <2>4
<1> DEFINE f == CHOOSE g : g = [k \in 0 .. N |-> IF k = 0 THEN w ELSE RepairBlock(g[k - 1], Nth(S, k))]
<1>2. f = [k \in 0 .. N |-> IF k = 0 THEN w ELSE RepairBlock(f[k - 1], Nth(S, k))]
  BY <1>1
<1>3. f[0] = w /\ \A k \in 1 .. N : f[k] = RepairBlock(f[k - 1], Nth(S, k))
  <2> HIDE DEF f, S
  <2>1. 0 \in 0 .. N /\ \A k \in 1 .. N : k \in 0 .. N /\ k # 0
    OBVIOUS
  <2> QED BY <1>2, <2>1
<1>4. RepairBlocks(w) = f[N]
  BY DEF RepairBlocks
<1> HIDE DEF f
<1> QED BY <1>3, <1>4

LEMMA RepairBlocksTold ==
  ASSUME NEW c, NEW w, Tells(c, w), w.l.started, Mendable(w.l)
  PROVE  Mended(c, w, RepairBlocks(w))
<1> DEFINE S == ToolBlocks(w.l)
           N == Cardinality(S)
<1>1. N \in Nat /\ \A k \in 1 .. N : Nth(S, k) \in S
  <2>1. w.l.next \in Nat /\ DOMAIN w.l.blocks \subseteq Nat
    BY ToldFields, LedgerFields, BlocksAre
  <2>2. \A i \in DOMAIN w.l.blocks : i < w.l.next
    BY ToldFields DEF Sound
  <2>3. S \in SUBSET (0 .. w.l.next - 1)
    BY <2>1, <2>2 DEF ToolBlocks
  <2> HIDE DEF S
  <2> QED BY <2>1, <2>3, NthIs
<1>2. PICK g : /\ g[0] = w /\ RepairBlocks(w) = g[N]
               /\ \A k \in 1 .. N : g[k] = RepairBlock(g[k - 1], Nth(S, k))
  BY <1>1, RepairBlocksIs
<1> DEFINE T == {k \in Nat : k <= N => Mended(c, w, g[k])}
<1> HIDE DEF N
<1>3. 0 \in T
  <2>1. Mended(c, w, w)
    BY Zenon DEF Mended
  <2> QED BY <1>2, <2>1
<1>4. ASSUME NEW k \in Nat, k \in T PROVE k + 1 \in T
  <2> SUFFICES ASSUME k + 1 <= N PROVE Mended(c, w, g[k + 1])
    OBVIOUS
  <2> DEFINE i == Nth(S, k + 1)
  <2>1. Mended(c, w, g[k])
    BY <1>1, <1>4
  <2>2. g[k + 1] = RepairBlock(g[k], i) /\ i \in S
    <3>1. k + 1 \in 1 .. N /\ (k + 1) - 1 = k
      BY <1>1
    <3>2. g[k + 1] = RepairBlock(g[(k + 1) - 1], Nth(S, k + 1))
      BY <1>2, <3>1
    <3> QED BY <1>1, <3>1, <3>2
  <2> HIDE DEF i, T
  <2>3. Tells(c, g[k]) /\ g[k].l.started /\ Mendable(g[k].l) /\ i \in ToolBlocks(g[k].l)
    BY <2>1, <2>2, Zenon DEF Mended
  <2>4. Mended(c, g[k], RepairBlock(g[k], i))
    BY <2>3, RepairBlockTold
  <2> QED BY <2>1, <2>2, <2>4, Zenon DEF Mended
<1>5. N \in T
  <2> HIDE DEF T
  <2>1. Nat \subseteq T
    BY <1>3, <1>4, EveryNumber
  <2> QED BY <1>1, <2>1
<1> QED BY <1>1, <1>2, <1>5

\* What an orderly upstream sent of a tool is open or whole.
LEMMA AttemptMendable ==
  ASSUME Orderly, NEW l, NEW p, NEW up, Attempt(l, p, up)
  PROVE  Mendable(l)
<1>1. InStep(l, p) /\ up \in NativeRecord /\ Carried(p, up) /\ CarriesTools(l, p, up)
  BY Zenon DEF Attempt
<1>2. ASSUME NEW i \in ToolBlocks(l) PROVE l.blocks[i].parts = Whole \/ i \in Range(l.stack)
  <2>1. PICK u \in ToolsOf(up) : i = Segment(p, u).down
    BY <1>1 DEF CarriesTools
  <2>2. u \in DOMAIN up.blocks /\ up.blocks[u].type = "tool_use"
    BY DEF ToolsOf
  <2>3. u \in DOMAIN p.by_upstream
    BY <1>1, <2>2 DEF Carried
  <2>4. l.blocks[i].parts = Part(up.blocks[u].sent) /\ (Segment(p, u).open \/ up.blocks[u].sent = 2)
    BY <1>1, <2>1 DEF CarriesTools
  <2>5. CASE Segment(p, u).open
    <3>1. u \in OpenSegments(p)
      BY <2>3, <2>5 DEF OpenSegments
    <3> QED BY <1>1, <2>1, <3>1 DEF InStep
  <2>6. CASE up.blocks[u].sent = 2
    <3>1. Part(2) = Whole
      <4>1. 2 \in 0 .. 2
        OBVIOUS
      <4> QED BY <4>1, PartIs
    <3> QED BY <2>4, <2>6, <3>1
  <2> QED BY <2>4, <2>5, <2>6
<1> QED BY <1>2 DEF Mendable

\* The repair makes every tool whole, and the message ends.
LEMMA NativeRepairsSafe ==
  ASSUME NativeSafe, Orderly, NativeRepairs
  PROVE  NativeSafe'
<1> DEFINE w0 == Work(native_ledger)
           v == RepairBlocks(w0)
           w == SuccessTail(v)
<1>1. /\ native_buffer.wire = <<>> /\ native_phase = "recovering" /\ HasToolBlock(native_ledger)
      /\ Salvageable(v.l) /\ native_ledger' = w.l
      /\ native_buffer' = FlushThen(native_buffer, w.out) /\ native_phase' = "continued"
      /\ native_thinking' = native_thinking /\ native_retries' = native_retries
      /\ native_policy' = native_policy /\ native_upstream' = native_upstream
      /\ native_client' = native_client
  BY DEF NativeRepairs, NativeReady, NativeContinued
<1>2. Working
  BY <1>1 DEF Working, NativeOver
<1>3. w0.l = native_ledger
  BY WorkIs
<1>4. HasContentBlock(native_ledger) /\ native_ledger.started
  <2>1. HasContentBlock(native_ledger)
    BY <1>1 DEF HasToolBlock, HasContentBlock, ToolBlocks
  <2>2. ~ Stage("new")
    <3>1. DOMAIN NewLedger.blocks = {}
      BY NewLedgerIs
    <3> QED BY <1>2, <2>1, <3>1, BegunIs, Zenon DEF HasContentBlock
  <2> QED BY <1>2, <2>1, <2>2, BegunIs
<1>5. Mendable(native_ledger) /\ Progress(native_ledger, native_policy, native_upstream)
  BY <1>2, WorkingIs, AttemptIs, AttemptMendable
<1>6. native_ledger.stopped =>
        Range(native_ledger.stack) = {} /\ native_ledger.stop_reason \in {"end_turn", "tool_use"}
  BY <1>5 DEF Progress, Ending
<1> HIDE DEF w0
<1>7. ASSUME NEW d, Tells(d, w0)
      PROVE  Tells(d, w) /\ w.l.stopped /\ w.l.said = native_ledger.said /\ w.l.blocks = v.l.blocks
  <2>1. Mended(d, w0, v)
    BY <1>3, <1>4, <1>5, <1>7, RepairBlocksTold
  <2> HIDE DEF v
  <2>2. Finishes(d, v) /\ v.l.said = native_ledger.said
    BY <1>3, <1>4, <1>6, <2>1, Zenon DEF Finishes, Mended, HasContentBlock
  <2>3. Answers(d, v, w)
    BY <2>2, SuccessTailTold
  <2> HIDE DEF w
  <2> QED BY <2>2, <2>3, Zenon DEF Answers
<1> HIDE DEF v, w
<1>8. Voices(w)
  BY <1>7, Zenon DEF Voices, Agreed, Accords, w0
<1>9. PICK d : Tells(Listener(d, FALSE), w0)
  <2>1. PICK d : Meets(native_client, native_ledger, native_buffer, d)
    BY <1>2, WorkingIs
  <2> QED BY <2>1, Zenon DEF Meets, w0
<1>10. w.l.stopped /\ w.l.said = native_ledger.said /\ w.l.blocks = v.l.blocks
  BY <1>7, <1>9
<1>11. native_phase' \in {"answered", "continued"} /\ native_phase' # "answered"
  BY <1>1
<1>12. NativeAfter'
  <2>1. \A i \in ToolBlocks(w.l) : w.l.blocks[i].parts = Whole
    BY <1>1, <1>10, Zenon DEF Salvageable, ToolBlocks
  <2> QED BY <1>1, <1>2, <1>10, <1>11, <2>1, ExactSoFar, Zenon DEF NativeAfter
<1> QED BY <1>1, <1>2, <1>8, <1>10, <1>11, <1>12, NativeEndsSafe
-----------------------------------------------------------------------------
(* Every step of the native adapter.                                        *)

LEMMA NativeOverRead ==
  ASSUME NEW u, NativeTail(u), native_buffer.wire # <<>>, native_client \in Client
  PROVE  LET e == Head(native_buffer.wire)
             v == [l |-> u.l, out |-> Tail(u.out)]
         IN  /\ Legal(native_client, e) /\ e \in Event /\ Read(native_client, e) \in Client
             /\ Tells(Listener(Read(native_client, e), FALSE), v)
             /\ native_phase = "failed" => Confessed(Listener(Read(native_client, e), FALSE), v)
<1> DEFINE e == Head(native_buffer.wire)
           v == [l |-> u.l, out |-> Tail(u.out)]
<1>1. u.out = native_buffer.wire /\ Tells(Listener(native_client, FALSE), u)
  BY Zenon DEF NativeTail
<1>2. \A c, f : Listener(c, f).from = c /\ Listener(c, f).error = f
  BY DEF Listener
<1>3. \A f : Tells(Listener(native_client, f), u) =>
        Tells(Listener(Read(native_client, e), f), v) /\ Legal(native_client, e) /\ e \in Event
  BY <1>1, <1>2, ReadTold
<1>4. v.l = u.l
  OBVIOUS
<1> HIDE DEF e, v
<1>5. Read(native_client, e) \in Client
  BY <1>1, <1>3, ReadClient
<1>6. ASSUME native_phase = "failed" PROVE Confessed(Listener(Read(native_client, e), FALSE), v)
  <2>1. Confessed(Listener(native_client, FALSE), u)
    BY <1>6, Zenon DEF NativeTail
  <2>2. Tells(Listener(native_client, TRUE), u) \/ 0 \in Range(u.l.said)
    BY <1>2, <2>1, Zenon DEF Confessed
  <2> QED BY <1>2, <1>3, <1>4, <2>2, Zenon DEF Confessed
<1> QED BY <1>1, <1>3, <1>5, <1>6, Zenon DEF e, v

\* The client reads: what it reads is legal, and the invariant is kept.
LEMMA NativeDeliverSafe ==
  ASSUME NativeSafe, NativeDeliver
  PROVE  /\ NativeSafe' /\ Legal(native_client, Head(native_buffer.wire))
         /\ Head(native_buffer.wire) \in Event
<1> DEFINE e == Head(native_buffer.wire)
<1>1. /\ native_buffer.wire # <<>> /\ native_client' = Read(native_client, e)
      /\ native_buffer' = [native_buffer EXCEPT !.wire = Tail(@)]
      /\ native_phase' = native_phase /\ native_thinking' = native_thinking
      /\ native_ledger' = native_ledger /\ native_retries' = native_retries
      /\ native_policy' = native_policy /\ native_upstream' = native_upstream
  BY DEF NativeDeliver
<1>2. native_client \in Client /\ native_buffer \in Buffer
  BY Zenon DEF NativeSafe, NativeFields
<1>3. /\ native_buffer' \in Buffer /\ native_buffer'.wire = Tail(native_buffer.wire)
      /\ native_buffer'.committed = native_buffer.committed /\ native_buffer'.held = native_buffer.held
  BY <1>1, <1>2, TailBuffer
<1>s. Stage("new")' <=> Stage("new")
  BY <1>1 DEF Stage
<1>a. NativeAfter'
  <2>1. Stage("stopped")' <=> Stage("stopped")
    BY <1>1 DEF Stage
  <2> QED BY <1>1, <2>1, Zenon DEF NativeSafe, NativeAfter
<1>4. CASE native_phase \notin NativeOver
  <2>1. Live(native_client, native_ledger, native_buffer)
    BY <1>4, Zenon DEF NativeSafe, NativeLive
  <2>2. Live(native_client', native_ledger, native_buffer') /\ Legal(native_client, e) /\ e \in Event
    BY <1>1, <2>1, LiveRead
  <2>3. NativeLive'
    BY <1>1, <1>3, <1>s, <1>4, <2>2, Zenon DEF NativeSafe, NativeLive
  <2>4. NativeEnd'
    BY <1>1, <1>4, Zenon DEF NativeEnd
  <2>5. NativeFields'
    <3>1. native_client' \in Client
      BY <2>2, Zenon DEF Live
    <3> QED BY <1>1, <1>3, <3>1, Zenon DEF NativeSafe, NativeFields
  <2> QED BY <1>a, <2>2, <2>3, <2>4, <2>5, Zenon DEF NativeSafe
<1>5. CASE native_phase \in NativeOver
  <2>1. PICK u : NativeTail(u)
    BY <1>5, Zenon DEF NativeSafe, NativeEnd
  <2>2. PICK v : v = [l |-> u.l, out |-> Tail(u.out)]
    OBVIOUS
  <2>3. /\ Legal(native_client, e) /\ e \in Event /\ native_client' \in Client
        /\ Tells(Listener(native_client', FALSE), v)
        /\ native_phase = "failed" => Confessed(Listener(native_client', FALSE), v)
    BY <1>1, <1>2, <2>1, <2>2, NativeOverRead
  <2>4. v.l = u.l /\ v.out = native_buffer'.wire
    BY <1>3, <2>1, <2>2 DEF NativeTail
  <2>5. NativeTail(v)'
    BY <1>1, <2>1, <2>3, <2>4, Zenon DEF NativeTail
  <2>6. NativeEnd' /\ NativeLive'
    BY <1>1, <1>5, <2>5, Zenon DEF NativeEnd, NativeLive
  <2>7. NativeFields'
    BY <1>1, <1>3, <2>3, Zenon DEF NativeSafe, NativeFields
  <2> QED BY <1>a, <2>3, <2>6, <2>7, Zenon DEF NativeSafe
<1> QED BY <1>4, <1>5

LEMMA NativeInitSafe ==
  ASSUME NativeInit
  PROVE  NativeSafe
<1>1. /\ native_phase = "opening" /\ native_ledger = NewLedger /\ native_buffer = FreshBuffer
      /\ native_retries = 0 /\ native_policy = FreshPolicy
      /\ native_upstream = FreshNativeUpstream /\ native_client = FreshClient
      /\ native_thinking \in BOOLEAN
  BY DEF NativeInit
<1>2. FreshClient \in Client /\ Agrees(FreshClient, NewLedger)
  BY FreshClientIs
<1>3. /\ FreshBuffer \in Buffer /\ FreshBuffer.wire = <<>> /\ FreshBuffer.held = <<>>
      /\ ~ FreshBuffer.committed
  <2>1. <<>> \in Seq(Event)
    OBVIOUS
  <2> QED BY <2>1 DEF FreshBuffer, Buffer
<1>4. Tells(Listener(FreshClient, FALSE), Work(NewLedger))
  <2>1. Listener(FreshClient, FALSE).from = FreshClient /\ ~ Listener(FreshClient, FALSE).error
    BY DEF Listener
  <2> QED BY <1>2, <2>1, NothingTold
<1>5. Work(NewLedger) = [l |-> NewLedger, out |-> FreshBuffer.wire \o FreshBuffer.held]
  <2> DEFINE l == NewLedger
  <2>1. <<>> \o <<>> = <<>>
    OBVIOUS
  <2> HIDE DEF l
  <2> QED BY <1>3, <2>1 DEF Work
<1>6. Live(FreshClient, NewLedger, FreshBuffer)
  BY <1>2, <1>3, <1>4, <1>5, Zenon DEF Live
<1>7. /\ native_phase \notin NativeOver /\ native_phase # "recovering" /\ native_phase # "continued"
      /\ native_phase \in NativePhase /\ native_phase # "answered"
  BY <1>1 DEF NativeOver, NativePhase
<1>8. NativeLive /\ NativeEnd /\ NativeAfter
  <2>1. Stage("new")
    BY <1>1 DEF Stage, FreshNativeUpstream
  <2> QED BY <1>1, <1>3, <1>6, <1>7, <2>1, FreshAttempt, Zenon DEF NativeLive, NativeEnd, NativeAfter
<1>9. NativeFields
  <2>1. native_retries \in 0 .. EarlyRetries
    BY <1>1, RecoveryAssumption
  <2>2. /\ FreshPolicy \in Policy /\ FreshNativeUpstream \in NativeRecord
        /\ \A u \in DOMAIN FreshPolicy.by_upstream : Segment(FreshPolicy, u).down < FreshPolicy.next
        /\ NewLedger \in Ledger
    BY FreshAttempt, AttemptIs, NewLedgerIs
  <2> QED BY <1>1, <1>2, <1>3, <1>7, <2>1, <2>2, Zenon DEF NativeFields
<1> QED BY <1>8, <1>9, Zenon DEF NativeSafe

LEMMA NativeStutterSafe ==
  ASSUME NativeSafe, UNCHANGED native_vars
  PROVE  NativeSafe'
<1>1. /\ native_phase' = native_phase /\ native_ledger' = native_ledger
      /\ native_buffer' = native_buffer /\ native_retries' = native_retries
      /\ native_policy' = native_policy /\ native_upstream' = native_upstream
      /\ native_client' = native_client /\ native_thinking' = native_thinking
  BY DEF native_vars
<1>2. ASSUME NEW u PROVE NativeTail(u)' = NativeTail(u)
  BY <1>1, Zenon DEF NativeTail
<1>3. (Stage("new")' <=> Stage("new")) /\ (Stage("stopped")' <=> Stage("stopped"))
  BY <1>1 DEF Stage
<1>4. NativeFields' /\ NativeLive' /\ NativeAfter'
  BY <1>1, <1>3, Zenon DEF NativeSafe, NativeFields, NativeLive, NativeAfter
<1>5. NativeEnd'
  BY <1>1, <1>2, Zenon DEF NativeSafe, NativeEnd
<1> QED BY <1>4, <1>5, Zenon DEF NativeSafe

\* What the adapter does between two reads.
Events ==
  \/ NativeMessageStart
  \/ \E type \in BlockType : NativeBlockStart(type)
  \/ \E u \in 1 .. NativeBlocks : NativeBlockDelta(u) \/ NativeBlockStop(u)
  \/ \E type \in {"text", "tool_use"} : NativeUnstarted(type)
  \/ NativeMessageDelta \/ NativeMessageStop \/ NativeErrorEvent
NativeAdapter ==
  \/ NativeOpens \/ NativeOpenFails \/ Events \/ NativeAnswered \/ NativeBreaks \/ NativeStalls
  \/ \E more, short \in BOOLEAN, c \in Collected : NativeContinues(more, c, short)
  \/ NativeRepairs \/ NativeRecoveryFails

LEMMA NativeNextIs ==
  ASSUME [NativeNext]_native_vars
  PROVE  NativeDeliver \/ NativeAdapter \/ UNCHANGED native_vars
BY Zenon DEF NativeNext, NativeAdapter, Events

LEMMA EventsSafe ==
  ASSUME NativeSafe, NativeOddities = {}, Events
  PROVE  NativeSafe'
<1>1. "empty" \notin NativeOddities
  OBVIOUS
<1>2. CASE \E type \in BlockType : NativeBlockStart(type)
  BY <1>2, NativeBlockStartSafe
<1>3. CASE \E u \in 1 .. NativeBlocks : NativeBlockDelta(u) \/ NativeBlockStop(u)
  BY <1>3, NativeBlockDeltaSafe, NativeBlockStopSafe
<1>4. CASE \E type \in {"text", "tool_use"} : NativeUnstarted(type)
  BY <1>4, NativeUnstartedSafe
<1>5. CASE NativeMessageStart \/ NativeMessageDelta \/ NativeMessageStop \/ NativeErrorEvent
  BY <1>1, <1>5, NativeMessageStartSafe, NativeMessageDeltaSafe, NativeMessageStopSafe,
     NativeErrorEventSafe
<1> QED BY <1>2, <1>3, <1>4, <1>5, Zenon DEF Events

LEMMA NativeAdapterSafe ==
  ASSUME NativeSafe, ~ LateStalls, NativeOddities = {}, NativeAdapter
  PROVE  NativeSafe'
<1>1. Orderly /\ "late_cut" \notin NativeOddities
  BY DEF Orderly
<1>2. CASE \E more, short \in BOOLEAN, c \in Collected : NativeContinues(more, c, short)
  BY <1>2, NativeContinuesSafe
<1>3. CASE NativeOpens \/ NativeAnswered \/ NativeStalls \/ NativeRepairs
  BY <1>1, <1>3, NativeOpensSafe, NativeAnsweredSafe, NativeStallsSafe, NativeRepairsSafe
<1>4. CASE NativeOpenFails \/ NativeBreaks \/ NativeRecoveryFails
  BY <1>1, <1>4, NativeBrokenSafe
<1>5. CASE Events
  BY <1>5, EventsSafe
<1> QED BY <1>2, <1>3, <1>4, <1>5, Zenon DEF NativeAdapter

LEMMA NativeNextSafe ==
  ASSUME NativeSafe, ~ LateStalls, NativeOddities = {}, [NativeNext]_native_vars
  PROVE  NativeSafe'
BY NativeNextIs, NativeDeliverSafe, NativeAdapterSafe, NativeStutterSafe

\* The client hears only what it reads.
LEMMA NativeSilent ==
  ASSUME NativeAdapter
  PROVE  native_client' = native_client
<1>1. CASE Events
  <2>1. \E e, new : Pass(e, new)
    BY <1>1, Zenon DEF Events, NativeMessageStart, NativeBlockStart, NativeBlockDelta,
       NativeBlockStop, NativeUnstarted, NativeDelta, NativeMessageDelta, NativeMessageStop,
       NativeErrorEvent
  <2> QED BY <2>1, Zenon DEF Pass
<1>2. CASE \E more, short \in BOOLEAN, c \in Collected : NativeContinues(more, c, short)
  BY <1>2, Zenon DEF NativeContinues, NativeContinued
<1>3. CASE NativeOpens \/ NativeAnswered \/ NativeStalls \/ NativeRepairs
  BY <1>3, Zenon DEF NativeOpens, NativeAnswered, NativeStalls, NativeRepairs, NativeContinued
<1>4. CASE NativeOpenFails \/ NativeBreaks \/ NativeRecoveryFails
  <2>1. NativeGivesUp \/ \E r, o : NativeFails(r, o)
    BY <1>4, Zenon DEF NativeOpenFails, NativeBreaks, NativeRecoveryFails
  <2> QED BY <2>1, NativeFailsIs, Zenon DEF Retries, Rescues, NativeGivesUp
<1> QED BY <1>1, <1>2, <1>3, <1>4, Zenon DEF NativeAdapter

LEMMA NativeReadContract ==
  ASSUME native_client \in Client, NEW e \in Event, Legal(native_client, e),
         native_client' = Read(native_client, e)
  PROVE  NativeContract!ContractNext
<1> DEFINE c == native_client
           d == native_client'
<1>1. /\ d.phase = PhaseAfter(c, e) /\ d.open = OpenAfter(c, e) /\ d.event = EventAfter(e)
      /\ d.seen = (IF e.name = "content_block_start" THEN c.seen \cup {e.i} ELSE c.seen)
  BY ReadFields
<1>2. c.open \in SUBSET [i : Nat, type : BlockType]
  BY DEF Client
<1>3. e.name \in {"message_start", "content_block_start", "content_block_delta",
                  "content_block_stop", "message_delta", "message_stop", "error"}
  BY Zenon, EventIs
<1>4. /\ d.event.name = e.name /\ d.event.i = e.i
      /\ e.name # "content_block_stop" /\ e.i \in Nat => d.event.type = e.type
  <2>1. e.i \in Nat => e.i # NoIndex
    BY DEF NoIndex
  <2>2. /\ EventAfter(e).name = e.name /\ EventAfter(e).i = e.i
        /\ EventAfter(e).type = (IF e.name = "content_block_stop" \/ e.i = NoIndex THEN ""
                                 ELSE e.type)
    BY Zenon DEF EventAfter
  <2> QED BY <1>1, <2>1, <2>2, Zenon
<1> HIDE DEF c, d
<1>5. CASE e.name = "message_start"
  <2>1. /\ c.phase = "new" /\ d.phase = "open" /\ d.open = c.open /\ d.seen = c.seen
    BY <1>1, <1>5 DEF Legal, PhaseAfter, OpenAfter, c
  <2>2. NativeContract!StreamStarts
    BY <1>4, <1>5, <2>1 DEF NativeContract!StreamStarts, c, d
  <2> QED BY <2>2 DEF NativeContract!ContractNext
<1>6. CASE e.name = "content_block_start"
  <2>1. c.phase = "open" /\ e.i \in Nat \ c.seen /\ e.type \in BlockType
    BY <1>6 DEF Legal, c
  <2>2. /\ d.phase = c.phase /\ d.open = c.open \cup {[i |-> e.i, type |-> e.type]}
        /\ d.seen = c.seen \cup {e.i}
    BY <1>1, <1>6 DEF PhaseAfter, OpenAfter
  <2>3. e.type \in NativeContract!AllowedBlockStartTypes
    BY <2>1 DEF BlockType, NativeContract!AllowedBlockStartTypes
  <2>4. NativeContract!BlockStarts
    BY <1>4, <1>6, <2>1, <2>2, <2>3 DEF NativeContract!BlockStarts, c, d
  <2> QED BY <2>4 DEF NativeContract!ContractNext
<1>7. CASE e.name = "content_block_delta"
  <2>1. /\ c.phase = "open" /\ e.i \in Nat /\ e.type # "redacted_thinking"
        /\ [i |-> e.i, type |-> e.type] \in c.open
    BY <1>7 DEF Legal, c
  <2>2. d.phase = c.phase /\ d.open = c.open /\ d.seen = c.seen
    BY <1>1, <1>7 DEF PhaseAfter, OpenAfter
  <2>3. e.type \in BlockType
    BY <1>2, <2>1
  <2>4. e.type \notin NativeContract!NoDeltaBlockKinds
    BY <2>1, <2>3 DEF BlockType, NativeContract!NoDeltaBlockKinds
  <2>5. NativeContract!BlockGrows
    BY <1>4, <1>7, <2>1, <2>2, <2>4 DEF NativeContract!BlockGrows, c, d
  <2> QED BY <2>5 DEF NativeContract!ContractNext
<1>8. CASE e.name = "content_block_stop"
  <2>1. PICK b \in c.open : b.i = e.i /\ c.open \ {b} = {x \in c.open : x.i # e.i}
    BY <1>8 DEF Legal, c
  <2>2. c.phase = "open" /\ d.phase = c.phase /\ d.seen = c.seen /\ d.open = c.open \ {b}
    BY <1>1, <1>8, <2>1 DEF Legal, PhaseAfter, OpenAfter, c
  <2>3. NativeContract!BlockStops
    BY <1>4, <1>8, <2>1, <2>2 DEF NativeContract!BlockStops, c, d
  <2> QED BY <2>3 DEF NativeContract!ContractNext
<1>9. CASE e.name = "message_stop"
  <2>1. /\ c.phase = "open" /\ d.phase = "stopped" /\ d.open = c.open /\ d.seen = c.seen
        /\ c.open = {} /\ c.seen # {}
    BY <1>1, <1>9 DEF Legal, PhaseAfter, OpenAfter, c
  <2>2. NativeContract!StreamStops
    BY <1>4, <1>9, <2>1 DEF NativeContract!StreamStops, c, d
  <2> QED BY <2>2 DEF NativeContract!ContractNext
<1>10. CASE e.name \in {"message_delta", "error"}
  <2>1. c.phase = "open" /\ d.phase = c.phase /\ d.open = c.open /\ d.seen = c.seen
    BY <1>1, <1>10 DEF Legal, PhaseAfter, OpenAfter, c
  <2>2. NativeContract!Notice
    BY <1>4, <1>10, <2>1 DEF NativeContract!Notice, c, d
  <2> QED BY <2>2 DEF NativeContract!ContractNext
<1> QED BY <1>3, <1>5, <1>6, <1>7, <1>8, <1>9, <1>10

LEMMA NativeStepContract ==
  ASSUME NativeSafe, [NativeNext]_native_vars
  PROVE  [NativeContract!ContractNext]_NativeContract!contract_vars
<1>1. CASE NativeDeliver
  <2>1. /\ native_client' = Read(native_client, Head(native_buffer.wire)) /\ native_client \in Client
        /\ Legal(native_client, Head(native_buffer.wire)) /\ Head(native_buffer.wire) \in Event
    BY <1>1, NativeDeliverSafe, Zenon DEF NativeDeliver, NativeSafe, NativeFields
  <2> DEFINE e == Head(native_buffer.wire)
  <2> HIDE DEF e
  <2>2. NativeContract!ContractNext
    BY <2>1, NativeReadContract DEF e
  <2> QED BY <2>2
<1>2. CASE NativeAdapter \/ UNCHANGED native_vars
  <2>1. native_client' = native_client
    BY <1>2, NativeSilent DEF native_vars
  <2> QED BY <2>1 DEF NativeContract!contract_vars
<1> QED BY <1>1, <1>2, NativeNextIs

LEMMA NativeInitContract ==
  ASSUME NativeInit
  PROVE  NativeContract!ContractInit
<1>1. native_client = FreshClient
  BY DEF NativeInit
<1>2. /\ FreshClient.phase = "new" /\ FreshClient.open = {} /\ FreshClient.seen = {}
  BY DEF FreshClient
<1>3. FreshClient.event = NativeContract!NoEvent
  BY Zenon DEF FreshClient, NativeContract!NoEvent, NoIndex
<1> QED BY <1>1, <1>2, <1>3, Zenon DEF NativeContract!ContractInit
-----------------------------------------------------------------------------
(* What the client has been told.                                           *)

\* What the client of an adapter that is done has read.
LEMMA NativeDoneIs ==
  ASSUME NativeSafe, native_phase \in NativeOver, native_buffer.wire = <<>>
  PROVE  \E u : /\ NativeTail(u) /\ Agrees(native_client, u.l) /\ Sound(u.l)
                /\ native_phase = "failed" => native_client.error \/ 0 \in Range(u.l.said)
<1>1. PICK u : NativeTail(u)
  BY Zenon DEF NativeSafe, NativeEnd
<1>2. u.out = <<>> /\ Tells(Listener(native_client, FALSE), u)
  BY <1>1, Zenon DEF NativeTail
<1>3. ASSUME NEW e, Tells(Listener(native_client, e), u)
      PROVE  Agrees(native_client, u.l) /\ (e => native_client.error)
  <2>1. PICK d : Knows(Listener(native_client, e), u, d)
    BY <1>3, Zenon DEF Tells
  <2>2. Listener(native_client, e).from = native_client /\ Listener(native_client, e).error = e
    BY DEF Listener
  <2>3. Path(native_client, <<>>, d) /\ Agrees(d, u.l) /\ (e => d.error)
    BY <1>2, <2>1, <2>2, Zenon DEF Knows
  <2>4. d = native_client
    BY <2>3, PathEmpty
  <2> QED BY <2>3, <2>4
<1>4. Agrees(native_client, u.l) /\ Sound(u.l)
  BY <1>2, <1>3, ToldFields
<1>5. ASSUME native_phase = "failed" PROVE native_client.error \/ 0 \in Range(u.l.said)
  <2>1. Confessed(Listener(native_client, FALSE), u)
    BY <1>1, <1>5, Zenon DEF NativeTail
  <2>2. Listener(native_client, FALSE).from = native_client
    BY DEF Listener
  <2>3. Tells(Listener(native_client, TRUE), u) \/ 0 \in Range(u.l.said)
    BY <2>1, <2>2, Zenon DEF Confessed
  <2> QED BY <1>3, <2>3
<1> QED BY <1>1, <1>4, <1>5

LEMMA NativeSafeTellsFailure ==
  ASSUME NativeSafe
  PROVE  NativeFailureIsTold
<1> SUFFICES ASSUME native_phase = "failed", native_buffer.wire = <<>>
             PROVE  native_client.error \/ 0 \in Range(native_client.text)
  BY DEF NativeFailureIsTold
<1>1. native_phase \in NativeOver
  BY DEF NativeOver
<1>2. PICK u : Agrees(native_client, u.l) /\ (native_client.error \/ 0 \in Range(u.l.said))
  BY <1>1, NativeDoneIs
<1>3. native_client.text = u.l.said
  BY <1>2, Zenon DEF Agrees
<1> QED BY <1>2, <1>3

LEMMA NativeSafeType ==
  ASSUME NativeSafe
  PROVE  NativeTypeOK
<1>1. /\ native_phase \in NativePhase /\ native_buffer \in Buffer
      /\ native_retries \in 0 .. EarlyRetries /\ native_policy \in Policy
      /\ native_upstream \in NativeRecord /\ native_client \in Client
      /\ \A u \in DOMAIN native_policy.by_upstream : Segment(native_policy, u).down < native_policy.next
  BY Zenon DEF NativeSafe, NativeFields
<1>2. native_client.phase \in {"new", "open", "stopped"}
  BY <1>1 DEF Client
<1>3. native_upstream.stage \in {"new", "open", "reason", "stopped", "broken"}
  BY <1>1 DEF NativeRecord, UpstreamStage
<1>4. ASSUME NEW u \in DOMAIN native_policy.by_upstream
      PROVE  native_policy.by_upstream[u].down \in 0 .. native_policy.next - 1
  <2>1. /\ native_policy.next \in Nat /\ Segment(native_policy, u).down \in Nat
        /\ Segment(native_policy, u) = native_policy.by_upstream[u]
    BY <1>1, PolicyIs
  <2>2. native_policy.by_upstream[u].down \in Nat
        /\ native_policy.by_upstream[u].down < native_policy.next
    BY <1>1, <2>1
  <2> QED BY <2>1, <2>2
<1> QED BY <1>1, <1>2, <1>3, <1>4 DEF NativeTypeOK

LEMMA ChatSafeType ==
  ASSUME ChatSafe
  PROVE  ChatTypeOK
<1>1. /\ chat_phase \in ChatPhase /\ chat_buffer \in Buffer /\ chat_retries \in 0 .. EarlyRetries
      /\ chat_parser \in ParserRecord /\ chat_upstream \in UpstreamRecord
      /\ chat_ledger \in Ledger /\ chat_client \in Client
  BY Zenon DEF ChatSafe, ChatFields
<1>2. chat_client.phase \in {"new", "open", "stopped"}
  BY <1>1 DEF Client
<1>3. chat_upstream.chunks \in 0 .. ChatChunks
  BY <1>1 DEF UpstreamRecord
<1>4. chat_ledger.stop_reason \in {"", "end_turn", "tool_use"}
  BY <1>1, LedgerFields, Zenon DEF StopReason
<1> QED BY <1>1, <1>2, <1>3, <1>4, Zenon DEF ChatTypeOK, ParserRecord

\* What will have been read when everything is delivered.
LEMMA TellsBegins ==
  ASSUME NEW c \in Client, NEW u, Tells(Listener(c, FALSE), u)
  PROVE  Begins(c.text, u.l.said)
<1>1. PICK d : Knows(Listener(c, FALSE), u, d)
  BY Zenon DEF Tells
<1>2. u.out \in Seq(Event)
  BY ToldFields
<1>3. Listener(c, FALSE).from = c
  BY DEF Listener
<1>4. d \in Client /\ Path(c, u.out, d) /\ d.text = u.l.said
  BY <1>1, <1>3, Zenon DEF Knows, Agrees
<1>5. Begins(c.text, d.text)
  BY <1>2, <1>4, PathBegins
<1> QED BY <1>4, <1>5

LEMMA BeginsExact ==
  ASSUME NEW s \in Seq(Nat), NEW t \in Seq(Nat), Begins(s, t), Exact(t)
  PROVE  Exact(s)
<1>1. /\ DOMAIN s = 1 .. Len(s) /\ DOMAIN t = 1 .. Len(t) /\ Len(s) \in Nat /\ Len(t) \in Nat
      /\ Len(s) <= Len(t) /\ \A k \in 1 .. Len(s) : s[k] = t[k]
  BY DEF Begins
<1>2. \A i \in DOMAIN s : i \in DOMAIN t /\ s[i] = t[i]
  BY <1>1
<1> QED BY <1>2, Zenon DEF Exact

LEMMA NativeSafeText ==
  ASSUME NativeSafe, ~ ShortRepeats
  PROVE  NativeTextInOrder
<1>1. native_client \in Client /\ native_client.text \in Seq(Nat)
  <2>1. native_client \in Client
    BY Zenon DEF NativeSafe, NativeFields
  <2> QED BY <2>1 DEF Client
<1>2. CASE native_phase \notin NativeOver
  <2> DEFINE w == [l |-> native_ledger, out |-> native_buffer.wire \o native_buffer.held]
  <2>1. Live(native_client, native_ledger, native_buffer)
        /\ Attempt(native_ledger, native_policy, native_upstream)
    BY <1>2, Zenon DEF NativeSafe, NativeLive
  <2>2. Tells(Listener(native_client, FALSE), w) /\ w.l = native_ledger
    BY <2>1 DEF Live
  <2> HIDE DEF w
  <2>3. Begins(native_client.text, native_ledger.said)
    BY <1>1, <2>2, TellsBegins
  <2>4. native_ledger.said = UpTo(native_upstream.text) /\ native_upstream.text \in Nat
    BY <2>1, AttemptIs, NativeIs
  <2>5. native_ledger.said \in Seq(Nat) /\ Exact(native_ledger.said)
    BY <2>4, UpToIs
  <2>6. Exact(native_client.text)
    BY <1>1, <2>3, <2>5, BeginsExact
  <2> QED BY <2>6, Zenon DEF Exact, Own, NativeTextInOrder
<1>3. CASE native_phase \in NativeOver
  <2>1. PICK u : NativeTail(u)
    BY <1>3, Zenon DEF NativeSafe, NativeEnd
  <2>2. Tells(Listener(native_client, FALSE), u)
        /\ (u.l = native_ledger \/ u.l.said = <<>> \/ u.l.said = EmptyObject)
    BY <2>1, Zenon DEF NativeTail
  <2>3. Exact(native_ledger.said)
    BY <1>3, Zenon DEF NativeSafe, NativeAfter
  <2>4. Exact(u.l.said)
    <3>1. CASE u.l = native_ledger
      BY <2>3, <3>1
    <3>2. CASE u.l.said = <<>> \/ u.l.said = EmptyObject
      BY <3>2, SilenceOrdered, Zenon DEF Ordered
    <3> QED BY <2>2, <3>1, <3>2
  <2>5. u.l.said \in Seq(Nat)
    BY <2>2, ToldFields, LedgerFields
  <2>6. Begins(native_client.text, u.l.said)
    BY <1>1, <2>2, TellsBegins
  <2>7. Exact(native_client.text)
    BY <1>1, <2>4, <2>5, <2>6, BeginsExact
  <2> QED BY <2>7, Zenon DEF Exact, Own, NativeTextInOrder
<1> QED BY <1>2, <1>3

\* At the end of an attempt every tool of the upstream is a block of the ledger, and whole.
LEMMA ToolsWhole ==
  ASSUME NEW l \in Ledger, NEW p, NEW up, Attempt(l, p, up), CarriesTools(l, p, up),
         Range(l.stack) = {}
  PROVE  /\ \A i \in ToolBlocks(l) : l.blocks[i].parts = Whole
         /\ Cardinality(ToolBlocks(l)) = Cardinality(ToolsOf(up))
<1>1. /\ ToolBlocks(l) = {Segment(p, u).down : u \in ToolsOf(up)}
      /\ \A u \in ToolsOf(up) :
           /\ l.blocks[Segment(p, u).down].parts = Part(up.blocks[u].sent)
           /\ Segment(p, u).open \/ up.blocks[u].sent = 2
      /\ \A u, v \in ToolsOf(up) : Segment(p, u).down = Segment(p, v).down => u = v
  BY Zenon DEF CarriesTools
<1>2. InStep(l, p) /\ Carried(p, up) /\ up \in NativeRecord /\ p \in Policy
  BY AttemptIs
<1>3. OpenSegments(p) = {}
  BY <1>2, Zenon DEF InStep
<1>4. ASSUME NEW u \in ToolsOf(up) PROVE u \in DOMAIN p.by_upstream
  <2>1. u \in DOMAIN up.blocks /\ up.blocks[u].type = "tool_use"
    BY DEF ToolsOf
  <2>2. u \in DOMAIN p.by_upstream \/ u \in p.dropped
    BY <1>2, <2>1, Zenon DEF Carried
  <2>3. u \notin p.dropped
    <3>1. u \in p.dropped => up.blocks[u].type \in {"thinking", "redacted_thinking"}
      BY <1>2, Zenon DEF Carried
    <3> QED BY <2>1, <3>1
  <2> QED BY <2>2, <2>3
<1>5. ASSUME NEW u \in ToolsOf(up) PROVE ~ Segment(p, u).open
  BY <1>2, <1>3, <1>4, PolicyIs
<1>6. ASSUME NEW i \in ToolBlocks(l) PROVE l.blocks[i].parts = Whole
  <2>1. PICK u \in ToolsOf(up) : i = Segment(p, u).down
    BY <1>1
  <2>2. up.blocks[u].sent = 2
    BY <1>1, <1>5
  <2>3. l.blocks[i].parts = Part(2)
    BY <1>1, <2>1, <2>2
  <2> QED BY <2>3, PartIs
<1>7. Cardinality(ToolBlocks(l)) = Cardinality(ToolsOf(up))
  <2> DEFINE f == [u \in ToolsOf(up) |-> Segment(p, u).down]
  <2>1. f \in Surjection(ToolsOf(up), ToolBlocks(l))
    BY <1>1 DEF Surjection
  <2>2. f \in Injection(ToolsOf(up), ToolBlocks(l))
    BY <1>1, <2>1 DEF Injection, IsInjective, Surjection
  <2>3. IsFiniteSet(ToolsOf(up))
    <3>1. DOMAIN up.blocks = 1 .. Len(up.blocks) /\ Len(up.blocks) \in Nat
      BY <1>2, NativeIs
    <3>2. IsFiniteSet(DOMAIN up.blocks)
      BY <3>1, FS_Interval
    <3> QED BY <3>2, FS_Subset DEF ToolsOf
  <2> HIDE DEF f
  <2> QED BY <2>1, <2>2, <2>3, FS_Surjection
<1> QED BY <1>6, <1>7

LEMMA NativeSafeWhole ==
  ASSUME NativeSafe, Orderly
  PROVE  NativeAnswerWhole
<1> SUFFICES ASSUME native_phase \in {"answered", "continued"}, native_buffer.wire = <<>>
             PROVE  /\ \A i \in DOMAIN native_client.args : native_client.args[i] = Whole
                    /\ native_phase = "answered" =>
                         /\ Own(native_client) = 1 .. native_upstream.text
                         /\ Cardinality(DOMAIN native_client.args) =
                              Cardinality({u \in DOMAIN native_upstream.blocks :
                                             native_upstream.blocks[u].type = "tool_use"})
  BY DEF NativeAnswerWhole
<1>1. native_phase \in NativeOver /\ native_phase # "failed"
  BY DEF NativeOver
<1>2. PICK u : NativeTail(u) /\ Agrees(native_client, u.l)
  BY <1>1, NativeDoneIs
<1>3. u.l = native_ledger
  BY <1>1, <1>2, Zenon DEF NativeTail
<1>4. native_client.text = native_ledger.said /\ native_client.args = ArgsOf(native_ledger)
  BY <1>2, <1>3, Zenon DEF Agrees
<1>5. /\ DOMAIN native_client.args = ToolBlocks(native_ledger)
      /\ \A i \in ToolBlocks(native_ledger) : native_client.args[i] = native_ledger.blocks[i].parts
  BY <1>4 DEF ArgsOf
<1>6. CASE native_phase = "continued"
  <2>1. \A i \in ToolBlocks(native_ledger) : native_ledger.blocks[i].parts = Whole
    BY <1>6, Zenon DEF NativeSafe, NativeAfter
  <2> QED BY <1>5, <1>6, <2>1
<1>7. CASE native_phase = "answered"
  <2>1. Attempt(native_ledger, native_policy, native_upstream) /\ native_upstream.stage = "stopped"
    BY <1>7, Zenon DEF NativeSafe, NativeAfter, Stage
  <2>2. Range(native_ledger.stack) = {}
    <3>1. Progress(native_ledger, native_policy, native_upstream)
      BY <2>1, AttemptIs
    <3>2. native_upstream.stage \in Ending
      BY <2>1 DEF Ending
    <3> QED BY <3>1, <3>2, Zenon DEF Progress
  <2>3. CarriesTools(native_ledger, native_policy, native_upstream)
    BY <2>1, Zenon DEF Attempt
  <2>4. native_ledger \in Ledger
    BY Zenon DEF NativeSafe, NativeFields
  <2>5. /\ \A i \in ToolBlocks(native_ledger) : native_ledger.blocks[i].parts = Whole
        /\ Cardinality(ToolBlocks(native_ledger)) = Cardinality(ToolsOf(native_upstream))
    BY <2>1, <2>2, <2>3, <2>4, ToolsWhole
  <2>6. native_ledger.said = UpTo(native_upstream.text) /\ native_upstream.text \in Nat
    BY <2>1, AttemptIs, NativeIs
  <2>7. Own(native_client) = 1 .. native_upstream.text
    <3>1. Own(native_client) = {i \in DOMAIN native_ledger.said : native_ledger.said[i] > 0}
      BY <1>4, Zenon DEF Own
    <3>2. {i \in DOMAIN UpTo(native_upstream.text) : UpTo(native_upstream.text)[i] > 0}
            = 1 .. native_upstream.text
      BY <2>6, UpToIs
    <3> QED BY <2>6, <3>1, <3>2, Zenon
  <2> QED BY <1>5, <2>5, <2>7, Zenon DEF ToolsOf
<1> QED BY <1>6, <1>7
-----------------------------------------------------------------------------
(* Both transports.                                                         *)

LEMMA TransportIs ==
  ASSUME [Next]_streams_vars
  PROVE  [ChatNext]_chat_vars /\ [NativeNext]_native_vars /\ transport' = transport
<1>1. CASE Chat
  BY <1>1, Zenon DEF Chat
<1>2. CASE Native
  BY <1>2, Zenon DEF Native
<1>3. CASE UNCHANGED streams_vars
  BY <1>3, Zenon DEF streams_vars
<1> QED BY <1>1, <1>2, <1>3 DEF Next

\* What both adapters and their clients keep true: an invariant of the two together.
StreamsSafe == transport \in {"chat", "native"} /\ ChatSafe /\ NativeSafe

LEMMA StreamsAlwaysSafe ==
  ASSUME ~ LateStalls, NativeOddities = {}
  PROVE  Spec => []StreamsSafe
<1>1. Init => StreamsSafe
  BY InitSafe, NativeInitSafe DEF Init, StreamsSafe
<1>2. StreamsSafe /\ [Next]_streams_vars => StreamsSafe'
  BY TransportIs, NextSafe, NativeNextSafe DEF StreamsSafe
<1> QED BY <1>1, <1>2, PTL DEF Spec

LEMMA StreamsAlwaysText ==
  ASSUME ~ LateStalls, NativeOddities = {}, ~ ShortRepeats
  PROVE  Spec => []ChatText
<1>1. Init => ChatText
  BY InitText DEF Init
<1>2. StreamsSafe /\ ChatText /\ [Next]_streams_vars => ChatText'
  BY TransportIs, NextText DEF StreamsSafe
<1>3. Spec => []StreamsSafe
  BY StreamsAlwaysSafe
<1> QED BY <1>1, <1>2, <1>3, PTL DEF Spec

\* Whichever transport the provider uses, and whatever fails, is retried, continued or
\* repaired, the events that a client of /v1/messages reads are a stream of the Anthropic
\* grammar: the native half is the block policy's doing, which closes, reopens, renumbers
\* and drops the blocks of the upstream (native_sse_block_policy.py, ledger.py, stream.py).
THEOREM StreamsKeepContract ==
  ASSUME ~ LateStalls, NativeOddities = {}
  PROVE  Spec => KeepsContract
<1>1. Init => ChatInit /\ NativeInit
  BY DEF Init
<1>2. Init => Contract!ContractInit /\ NativeContract!ContractInit
  BY <1>1, InitKeepsContract, NativeInitContract
<1>3. StreamsSafe /\ [Next]_streams_vars =>
        /\ [Contract!ContractNext]_Contract!contract_vars
        /\ [NativeContract!ContractNext]_NativeContract!contract_vars
  BY TransportIs, StepKeepsContract, NativeStepContract DEF StreamsSafe
<1>4. Spec => []StreamsSafe
  BY StreamsAlwaysSafe
<1> QED BY <1>2, <1>3, <1>4, PTL DEF Spec, KeepsContract, ChatKeepsContract,
        NativeKeepsContract, Contract!ContractSpec, NativeContract!ContractSpec

\* Whichever transport the provider uses, the text that its client has read so far is the
\* answer's text in its order, with nothing said twice or left out, whatever was held back,
\* closed, dropped, retried, continued or repaired on the way, and the state has its type:
\* no retry is made beyond their number (recovery.py, native_sse_block_policy.py).
THEOREM StreamsTextInOrder ==
  ASSUME ~ LateStalls, NativeOddities = {}, ~ ShortRepeats
  PROVE  Spec => []TextInOrder
<1>1. StreamsSafe /\ ChatText => TextInOrder
  BY ChatSafeType, NativeSafeType, SafeInOrder, NativeSafeText, Zenon
     DEF StreamsSafe, TextInOrder, TypeOK
<1> QED BY <1>1, StreamsAlwaysSafe, StreamsAlwaysText, PTL

\* An answer that ended well was read to its last piece, text and arguments, whichever
\* transport brought it; after an interruption the tools the client is told to run have
\* complete arguments; and an answer that failed says so (stream.py, recovery.py, ledger.py
\* success_tail, midstream_error_tail).
THEOREM StreamsAnswerOrFailure ==
  ASSUME ~ LateStalls, NativeOddities = {}, ~ ShortRepeats
  PROVE  Spec => []AnswerOrFailure
<1>1. Orderly
  BY DEF Orderly
<1>2. StreamsSafe /\ ChatText => AnswerOrFailure
  BY <1>1, SafeWhole, SafeRepairs, NativeSafeWhole, SafeTellsFailure, NativeSafeTellsFailure, Zenon
     DEF StreamsSafe, AnswerOrFailure
<1> QED BY <1>2, StreamsAlwaysSafe, StreamsAlwaysText, PTL
-----------------------------------------------------------------------------
(* Responses: what the client of /v1/responses reads.                       *)

Item == [kind : ItemKind, data : Seq(Nat), done : BOOLEAN]
NoKind == ""
ReplyKind == ItemKind \cup {NoKind}
ActiveBlock == [kind : ItemKind, slot : Nat, parts : Seq(Nat)]
ReplyName == {"created", "added", "delta", "done", "completed", "failed"}
ResponseEvent == [name : ReplyName, slot : Nat,
                  kind : ReplyKind, data : Seq(Nat), output : Seq(Item)]
Assembler == [slots : Seq(Item), active : Partial(ActiveBlock), started : BOOLEAN,
              terminal : BOOLEAN]
Reader == [status : {"new", "in_progress", "completed", "failed"}, items : Seq(Item),
           output : Seq(Item), strange : BOOLEAN]

LEMMA ReadAllIs ==
  ASSUME NEW r, NEW es \in Seq(ResponseEvent)
  PROVE  \E g : /\ g[0] = r /\ ReadAll(r, es) = g[Len(es)]
                /\ \A k \in 1 .. Len(es) : g[k] = ReadResponse(g[k - 1], es[k])
<1> DEFINE N == Len(es)
<1>0. N \in Nat
  OBVIOUS
<1>1. \E g : g = [k \in 0 .. N |-> IF k = 0 THEN r ELSE ReadResponse(g[k - 1], es[k])]
  <2> DEFINE T == {q \in Nat : \E g : g = [k \in 0 .. q |-> IF k = 0 THEN r
                                                     ELSE ReadResponse(g[k - 1], es[k])]}
  <2>1. 0 \in T
    <3> DEFINE g == [k \in 0 .. 0 |-> r]
    <3>1. g = [k \in 0 .. 0 |-> IF k = 0 THEN r ELSE ReadResponse(g[k - 1], es[k])]
      OBVIOUS
    <3> HIDE DEF g
    <3> QED BY <3>1
  <2>2. ASSUME NEW q \in Nat, q \in T PROVE q + 1 \in T
    <3>1. PICK g : g = [k \in 0 .. q |-> IF k = 0 THEN r ELSE ReadResponse(g[k - 1], es[k])]
      BY <2>2
    <3> DEFINE h == [k \in 0 .. q + 1 |-> IF k <= q THEN g[k] ELSE ReadResponse(g[q], es[(q + 1)])]
    <3>2. ASSUME NEW k \in 0 .. q + 1
          PROVE  h[k] = IF k = 0 THEN r ELSE ReadResponse(h[k - 1], es[k])
      <4>1. CASE k = 0
        BY <3>1, <4>1
      <4>2. CASE k \in 1 .. q
        <5>1. h[k] = g[k] /\ h[k - 1] = g[k - 1]
          BY <4>2
        <5>2. g[k] = ReadResponse(g[k - 1], es[k])
          BY <3>1, <4>2
        <5> QED BY <4>2, <5>1, <5>2
      <4>3. CASE k = q + 1
        <5>1. h[k] = ReadResponse(g[q], es[(q + 1)]) /\ h[k - 1] = g[q] /\ k # 0
          BY <4>3
        <5> QED BY <4>3, <5>1
      <4> QED BY <4>1, <4>2, <4>3
    <3>3. h = [k \in 0 .. q + 1 |-> IF k = 0 THEN r ELSE ReadResponse(h[k - 1], es[k])]
      <4>1. h = [k \in 0 .. q + 1 |-> h[k]]
        OBVIOUS
      <4> HIDE DEF h
      <4> QED BY <3>2, <4>1
    <3>4. \E y : y = [k \in 0 .. q + 1 |-> IF k = 0 THEN r ELSE ReadResponse(y[k - 1], es[k])]
      <4> WITNESS h
      <4> QED BY <3>3
    <3>5. q + 1 \in Nat
      OBVIOUS
    <3> HIDE DEF h
    <3> QED BY <3>4, <3>5, Zenon
  <2>3. Nat \subseteq T
    <3> HIDE DEF T
    <3> QED BY <2>1, <2>2, EveryNumber
  <2>4. N \in T
    <3> HIDE DEF T, N
    <3> QED BY <1>0, <2>3
  <2> QED BY <2>4
<1> DEFINE f == CHOOSE g : g = [k \in 0 .. N |-> IF k = 0 THEN r ELSE ReadResponse(g[k - 1], es[k])]
<1>2. f = [k \in 0 .. N |-> IF k = 0 THEN r ELSE ReadResponse(f[k - 1], es[k])]
  BY <1>1
<1>3. f[0] = r /\ \A k \in 1 .. N : f[k] = ReadResponse(f[k - 1], es[k])
  <2> HIDE DEF f
  <2>1. 0 \in 0 .. N /\ \A k \in 1 .. N : k \in 0 .. N /\ k # 0
    BY <1>0
  <2> QED BY <1>2, <2>1
<1>4. ReadAll(r, es) = f[N]
  BY DEF ReadAll
<1> HIDE DEF f, N
<1>5. \E g : g[0] = r /\ ReadAll(r, es) = g[N] /\ \A k \in 1 .. N : g[k] = ReadResponse(g[k - 1], es[k])
  BY <1>3, <1>4
<1> QED BY <1>5 DEF N

\* One event more.
LEMMA ReadMore ==
  ASSUME NEW r, NEW es \in Seq(ResponseEvent), NEW e \in ResponseEvent
  PROVE  /\ Append(es, e) \in Seq(ResponseEvent)
         /\ ReadAll(r, Append(es, e)) = ReadResponse(ReadAll(r, es), e)
<1> DEFINE N == Len(es)
           fs == Append(es, e)
<1>1. /\ N \in Nat /\ fs \in Seq(ResponseEvent) /\ Len(fs) = N + 1 /\ fs[N + 1] = e
      /\ \A k \in 1 .. N : fs[k] = es[k]
  OBVIOUS
<1>2. PICK g : /\ g[0] = r /\ ReadAll(r, es) = g[N]
               /\ \A k \in 1 .. N : g[k] = ReadResponse(g[k - 1], es[k])
  BY ReadAllIs
<1> HIDE DEF fs
<1>3. PICK h : /\ h[0] = r /\ ReadAll(r, fs) = h[N + 1]
               /\ \A k \in 1 .. N + 1 : h[k] = ReadResponse(h[k - 1], fs[k])
  BY <1>1, ReadAllIs
<1> HIDE DEF N
<1> DEFINE T == {k \in Nat : k <= N => h[k] = g[k]}
<1>4. 0 \in T
  BY <1>2, <1>3
<1>5. ASSUME NEW k \in Nat, k \in T PROVE k + 1 \in T
  <2> SUFFICES ASSUME k + 1 <= N PROVE h[k + 1] = g[k + 1]
    OBVIOUS
  <2>1. k + 1 \in 1 .. N /\ k + 1 \in 1 .. N + 1 /\ (k + 1) - 1 = k /\ h[k] = g[k]
    BY <1>1, <1>5
  <2>2. g[k + 1] = ReadResponse(g[(k + 1) - 1], es[k + 1])
    BY <1>2, <2>1
  <2>3. h[k + 1] = ReadResponse(h[(k + 1) - 1], fs[k + 1])
    BY <1>3, <2>1
  <2> QED BY <1>1, <2>1, <2>2, <2>3
<1>6. h[N] = g[N]
  <2>1. Nat \subseteq T
    <3> HIDE DEF T
    <3> QED BY <1>4, <1>5, EveryNumber
  <2> QED BY <1>1, <2>1
<1>7. h[N + 1] = ReadResponse(h[N], e)
  <2>1. N + 1 \in 1 .. N + 1 /\ (N + 1) - 1 = N
    BY <1>1
  <2>2. h[N + 1] = ReadResponse(h[(N + 1) - 1], fs[N + 1])
    BY <1>3, <2>1
  <2> QED BY <1>1, <2>1, <2>2
<1> QED BY <1>1, <1>2, <1>3, <1>6, <1>7 DEF fs

LEMMA ReadNone ==
  ASSUME NEW r
  PROVE  ReadAll(r, <<>>) = r /\ <<>> \in Seq(ResponseEvent)
<1>1. <<>> \in Seq(ResponseEvent) /\ Len(<<>>) = 0
  OBVIOUS
<1>2. \A es \in Seq(ResponseEvent) : \E g : g[0] = r /\ ReadAll(r, es) = g[Len(es)]
  BY ReadAllIs
<1>3. PICK g : g[0] = r /\ ReadAll(r, <<>>) = g[Len(<<>>)]
  BY <1>1, <1>2, Zenon
<1> QED BY <1>1, <1>3

\* After the events of a work the reader is s.
Reads(w, r, s) ==
  /\ w = [a |-> w.a, said |-> w.said] /\ w.said \in Seq(ResponseEvent)
  /\ s = ReadAll(r, w.said)

LEMMA ToldReads ==
  ASSUME NEW w, NEW a, NEW e \in ResponseEvent, NEW r, NEW s, Reads(w, r, s)
  PROVE  Reads(Told(w, a, e), r, ReadResponse(s, e)) /\ Told(w, a, e).a = a
<1>1. Told(w, a, e).said = Append(w.said, e) /\ Told(w, a, e).a = a
      /\ Told(w, a, e) = [a |-> a, said |-> Append(w.said, e)]
  BY DEF Told
<1>2. /\ Append(w.said, e) \in Seq(ResponseEvent)
      /\ ReadAll(r, Append(w.said, e)) = ReadResponse(s, e)
  BY ReadMore DEF Reads
<1> HIDE DEF Told
<1> QED BY <1>1, <1>2 DEF Reads
LEMMA ReplyIs ==
  ASSUME NEW name \in ReplyName, NEW slot \in Nat, NEW kind \in ReplyKind, NEW data \in Seq(Nat)
  PROVE  LET e == Reply(name, slot, kind, data)
         IN  /\ e \in ResponseEvent /\ e.name = name /\ e.slot = slot /\ e.kind = kind
             /\ e.data = data
<1>1. <<>> \in Seq(Item)
  OBVIOUS
<1> QED BY <1>1 DEF Reply, ResponseEvent

\* The events without an item.
Notice(name) == Reply(name, 0, NoKind, <<>>)
Closing(name, output) == [Notice(name) EXCEPT !.output = output]

LEMMA KindIs == ItemKind \subseteq ReplyKind /\ NoKind \in ReplyKind
BY Zenon DEF ReplyKind

LEMMA ReplyNoticeIs ==
  ASSUME NEW name \in {"created", "completed", "failed"}
  PROVE  Notice(name) \in ResponseEvent /\ Notice(name).name = name
<1>1. <<>> \in Seq(Nat) /\ 0 \in Nat
  OBVIOUS
<1>2. name \in ReplyName
  BY DEF ReplyName
<1>3. <<>> \in Seq(Item)
  OBVIOUS
<1> QED BY <1>1, <1>2, <1>3, KindIs DEF Notice, Reply, ResponseEvent

LEMMA ClosingIs ==
  ASSUME NEW name \in {"completed", "failed"}, NEW output \in Seq(Item)
  PROVE  LET e == Closing(name, output)
         IN  e \in ResponseEvent /\ e.name = name /\ e.output = output
<1>1. <<>> \in Seq(Nat)
  OBVIOUS
<1>2. Notice(name) \in ResponseEvent /\ Notice(name).name = name
  BY ReplyNoticeIs
<1>3. Closing(name, output) = [Notice(name) EXCEPT !.output = output]
  BY DEF Closing
<1> QED BY <1>2, <1>3 DEF ResponseEvent

LEMMA ReaderIs ==
  ASSUME NEW s \in Reader
  PROVE  /\ s.status \in {"new", "in_progress", "completed", "failed"} /\ s.items \in Seq(Item)
         /\ s.output \in Seq(Item) /\ s.strange \in BOOLEAN
         /\ DOMAIN s.items = 1 .. Len(s.items) /\ Len(s.items) \in Nat
         /\ \A k \in DOMAIN s.items : /\ s.items[k] \in Item /\ s.items[k].kind \in ItemKind
                                      /\ s.items[k].data \in Seq(Nat) /\ s.items[k].done \in BOOLEAN
<1>1. /\ s.status \in {"new", "in_progress", "completed", "failed"} /\ s.items \in Seq(Item)
      /\ s.output \in Seq(Item) /\ s.strange \in BOOLEAN
  BY DEF Reader
<1>2. /\ DOMAIN s.items = 1 .. Len(s.items) /\ Len(s.items) \in Nat
      /\ \A k \in DOMAIN s.items : s.items[k] \in Item
  BY <1>1
<1>3. \A x \in Item : x.kind \in ItemKind /\ x.data \in Seq(Nat) /\ x.done \in BOOLEAN
  BY DEF Item
<1> QED BY <1>1, <1>2, <1>3

LEMMA AssemblerIs ==
  ASSUME NEW a \in Assembler
  PROVE  /\ a.slots \in Seq(Item) /\ a.active \in Partial(ActiveBlock) /\ a.started \in BOOLEAN
         /\ a.terminal \in BOOLEAN /\ DOMAIN a.slots = 1 .. Len(a.slots) /\ Len(a.slots) \in Nat
         /\ \A k \in DOMAIN a.slots : /\ a.slots[k] \in Item /\ a.slots[k].kind \in ItemKind
                                      /\ a.slots[k].data \in Seq(Nat) /\ a.slots[k].done \in BOOLEAN
<1>1. /\ a.slots \in Seq(Item) /\ a.active \in Partial(ActiveBlock) /\ a.started \in BOOLEAN
      /\ a.terminal \in BOOLEAN
  BY DEF Assembler
<1>2. /\ DOMAIN a.slots = 1 .. Len(a.slots) /\ Len(a.slots) \in Nat
      /\ \A k \in DOMAIN a.slots : a.slots[k] \in Item
  BY <1>1
<1>3. \A x \in Item : x.kind \in ItemKind /\ x.data \in Seq(Nat) /\ x.done \in BOOLEAN
  BY DEF Item
<1> QED BY <1>1, <1>2, <1>3

LEMMA ActiveIs ==
  ASSUME NEW f \in Partial(ActiveBlock)
  PROVE  /\ DOMAIN f \subseteq Nat
         /\ \A i \in DOMAIN f : /\ f[i] \in ActiveBlock /\ f[i].kind \in ItemKind
                                /\ f[i].slot \in Nat /\ f[i].parts \in Seq(Nat)
<1>1. DOMAIN f \subseteq Nat /\ \A i \in DOMAIN f : f[i] \in ActiveBlock
  BY PartialIs
<1>2. \A b \in ActiveBlock : b.kind \in ItemKind /\ b.slot \in Nat /\ b.parts \in Seq(Nat)
  BY DEF ActiveBlock
<1> QED BY <1>1, <1>2

\* Nothing strange was said to the reader, and the response is not over.
Listens(s) == s \in Reader /\ ~ s.strange /\ s.status = "in_progress"
\* Of the items one is x now, and the others are as they were.
Itself(s, t, k, x) ==
  /\ Len(t.items) = Len(s.items) /\ t.items[k] = x
  /\ \A j \in DOMAIN s.items \ {k} : t.items[j] = s.items[j]

LEMMA ReadCreated ==
  ASSUME NEW s \in Reader, s.status = "new", ~ s.strange
  PROVE  /\ Listens(ReadResponse(s, Notice("created")))
         /\ ReadResponse(s, Notice("created")).items = s.items
<1> DEFINE e == Notice("created")
<1>2. e.name = "created"
  BY ReplyNoticeIs
<1> HIDE DEF e
<1>3. ReadResponse(s, e) = [s EXCEPT !.status = "in_progress", !.strange = @ \/ s.status # "new"]
  BY <1>2 DEF ReadResponse
<1>4. ReadResponse(s, e) = [s EXCEPT !.status = "in_progress", !.strange = FALSE]
  BY <1>3
<1>5. Listens(ReadResponse(s, e)) /\ ReadResponse(s, e).items = s.items
  BY <1>4 DEF Reader, Listens
<1> QED BY <1>5 DEF e

LEMMA ReadAdded ==
  ASSUME NEW s, Listens(s), NEW slot, slot = Len(s.items) + 1, NEW kind \in ItemKind,
         NEW e, e = Reply("added", slot, kind, <<>>)
  PROVE  LET t == ReadResponse(s, e)
         IN  /\ e \in ResponseEvent /\ Listens(t)
             /\ t.items = Append(s.items, [kind |-> kind, data |-> <<>>, done |-> FALSE])
<1> DEFINE new == [kind |-> kind, data |-> <<>>, done |-> FALSE]
           items == Append(s.items, new)
<1>1. s \in Reader /\ s.items \in Seq(Item) /\ Len(s.items) \in Nat /\ ~ s.strange
      /\ s.status = "in_progress"
  BY ReaderIs DEF Listens
<1>2. slot \in Nat /\ <<>> \in Seq(Nat)
  BY <1>1
<1>3. e \in ResponseEvent /\ e.name = "added" /\ e.slot = slot /\ e.kind = kind
  <2>1. kind \in ReplyKind
    BY KindIs
  <2>2. "added" \in ReplyName
    BY DEF ReplyName
  <2>3. <<>> \in Seq(Item)
    OBVIOUS
  <2> QED BY <1>2, <2>1, <2>2, <2>3 DEF Reply, ResponseEvent
<1>4. new \in Item
  BY <1>2 DEF Item
<1>5. items \in Seq(Item)
  BY <1>1, <1>4
<1>6. ReadResponse(s, e) = [s EXCEPT !.items = items,
             !.strange = @ \/ s.status # "in_progress" \/ e.slot # Len(s.items) + 1]
  BY <1>3 DEF ReadResponse
<1>7. ReadResponse(s, e) = [s EXCEPT !.items = items, !.strange = FALSE]
  BY <1>1, <1>3, <1>6
<1> HIDE DEF items, new
<1>8. Listens(ReadResponse(s, e)) /\ ReadResponse(s, e).items = items
  BY <1>1, <1>5, <1>7 DEF Reader, Listens
<1> QED BY <1>3, <1>8 DEF items, new

\* An item of the reader replaced.
WithItem(s, k, x) == [s EXCEPT !.items = [@ EXCEPT ![k] = x]]
LEMMA WithItemIs ==
  ASSUME NEW s, Listens(s), NEW k \in DOMAIN s.items, NEW x \in Item
  PROVE  Listens(WithItem(s, k, x)) /\ Itself(s, WithItem(s, k, x), k, x)
<1> DEFINE items == [s.items EXCEPT ![k] = x]
           t == [s EXCEPT !.items = items]
<1>1. s \in Reader /\ s.items \in Seq(Item)
  BY ReaderIs DEF Listens
<1>2. /\ items \in Seq(Item) /\ Len(items) = Len(s.items) /\ items[k] = x
      /\ \A j \in DOMAIN s.items \ {k} : items[j] = s.items[j]
  BY <1>1
<1> HIDE DEF items
<1>3. t \in Reader /\ t.items = items /\ t.status = s.status /\ t.strange = s.strange
  BY <1>1, <1>2 DEF Reader
<1>4. WithItem(s, k, x) = t
  BY <1>1 DEF WithItem, Reader, items
<1> HIDE DEF t
<1> QED BY <1>2, <1>3, <1>4 DEF Listens, Itself

\* The reader's item in a slot has grown by some data.
GrewBy(s, t, slot, data) ==
  /\ Listens(t)
  /\ \E x \in Item : /\ Itself(s, t, slot, x) /\ ~ x.done /\ x.kind = s.items[slot].kind
                     /\ x.data = s.items[slot].data \o data

LEMMA ReadDelta ==
  ASSUME NEW s, Listens(s), NEW slot \in DOMAIN s.items, ~ s.items[slot].done,
         NEW kind \in ItemKind, NEW data \in Seq(Nat), NEW e, e = Reply("delta", slot, kind, data)
  PROVE  e \in ResponseEvent /\ GrewBy(s, ReadResponse(s, e), slot, data)
<1> DEFINE x == [s.items[slot] EXCEPT !.data = @ \o data]
<1>1. s \in Reader /\ s.status = "in_progress" /\ slot \in Nat /\ s.items[slot] \in Item
      /\ s.items[slot].data \in Seq(Nat)
  BY ReaderIs DEF Listens
<1>2. e \in ResponseEvent /\ e.name = "delta" /\ e.slot = slot /\ e.data = data
  <2>1. "delta" \in ReplyName /\ kind \in ReplyKind
    BY KindIs DEF ReplyName
  <2> QED BY <1>1, <2>1, ReplyIs
<1>3. s.items[slot].data \o data \in Seq(Nat)
  BY <1>1
<1>4. /\ x \in Item /\ x.kind = s.items[slot].kind /\ x.done = s.items[slot].done
      /\ x.data = s.items[slot].data \o data
  BY <1>1, <1>3 DEF Item
<1>5. ReadResponse(s, e) = [s EXCEPT !.items[e.slot].data = @ \o e.data]
  BY <1>1, <1>2 DEF ReadResponse
<1>6. ReadResponse(s, e) = WithItem(s, slot, x)
  BY <1>2, <1>5, Zenon DEF WithItem
<1> HIDE DEF x
<1>7. Listens(ReadResponse(s, e)) /\ Itself(s, ReadResponse(s, e), slot, x)
  BY <1>4, <1>6, WithItemIs
<1> QED BY <1>2, <1>4, <1>7 DEF GrewBy

LEMMA ReadDone ==
  ASSUME NEW s, Listens(s), NEW slot \in DOMAIN s.items, ~ s.items[slot].done,
         NEW kind \in ItemKind, NEW data \in Seq(Nat), data = s.items[slot].data,
         NEW e, e = Reply("done", slot, kind, data)
  PROVE  LET t == ReadResponse(s, e)
             x == [s.items[slot] EXCEPT !.done = TRUE]
         IN  e \in ResponseEvent /\ Listens(t) /\ Itself(s, t, slot, x) /\ x \in Item
             /\ x.kind = s.items[slot].kind /\ x.data = data /\ x.done
<1> DEFINE x == [s.items[slot] EXCEPT !.done = TRUE]
<1>1. s \in Reader /\ s.status = "in_progress" /\ slot \in Nat /\ s.items[slot] \in Item
      /\ s.items[slot].kind \in ItemKind
  BY ReaderIs DEF Listens
<1>2. e \in ResponseEvent /\ e.name = "done" /\ e.slot = slot /\ e.data = data
  <2>1. "done" \in ReplyName /\ kind \in ReplyKind
    BY KindIs DEF ReplyName
  <2> QED BY <1>1, <2>1, ReplyIs
<1>4. x \in Item /\ x.kind = s.items[slot].kind /\ x.data = data /\ x.done
  BY <1>1 DEF Item
<1>5. ReadResponse(s, e) = [s EXCEPT !.items[e.slot].done = TRUE]
  BY <1>1, <1>2 DEF ReadResponse
<1>6. ReadResponse(s, e) = WithItem(s, slot, x)
  BY <1>2, <1>5, Zenon DEF WithItem
<1> HIDE DEF x
<1>7. Listens(ReadResponse(s, e)) /\ Itself(s, ReadResponse(s, e), slot, x)
  BY <1>4, <1>6, WithItemIs
<1> QED BY <1>2, <1>4, <1>7 DEF x

LEMMA ReadEnds ==
  ASSUME NEW s, Listens(s), NEW name \in {"completed", "failed"}, NEW output \in Seq(Item)
  PROVE  LET t == ReadResponse(s, Closing(name, output))
         IN  /\ t \in Reader /\ ~ t.strange /\ t.status = name /\ t.items = s.items
             /\ t.output = output
<1> DEFINE e == Closing(name, output)
<1>1. s \in Reader /\ s.status = "in_progress" /\ ~ s.strange
  BY DEF Listens
<1>2. e.name = name /\ e.output = output
  BY ClosingIs
<1> HIDE DEF e
<1>3. e.name \notin {"created", "added", "delta", "done"}
  BY <1>2
<1>4. ReadResponse(s, e) = [s EXCEPT !.status = e.name, !.output = e.output,
                              !.strange = @ \/ s.status # "in_progress"]
  BY <1>3 DEF ReadResponse
<1>5. ReadResponse(s, e) = [s EXCEPT !.status = name, !.output = output, !.strange = FALSE]
  BY <1>1, <1>2, <1>4
<1> QED BY <1>1, <1>5 DEF Reader, e
\* The text a client has read, in whatever items.
Spoken(items) ==
  UNION {Range(items[k].data) : k \in {n \in DOMAIN items : items[n].kind = "message"}}

LEMMA SpokenIs ==
  ASSUME NEW items, NEW v
  PROVE  v \in Spoken(items) <=>
           \E k \in DOMAIN items : items[k].kind = "message" /\ v \in Range(items[k].data)
BY Zenon DEF Spoken

LEMMA SpokenSame ==
  ASSUME NEW s \in Reader, NEW t \in Reader, NEW k \in DOMAIN s.items, NEW x, Itself(s, t, k, x),
         x.kind = s.items[k].kind, x.kind = "message" => x.data = s.items[k].data
  PROVE  Spoken(t.items) = Spoken(s.items)
<1>1. DOMAIN t.items = DOMAIN s.items
  BY ReaderIs DEF Itself
<1>2. \A j \in DOMAIN s.items :
        /\ t.items[j].kind = s.items[j].kind
        /\ s.items[j].kind = "message" => t.items[j].data = s.items[j].data
  BY DEF Itself
<1>3. \A v : v \in Spoken(t.items) <=> v \in Spoken(s.items)
  BY <1>1, <1>2, SpokenIs
<1> QED BY <1>3

LEMMA RangeJoined ==
  ASSUME NEW p \in Seq(Nat), NEW q \in Seq(Nat)
  PROVE  \A v : v \in Range(p \o q) <=> v \in Range(p) \/ v \in Range(q)
<1> DEFINE j == p \o q
<1>1. /\ j \in Seq(Nat) /\ Len(j) = Len(p) + Len(q) /\ Len(p) \in Nat /\ Len(q) \in Nat
      /\ \A k \in 1 .. Len(p) : j[k] = p[k]
      /\ \A k \in 1 .. Len(q) : j[Len(p) + k] = q[k]
  BY Joined
<1> HIDE DEF j
<1>2. ASSUME NEW k \in 1 .. Len(j), k \notin 1 .. Len(p)
      PROVE  k - Len(p) \in 1 .. Len(q) /\ j[k] = q[k - Len(p)]
  <2>1. k - Len(p) \in 1 .. Len(q) /\ k = Len(p) + (k - Len(p))
    BY <1>1, <1>2
  <2> QED BY <1>1, <2>1
<1>3. \A k \in 1 .. Len(q) : Len(p) + k \in 1 .. Len(j)
  BY <1>1
<1>4. \A k \in 1 .. Len(p) : k \in 1 .. Len(j)
  BY <1>1
<1>5. ASSUME NEW v, v \in Range(j) PROVE v \in Range(p) \/ v \in Range(q)
  <2>1. PICK k \in 1 .. Len(j) : j[k] = v
    BY <1>1, <1>5, RangeIs
  <2>2. CASE k \in 1 .. Len(p)
    BY <1>1, <2>1, <2>2, RangeIs
  <2>3. CASE k \notin 1 .. Len(p)
    BY <1>2, <2>1, <2>3, RangeIs
  <2> QED BY <2>2, <2>3
<1>6. ASSUME NEW v, v \in Range(p) \/ v \in Range(q) PROVE v \in Range(j)
  <2>1. CASE v \in Range(p)
    <3>1. PICK k \in 1 .. Len(p) : p[k] = v
      BY <2>1, RangeIs
    <3> QED BY <1>1, <1>4, <3>1, RangeIs
  <2>2. CASE v \in Range(q)
    <3>1. PICK k \in 1 .. Len(q) : q[k] = v
      BY <2>2, RangeIs
    <3> QED BY <1>1, <1>3, <3>1, RangeIs
  <2> QED BY <1>6, <2>1, <2>2
<1> QED BY <1>5, <1>6 DEF j

LEMMA SpokenMore ==
  ASSUME NEW s \in Reader, NEW k \in DOMAIN s.items, s.items[k].kind = "message",
         NEW data \in Seq(Nat), NEW t, GrewBy(s, t, k, data)
  PROVE  Spoken(t.items) = Spoken(s.items) \cup Range(data)
<1> PICK x \in Item : /\ Itself(s, t, k, x) /\ x.kind = s.items[k].kind
                      /\ x.data = s.items[k].data \o data /\ t \in Reader
  BY Zenon DEF GrewBy, Listens
<1>1. DOMAIN t.items = DOMAIN s.items /\ s.items[k].data \in Seq(Nat)
  BY ReaderIs DEF Itself
<1>2. \A v : v \in Range(x.data) <=> v \in Range(s.items[k].data) \/ v \in Range(data)
  BY <1>1, RangeJoined
<1>3. t.items[k] = x /\ \A j \in DOMAIN s.items \ {k} : t.items[j] = s.items[j]
  BY DEF Itself
<1>4. ASSUME NEW v, v \in Spoken(t.items) PROVE v \in Spoken(s.items) \cup Range(data)
  <2>1. PICK j \in DOMAIN t.items : t.items[j].kind = "message" /\ v \in Range(t.items[j].data)
    BY <1>4, SpokenIs
  <2>2. j = k => v \in Range(s.items[k].data) \/ v \in Range(data)
    BY <1>2, <1>3, <2>1
  <2> QED BY <1>1, <1>3, <2>1, <2>2, SpokenIs
<1>5. ASSUME NEW v, v \in Spoken(s.items) PROVE v \in Spoken(t.items)
  <2>1. PICK j \in DOMAIN s.items : s.items[j].kind = "message" /\ v \in Range(s.items[j].data)
    BY <1>5, SpokenIs
  <2>2. t.items[j].kind = "message" /\ v \in Range(t.items[j].data)
    BY <1>2, <1>3, <2>1
  <2> QED BY <1>1, <2>1, <2>2, SpokenIs
<1>6. ASSUME NEW v \in Range(data) PROVE v \in Spoken(t.items)
  <2>1. t.items[k].kind = "message" /\ v \in Range(t.items[k].data)
    BY <1>2, <1>3, <1>6
  <2> QED BY <1>1, <2>1, SpokenIs
<1> QED BY <1>4, <1>5, <1>6

LEMMA SpokenAdded ==
  ASSUME NEW items \in Seq(Item), NEW x \in Item, Range(x.data) = {}
  PROVE  Spoken(Append(items, x)) = Spoken(items)
<1> DEFINE more == Append(items, x)
<1>1. /\ DOMAIN items = 1 .. Len(items) /\ Len(items) \in Nat
      /\ DOMAIN more = 1 .. Len(items) + 1 /\ more[Len(items) + 1] = x
      /\ \A k \in 1 .. Len(items) : more[k] = items[k]
  OBVIOUS
<1>2. DOMAIN items \subseteq DOMAIN more /\ \A k \in DOMAIN more \ DOMAIN items : more[k] = x
  BY <1>1
<1> HIDE DEF more
<1>3. \A v : v \in Spoken(more) <=> v \in Spoken(items)
  BY <1>1, <1>2, SpokenIs
<1>4. Spoken(more) = Spoken(items)
  BY <1>3
<1> QED BY <1>4 DEF more
\* What the reader's item says of the assembler's slot.
IsCall(kind) == kind \in {"function_call", "custom_tool_call"}
Replayable(y) == y.kind = "function_call" => ArgumentsValid(y.data)
Alike(x, y) ==
  x.kind = y.kind /\ x.done = y.done /\ (y.done => x.data = y.data /\ Replayable(y))
Mirrors(slots, items) ==
  Len(items) = Len(slots) /\ \A k \in DOMAIN slots : Alike(items[k], slots[k])
\* An active block's slot is open, and its item has what was sent of it.
Streamed(b) == IF IsCall(b.kind) THEN <<>> ELSE b.parts
Pending(slots, items, b) ==
  /\ b.slot \in DOMAIN slots /\ ~ slots[b.slot].done /\ slots[b.slot].kind = b.kind
  /\ items[b.slot].data = Streamed(b)
\* The blocks us of act are those still to be completed.
Awaited(slots, items, act, us) ==
  /\ us \subseteq DOMAIN act
  /\ \A i \in us : Pending(slots, items, act[i])
  /\ \A i, j \in us : act[i].slot = act[j].slot => i = j
  /\ \A k \in DOMAIN slots : slots[k].done \/ \E i \in us : act[i].slot = k
Attends(a, s, act, us) ==
  /\ a \in Assembler /\ act \in Partial(ActiveBlock) /\ Listens(s) /\ ~ a.terminal
  /\ a.started /\ Mirrors(a.slots, s.items) /\ Awaited(a.slots, s.items, act, us)
\* The response has failed, and its reader knows.
FailedReply(a, s) == a.terminal /\ s \in Reader /\ ~ s.strange /\ s.status = "failed"

\* Of the slots one is y now, and the others are as they were.
Committed(slots, k, y, out) ==
  /\ out \in Seq(Item) /\ Len(out) = Len(slots) /\ out[k] = y
  /\ \A j \in DOMAIN slots \ {k} : out[j] = slots[j]

LEMMA CommittedIs ==
  ASSUME NEW slots \in Seq(Item), NEW k \in DOMAIN slots, NEW y \in Item
  PROVE  Committed(slots, k, y, [slots EXCEPT ![k] = y])
BY DEF Committed

\* The pending block is done on both sides.
LEMMA DoneAttends ==
  ASSUME NEW a, NEW s, NEW act, NEW us, Attends(a, s, act, us), NEW i \in us,
         NEW y \in Item, y.kind = act[i].kind, y.data = act[i].parts, y.done, Replayable(y),
         NEW x \in Item, x.kind = y.kind, x.data = y.data, x.done,
         NEW t, Listens(t), Itself(s, t, act[i].slot, x),
         NEW u \in Assembler, u.started, ~ u.terminal, Committed(a.slots, act[i].slot, y, u.slots)
  PROVE  Attends(u, t, act, us \ {i}) /\ Spoken(t.items) = Spoken(s.items)
<1> DEFINE k == act[i].slot
<1>1. /\ Mirrors(a.slots, s.items) /\ Awaited(a.slots, s.items, act, us)
      /\ act \in Partial(ActiveBlock) /\ s \in Reader /\ t \in Reader /\ a \in Assembler
  BY DEF Attends, Listens
<1>2. us \subseteq DOMAIN act /\ Pending(a.slots, s.items, act[i])
  BY <1>1 DEF Awaited
<1>3. /\ k \in DOMAIN a.slots /\ k \in DOMAIN s.items /\ DOMAIN u.slots = DOMAIN a.slots
      /\ Len(t.items) = Len(u.slots)
  BY <1>1, <1>2, ReaderIs, AssemblerIs DEF Pending, Mirrors, Itself, Committed
<1>4. /\ u.slots[k] = y /\ \A j \in DOMAIN a.slots \ {k} : u.slots[j] = a.slots[j]
      /\ t.items[k] = x /\ \A j \in DOMAIN s.items \ {k} : t.items[j] = s.items[j]
  BY DEF Committed, Itself
<1>5. DOMAIN s.items = DOMAIN a.slots
  BY <1>1, ReaderIs, AssemblerIs DEF Mirrors
<1>6. ASSUME NEW j \in DOMAIN u.slots PROVE Alike(t.items[j], u.slots[j])
  <2>1. CASE j = k
    <3>1. /\ y.done = TRUE /\ x.done = TRUE
      BY DEF Item
    <3> QED BY <1>4, <2>1, <3>1 DEF Alike
  <2>2. CASE j # k
    <3>1. t.items[j] = s.items[j] /\ u.slots[j] = a.slots[j] /\ j \in DOMAIN a.slots
      BY <1>3, <1>4, <1>5, <2>2
    <3>2. Alike(s.items[j], a.slots[j])
      BY <1>1, <3>1 DEF Mirrors
    <3> QED BY <3>1, <3>2
  <2> QED BY <2>1, <2>2
<1>7. ASSUME NEW j \in us \ {i} PROVE Pending(u.slots, t.items, act[j])
  <2>1. Pending(a.slots, s.items, act[j]) /\ act[j].slot # k
    BY <1>1 DEF Awaited
  <2> QED BY <1>3, <1>4, <1>5, <2>1, Zenon DEF Pending
<1>8. ASSUME NEW j \in DOMAIN u.slots
      PROVE  u.slots[j].done \/ \E n \in us \ {i} : act[n].slot = j
  BY <1>1, <1>3, <1>4, <1>8 DEF Awaited
<1>9. Awaited(u.slots, t.items, act, us \ {i})
  BY <1>1, <1>2, <1>7, <1>8 DEF Awaited
<1>10. Mirrors(u.slots, t.items)
  BY <1>3, <1>6 DEF Mirrors
<1>11. Alike(s.items[k], a.slots[k])
  BY <1>1, <1>3 DEF Mirrors
<1>12. x.kind = s.items[k].kind /\ (x.kind = "message" => x.data = s.items[k].data)
  <2>1. s.items[k].kind = act[i].kind /\ s.items[k].data = Streamed(act[i])
    BY <1>2, <1>11 DEF Pending, Alike
  <2>2. act[i].kind = "message" => Streamed(act[i]) = act[i].parts
    BY DEF Streamed, IsCall
  <2> QED BY <2>1, <2>2
<1>13. Spoken(t.items) = Spoken(s.items)
  BY <1>1, <1>3, <1>12, SpokenSame
<1> QED BY <1>1, <1>9, <1>10, <1>13 DEF Attends
\* The output of a response: items, and all of them when all are done.
DoneSlots(a) == {k \in DOMAIN a.slots : a.slots[k].done}

LEMMA OutputTyped ==
  ASSUME NEW a \in Assembler
  PROVE  Output(a) \in Seq(Item)
<1> DEFINE S == DoneSlots(a)
           N == Cardinality(S)
<1>1. S \in SUBSET (0 .. (Len(a.slots) + 1) - 1) /\ Len(a.slots) + 1 \in Nat
      /\ S \subseteq DOMAIN a.slots /\ \A k \in DOMAIN a.slots : a.slots[k] \in Item
  BY AssemblerIs DEF DoneSlots
<1>2. Output(a) = [n \in 1 .. N |-> a.slots[Nth(S, n)]]
  BY DEF Output, DoneSlots
<1> HIDE DEF S
<1>3. N \in Nat /\ \A n \in 1 .. N : Nth(S, n) \in S
  BY <1>1, NthIs
<1>4. \A n \in 1 .. N : a.slots[Nth(S, n)] \in Item
  BY <1>1, <1>3
<1> HIDE DEF N
<1>5. [n \in 1 .. N |-> a.slots[Nth(S, n)]] \in Seq(Item)
  BY <1>3, <1>4
<1> QED BY <1>2, <1>5

LEMMA NthOfAll ==
  ASSUME NEW n \in Nat, NEW k \in 1 .. n
  PROVE  Nth(1 .. n, k) = k
<1>1. ASSUME NEW x \in 1 .. n PROVE Cardinality({y \in 1 .. n : y < x}) = x - 1
  <2>1. {y \in 1 .. n : y < x} = 1 .. x - 1
    OBVIOUS
  <2>2. Cardinality(1 .. x - 1) = x - 1
    BY FS_Interval
  <2> QED BY <2>1, <2>2
<1>2. \A x \in 1 .. n : Cardinality({y \in 1 .. n : y < x}) = k - 1 <=> x = k
  BY <1>1
<1> QED BY <1>2 DEF Nth

LEMMA OutputWhole ==
  ASSUME NEW a \in Assembler, \A k \in DOMAIN a.slots : a.slots[k].done
  PROVE  Output(a) = a.slots
<1> DEFINE n == Len(a.slots)
<1>1. DOMAIN a.slots = 1 .. n /\ n \in Nat /\ a.slots \in Seq(Item)
  BY AssemblerIs
<1>2. DoneSlots(a) = 1 .. n
  BY <1>1 DEF DoneSlots
<1>3. Cardinality(1 .. n) = n
  BY <1>1, FS_Interval
<1>4. Output(a) = [m \in 1 .. Cardinality(DoneSlots(a)) |-> a.slots[Nth(DoneSlots(a), m)]]
  BY DEF Output, DoneSlots
<1> HIDE DEF n
<1>5. Output(a) = [m \in 1 .. n |-> a.slots[Nth(1 .. n, m)]]
  BY <1>2, <1>3, <1>4, Zenon
<1>6. \A m \in 1 .. n : a.slots[Nth(1 .. n, m)] = a.slots[m]
  BY <1>1, NthOfAll
<1>7. Output(a) = [m \in 1 .. n |-> a.slots[m]]
  BY <1>5, <1>6
<1>8. a.slots = [m \in 1 .. n |-> a.slots[m]]
  BY <1>1
<1> QED BY <1>7, <1>8

\* The final event is told, and nothing more.
LEMMA FinalTold ==
  ASSUME NEW w, NEW r, NEW s, Reads(w, r, s), Listens(s), w.a \in Assembler,
         NEW name \in {"completed", "failed"}
  PROVE  \E t : /\ Reads(Final(w, name), r, t) /\ Final(w, name).a.terminal
                /\ t \in Reader /\ ~ t.strange /\ t.status = name /\ t.items = s.items
                /\ t.output = Output(w.a)
<1> DEFINE e == Closing(name, Output(w.a))
           b == [w.a EXCEPT !.terminal = TRUE]
           t == ReadResponse(s, e)
<1>1. Final(w, name) = Told(w, b, e)
  BY Zenon DEF Final, Closing, Notice, NoKind
<1>2. Output(w.a) \in Seq(Item)
  BY OutputTyped
<1>3. e \in ResponseEvent
  BY <1>2, ClosingIs
<1>4. b.terminal
  BY DEF Assembler
<1>5. /\ t \in Reader /\ ~ t.strange /\ t.status = name /\ t.items = s.items
      /\ t.output = Output(w.a)
  BY <1>2, ReadEnds
<1> HIDE DEF e, b, t
<1>6. Reads(Told(w, b, e), r, ReadResponse(s, e)) /\ Told(w, b, e).a = b
  BY <1>3, ToldReads
<1>7. t = ReadResponse(s, e)
  BY DEF t
<1> QED BY <1>1, <1>4, <1>5, <1>6, <1>7
LEMMA ItselfTwice ==
  ASSUME NEW s \in Reader, NEW t \in Reader, NEW u, NEW k \in DOMAIN s.items, NEW x, NEW y,
         Itself(s, t, k, x), Itself(t, u, k, y)
  PROVE  Itself(s, u, k, y)
<1>1. DOMAIN t.items = DOMAIN s.items
  BY ReaderIs DEF Itself
<1> QED BY <1>1 DEF Itself

\* An item is completed: arguments are sent first, if there are any.
AsDone(w, b) ==
  IF b.kind \in {"function_call", "custom_tool_call"} /\ b.parts # <<>>
  THEN Told(Told(w, w.a, Reply("delta", b.slot, b.kind, b.parts)), w.a,
            Reply("done", b.slot, b.kind, b.parts))
  ELSE Told(w, w.a, Reply("done", b.slot, b.kind, b.parts))

\* The reader knows the item of the block b is complete.
Completed(s, t, b) ==
  /\ Listens(t)
  /\ \E x \in Item : /\ Itself(s, t, b.slot, x) /\ x.kind = b.kind /\ x.data = b.parts
                     /\ x.done

LEMMA ItemDone ==
  ASSUME NEW w, NEW r, NEW s, Reads(w, r, s), Listens(s), NEW b \in ActiveBlock,
         b.slot \in DOMAIN s.items, ~ s.items[b.slot].done, s.items[b.slot].kind = b.kind,
         s.items[b.slot].data = b.parts
  PROVE  LET e == Reply("done", b.slot, b.kind, b.parts)
         IN  /\ Reads(Told(w, w.a, e), r, ReadResponse(s, e)) /\ Told(w, w.a, e).a = w.a
             /\ Completed(s, ReadResponse(s, e), b)
<1> DEFINE e == Reply("done", b.slot, b.kind, b.parts)
           t == ReadResponse(s, e)
           x == [s.items[b.slot] EXCEPT !.done = TRUE]
<1>1. b.kind \in ItemKind /\ b.parts \in Seq(Nat)
  BY DEF ActiveBlock
<1>2. /\ e \in ResponseEvent /\ Listens(t) /\ Itself(s, t, b.slot, x) /\ x \in Item
      /\ x.kind = s.items[b.slot].kind /\ x.data = b.parts /\ x.done
  BY <1>1, ReadDone
<1> HIDE DEF e, t, x
<1>3. Completed(s, t, b)
  BY <1>2 DEF Completed
<1>4. Reads(Told(w, w.a, e), r, ReadResponse(s, e)) /\ Told(w, w.a, e).a = w.a
  BY <1>2, ToldReads
<1>5. t = ReadResponse(s, e)
  BY DEF t
<1> QED BY <1>3, <1>4, <1>5 DEF e

LEMMA AsDoneTold ==
  ASSUME NEW w, NEW r, NEW s, Reads(w, r, s), Listens(s), NEW b \in ActiveBlock,
         b.slot \in DOMAIN s.items, ~ s.items[b.slot].done, s.items[b.slot].kind = b.kind,
         s.items[b.slot].data = Streamed(b)
  PROVE  \E t : Reads(AsDone(w, b), r, t) /\ AsDone(w, b).a = w.a /\ Completed(s, t, b)
<1> DEFINE first == Reply("delta", b.slot, b.kind, b.parts)
           e == Reply("done", b.slot, b.kind, b.parts)
           m == ReadResponse(s, first)
           v == Told(w, w.a, first)
<1>1. b.kind \in ItemKind /\ b.parts \in Seq(Nat) /\ s \in Reader
  BY DEF ActiveBlock, Listens
<1>2. CASE IsCall(b.kind) /\ b.parts # <<>>
  <2>0. first \in ResponseEvent /\ GrewBy(s, m, b.slot, b.parts)
    BY <1>1, ReadDelta
  <2>1. PICK x \in Item : /\ first \in ResponseEvent /\ Listens(m) /\ ~ x.done
                         /\ Itself(s, m, b.slot, x) /\ x.kind = s.items[b.slot].kind
                         /\ x.data = s.items[b.slot].data \o b.parts
    BY <2>0 DEF GrewBy
  <2>2. x.data = b.parts
    <3>1. s.items[b.slot].data = <<>>
      BY <1>2 DEF Streamed
    <3>2. <<>> \o b.parts = b.parts
      BY <1>1
    <3> QED BY <2>1, <3>1, <3>2
  <2> HIDE DEF first, m
  <2>3. Reads(Told(w, w.a, first), r, ReadResponse(s, first)) /\ v.a = w.a
    BY <2>1, ToldReads
  <2>4. Reads(v, r, m)
    BY <2>3 DEF m
  <2>5. m \in Reader /\ b.slot \in DOMAIN m.items /\ m.items[b.slot] = x
    BY <1>1, <2>1, ReaderIs DEF Itself, Listens
  <2> HIDE DEF v
  <2>6. /\ Reads(Told(v, v.a, e), r, ReadResponse(m, e)) /\ Told(v, v.a, e).a = v.a
        /\ Completed(m, ReadResponse(m, e), b)
    BY <2>1, <2>2, <2>4, <2>5, ItemDone
  <2>7. Completed(s, ReadResponse(m, e), b)
    <3>1. PICK y \in Item : /\ Itself(m, ReadResponse(m, e), b.slot, y) /\ y.kind = b.kind
                            /\ y.data = b.parts /\ y.done /\ Listens(ReadResponse(m, e))
      BY <2>6 DEF Completed
    <3>2. Itself(s, ReadResponse(m, e), b.slot, y)
      BY <1>1, <2>1, <2>5, <3>1, ItselfTwice
    <3> QED BY <3>1, <3>2 DEF Completed
  <2>8. AsDone(w, b) = Told(v, v.a, e)
    BY <1>2, <2>3 DEF AsDone, IsCall, v, first
  <2> QED BY <2>3, <2>6, <2>7, <2>8
<1>3. CASE ~ (IsCall(b.kind) /\ b.parts # <<>>)
  <2>1. s.items[b.slot].data = b.parts
    BY <1>3 DEF Streamed
  <2>2. AsDone(w, b) = Told(w, w.a, e)
    BY <1>3 DEF AsDone, IsCall
  <2>3. /\ Reads(Told(w, w.a, e), r, ReadResponse(s, e)) /\ Told(w, w.a, e).a = w.a
        /\ Completed(s, ReadResponse(s, e), b)
    BY <2>1, ItemDone
  <2> QED BY <2>2, <2>3
<1> QED BY <1>2, <1>3

\* A block is completed: its item is committed and told, or the response fails.
Advances(w, v, s, act, us, r) ==
  \E t : /\ Reads(v, r, t)
         /\ \/ FailedReply(v.a, t)
            \/ /\ Attends(v.a, t, act, us) /\ v.a.active = w.a.active
               /\ Spoken(t.items) = Spoken(s.items)

LEMMA CompleteTold ==
  ASSUME NEW w, NEW r, NEW s, Reads(w, r, s), NEW act, NEW us, Attends(w.a, s, act, us),
         NEW i \in us
  PROVE  Advances(w, Complete(w, act[i]), s, act, us \ {i}, r)
<1> DEFINE b == act[i]
           y == [kind |-> b.kind, data |-> b.parts, done |-> TRUE]
           slots == [w.a.slots EXCEPT ![b.slot] = y]
           u == [w.a EXCEPT !.slots = slots]
           v == [w EXCEPT !.a.slots[b.slot] = y]
           invalid == b.kind = "function_call" /\ ~ ArgumentsValid(b.parts)
<1>1. /\ w.a \in Assembler /\ act \in Partial(ActiveBlock) /\ Listens(s) /\ s \in Reader
      /\ ~ w.a.terminal /\ w.a.started /\ Mirrors(w.a.slots, s.items)
      /\ Awaited(w.a.slots, s.items, act, us)
  BY DEF Attends, Listens
<1>2. i \in DOMAIN act /\ Pending(w.a.slots, s.items, b)
  BY <1>1 DEF Awaited
<1>3. b \in ActiveBlock /\ b.kind \in ItemKind /\ b.parts \in Seq(Nat)
  BY <1>1, <1>2, ActiveIs
<1>4. /\ b.slot \in DOMAIN w.a.slots /\ b.slot \in DOMAIN s.items
      /\ Alike(s.items[b.slot], w.a.slots[b.slot])
  BY <1>1, <1>2, ReaderIs, AssemblerIs DEF Pending, Mirrors
<1>5. /\ ~ s.items[b.slot].done /\ s.items[b.slot].kind = b.kind
      /\ s.items[b.slot].data = Streamed(b)
  BY <1>2, <1>4 DEF Pending, Alike
<1>6. CASE invalid
  <2>1. Complete(w, b) = Final(w, "failed")
    BY <1>6, Zenon DEF Complete
  <2>2. \E t : /\ Reads(Final(w, "failed"), r, t) /\ Final(w, "failed").a.terminal
               /\ t \in Reader /\ ~ t.strange /\ t.status = "failed"
    BY <1>1, FinalTold
  <2> QED BY <2>1, <2>2, Zenon DEF Advances, FailedReply
<1>7. CASE ~ invalid
  <2>1. Complete(w, b) = AsDone(v, b)
    BY <1>7, Zenon DEF Complete, AsDone
  <2>2. w = [a |-> w.a, said |-> w.said] /\ w.said \in Seq(ResponseEvent)
        /\ s = ReadAll(r, w.said)
    BY DEF Reads
  <2>3. w.a.slots \in Seq(Item)
    BY <1>1, AssemblerIs
  <2>4. v.a = u /\ v.said = w.said /\ v = [a |-> v.a, said |-> v.said]
    <3>1. v = [w EXCEPT !.a = u]
      OBVIOUS
    <3>2. ASSUME NEW z
          PROVE  [w EXCEPT !.a = z] = [a |-> z, said |-> w.said]
      BY <2>2
    <3> HIDE DEF u, v
    <3> QED BY <3>1, <3>2
  <2>5. y \in Item /\ y.kind = b.kind /\ y.data = b.parts /\ y.done
    BY <1>3 DEF Item
  <2>6. Replayable(y)
    BY <1>7 DEF Replayable
  <2> HIDE DEF y
  <2>7. Committed(w.a.slots, b.slot, y, slots)
    BY <1>4, <2>3, <2>5, CommittedIs
  <2> HIDE DEF slots
  <2>8. /\ u \in Assembler /\ u.slots = slots /\ u.started /\ ~ u.terminal
        /\ u.active = w.a.active
    BY <1>1, <2>7 DEF Committed, Assembler
  <2> HIDE DEF u, v
  <2>9. Reads(v, r, s)
    BY <2>2, <2>4 DEF Reads
  <2>10. PICK t : Reads(AsDone(v, b), r, t) /\ AsDone(v, b).a = v.a /\ Completed(s, t, b)
    BY <1>1, <1>3, <1>4, <1>5, <2>9, AsDoneTold
  <2>11. PICK x \in Item : /\ Itself(s, t, b.slot, x) /\ x.kind = b.kind /\ x.data = b.parts
                           /\ x.done /\ Listens(t)
    BY <2>10 DEF Completed
  <2>12. Attends(u, t, act, us \ {i}) /\ Spoken(t.items) = Spoken(s.items)
    BY <2>5, <2>6, <2>7, <2>8, <2>11, DoneAttends
  <2> QED BY <2>1, <2>4, <2>8, <2>10, <2>12, Zenon DEF Advances
<1> QED BY <1>6, <1>7
LEMMA WithAssembler ==
  ASSUME NEW w, NEW r, NEW s, Reads(w, r, s), NEW a
  PROVE  Reads([w EXCEPT !.a = a], r, s) /\ [w EXCEPT !.a = a].a = a
<1>1. /\ w = [a |-> w.a, said |-> w.said] /\ w.said \in Seq(ResponseEvent)
      /\ s = ReadAll(r, w.said)
  BY DEF Reads
<1> DEFINE v == [w EXCEPT !.a = a]
<1>2. v.a = a /\ v.said = w.said /\ v = [a |-> v.a, said |-> v.said]
  BY <1>1
<1> HIDE DEF v
<1>3. Reads(v, r, s) /\ v.a = a
  BY <1>1, <1>2 DEF Reads
<1> QED BY <1>3 DEF v

\* Only the awaited blocks count, and only the slots of the assembler.
LEMMA AttendsLike ==
  ASSUME NEW a, NEW s, NEW act, NEW us, Attends(a, s, act, us),
         NEW b \in Assembler, b.slots = a.slots, b.terminal = a.terminal, b.started = a.started,
         NEW f \in Partial(ActiveBlock), us \subseteq DOMAIN f, \A i \in us : f[i] = act[i]
  PROVE  Attends(b, s, f, us)
<1>1. Awaited(a.slots, s.items, f, us)
  BY DEF Attends, Awaited
<1> QED BY <1>1 DEF Attends

LEMMA WithActive ==
  ASSUME NEW a \in Assembler, NEW f \in Partial(ActiveBlock)
  PROVE  LET b == [a EXCEPT !.active = f]
         IN  /\ b \in Assembler /\ b.active = f /\ b.slots = a.slots
             /\ b.terminal = a.terminal /\ b.started = a.started
BY DEF Assembler

\* The assembler and the reader between two events: every active block is awaited.
Current(a, s) == Attends(a, s, a.active, DOMAIN a.active)

Without(f, i) == [j \in DOMAIN f \ {i} |-> f[j]]
LEMMA WithoutIn ==
  ASSUME NEW V, NEW f \in Partial(V), NEW i
  PROVE  Without(f, i) \in Partial(V) /\ DOMAIN Without(f, i) = DOMAIN f \ {i}
         /\ \A j \in DOMAIN f \ {i} : Without(f, i)[j] = f[j]
<1>1. DOMAIN f \subseteq Nat /\ f \in [DOMAIN f -> V]
  BY PartialIs
<1> DEFINE g == Without(f, i)
<1>2. /\ DOMAIN g = DOMAIN f \ {i} /\ \A j \in DOMAIN f \ {i} : g[j] = f[j]
      /\ g \in [DOMAIN g -> V]
  BY <1>1 DEF Without
<1> HIDE DEF g
<1>3. g \in Partial(V)
  BY <1>1, <1>2, PartialIs
<1> QED BY <1>2, <1>3 DEF g

\* After a work, the response has failed or goes on with the active blocks act, and the
\* client has read words so far.
GoesOn(v, r, act, words) ==
  \E t : /\ Reads(v, r, t)
         /\ \/ FailedReply(v.a, t)
            \/ Current(v.a, t) /\ v.a.active = act /\ Spoken(t.items) = words

LEMMA CompleteAtTold ==
  ASSUME NEW w, NEW r, NEW s, Reads(w, r, s), Current(w.a, s), NEW i \in DOMAIN w.a.active
  PROVE  GoesOn(CompleteAt(w, i), r, Without(w.a.active, i), Spoken(s.items))
<1> DEFINE act == w.a.active
           us == DOMAIN act
           f == Without(act, i)
           a == Idle(w.a, i)
           w0 == [w EXCEPT !.a = a]
           v == Complete(w0, act[i])
<1>1. w.a \in Assembler /\ act \in Partial(ActiveBlock) /\ Attends(w.a, s, act, us)
  BY DEF Current, Attends
<1>2. a = [w.a EXCEPT !.active = f]
  BY Zenon DEF Idle, Without
<1>3. CompleteAt(w, i) = v
  BY Zenon DEF CompleteAt
<1>4. /\ f \in Partial(ActiveBlock) /\ DOMAIN f = us \ {i}
      /\ \A j \in us \ {i} : f[j] = act[j]
  BY <1>1, WithoutIn
<1> HIDE DEF f, a
<1>5. /\ a \in Assembler /\ a.active = f /\ a.slots = w.a.slots
      /\ a.terminal = w.a.terminal /\ a.started = w.a.started
  BY <1>1, <1>2, <1>4, WithActive
<1>6. Reads(w0, r, s) /\ w0.a = a
  BY WithAssembler
<1> HIDE DEF w0
<1>7. Attends(w0.a, s, act, us)
  <2> HIDE DEF act
  <2> QED BY <1>1, <1>5, <1>6, AttendsLike
<1> HIDE DEF act
<1>8. Advances(w0, v, s, act, us \ {i}, r)
  BY <1>6, <1>7, CompleteTold DEF act
<1> HIDE DEF v
<1>9. PICK t : /\ Reads(v, r, t)
               /\ \/ FailedReply(v.a, t)
                  \/ /\ Attends(v.a, t, act, us \ {i}) /\ v.a.active = w0.a.active
                     /\ Spoken(t.items) = Spoken(s.items)
  BY <1>8, Zenon DEF Advances
<1>10. CASE FailedReply(v.a, t)
  BY <1>3, <1>9, <1>10, Zenon DEF GoesOn
<1>11. CASE /\ Attends(v.a, t, act, us \ {i}) /\ v.a.active = w0.a.active
            /\ Spoken(t.items) = Spoken(s.items)
  <2>1. v.a.active = f /\ v.a \in Assembler
    BY <1>5, <1>6, <1>11 DEF Attends
  <2>2. Attends(v.a, t, f, us \ {i})
    BY <1>4, <1>11, <2>1, AttendsLike
  <2>3. Current(v.a, t)
    BY <1>4, <2>1, <2>2, Zenon DEF Current
  <2> QED BY <1>3, <1>9, <1>11, <2>1, <2>3, Zenon DEF GoesOn, f, act
<1> QED BY <1>9, <1>10, <1>11
LEMMA AppendedIs ==
  ASSUME NEW slots \in Seq(Item), NEW y \in Item
  PROVE  LET n == Len(slots) + 1
             out == Append(slots, y)
         IN  /\ out \in Seq(Item) /\ Len(out) = n /\ n \in Nat
             /\ n \notin DOMAIN slots /\ DOMAIN out = DOMAIN slots \cup {n}
             /\ out[n] = y /\ \A k \in DOMAIN slots : out[k] = slots[k]
OBVIOUS

\* A new block on both sides, with nothing in it yet.
LEMMA NewAttends ==
  ASSUME NEW a, NEW s, NEW act, NEW us, Attends(a, s, act, us), NEW i, i \notin us,
         NEW f \in Partial(ActiveBlock), us \cup {i} \subseteq DOMAIN f,
         \A j \in us : f[j] = act[j],
         NEW y \in Item, y.kind = f[i].kind, ~ y.done, f[i].slot = Len(a.slots) + 1,
         y.data = Streamed(f[i]),
         NEW u \in Assembler, u.started, ~ u.terminal, u.slots = Append(a.slots, y),
         NEW t, Listens(t), t.items = Append(s.items, y)
  PROVE  Attends(u, t, f, us \cup {i})
<1> DEFINE n == Len(a.slots) + 1
<1>1. /\ Mirrors(a.slots, s.items) /\ Awaited(a.slots, s.items, act, us)
      /\ s \in Reader /\ a \in Assembler
  BY DEF Attends, Listens
<1>2. a.slots \in Seq(Item) /\ s.items \in Seq(Item) /\ Len(s.items) + 1 = n
      /\ DOMAIN s.items = DOMAIN a.slots
  BY <1>1, ReaderIs, AssemblerIs DEF Mirrors
<1>3. /\ Len(u.slots) = n /\ n \notin DOMAIN a.slots /\ DOMAIN u.slots = DOMAIN a.slots \cup {n}
      /\ u.slots[n] = y /\ \A k \in DOMAIN a.slots : u.slots[k] = a.slots[k]
  BY <1>2, AppendedIs
<1>4. /\ Len(t.items) = n /\ t.items[n] = y
      /\ \A k \in DOMAIN a.slots : t.items[k] = s.items[k]
  BY <1>2, AppendedIs
<1> HIDE DEF n
<1>5. \A j \in us : Pending(a.slots, s.items, act[j])
  BY <1>1 DEF Awaited
<1>6. \A j \in us : Pending(u.slots, t.items, f[j])
  BY <1>3, <1>4, <1>5 DEF Pending
<1>7. Pending(u.slots, t.items, f[i])
  BY <1>3, <1>4 DEF Pending, n
<1>8. \A j \in us : f[j].slot \in DOMAIN a.slots
  BY <1>5 DEF Pending
<1>9. \A j, k \in us \cup {i} : f[j].slot = f[k].slot => j = k
  <2>1. f[i].slot = n
    BY DEF n
  <2>2. \A j, k \in us : f[j].slot = f[k].slot => j = k
    BY <1>1 DEF Awaited
  <2> QED BY <1>3, <1>8, <2>1, <2>2
<1>10. \A k \in DOMAIN u.slots : u.slots[k].done \/ \E j \in us \cup {i} : f[j].slot = k
  <2>1. \A k \in DOMAIN a.slots : a.slots[k].done \/ \E j \in us : act[j].slot = k
    BY <1>1 DEF Awaited
  <2> QED BY <1>3, <2>1 DEF n
<1>11. Awaited(u.slots, t.items, f, us \cup {i})
  BY <1>6, <1>7, <1>9, <1>10 DEF Awaited
<1>12. Mirrors(u.slots, t.items)
  <2>1. \A k \in DOMAIN a.slots : Alike(s.items[k], a.slots[k])
    BY <1>1 DEF Mirrors
  <2>2. Alike(y, y)
    BY DEF Alike
  <2> QED BY <1>3, <1>4, <2>1, <2>2 DEF Mirrors
<1> QED BY <1>11, <1>12 DEF Attends

LEMMA KindOfIs ==
  ASSUME NEW i, NEW type \in BlockType
  PROVE  /\ KindOf(type, i) \in ItemKind
         /\ KindOf(type, i) = "message" <=> type = "text"
         /\ IsCall(KindOf(type, i)) <=> type = "tool_use"
BY DEF KindOf, ItemKind, BlockType, IsCall

LEMMA ItemStartTold ==
  ASSUME NEW w, NEW r, NEW s, Reads(w, r, s), Current(w.a, s), NEW i \in Nat,
         i \notin DOMAIN w.a.active, NEW type \in BlockType
  PROVE  \E b \in ActiveBlock :
           /\ b.kind = KindOf(type, i)
           /\ GoesOn(Start(w, i, type), r, Put(w.a.active, i, b), Spoken(s.items))
<1> DEFINE act == w.a.active
           slot == Len(w.a.slots) + 1
           kind == KindOf(type, i)
           y == [kind |-> kind, data |-> <<>>, done |-> FALSE]
           b == [kind |-> kind, slot |-> slot, parts |-> <<>>]
           f == Put(act, i, b)
           e == Reply("added", slot, kind, <<>>)
           slots == Append(w.a.slots, y)
           u == [w.a EXCEPT !.slots = slots, !.active = f]
           t == ReadResponse(s, e)
<1>1. /\ w.a \in Assembler /\ act \in Partial(ActiveBlock) /\ Attends(w.a, s, act, DOMAIN act)
      /\ ~ w.a.terminal /\ w.a.started /\ Listens(s) /\ s \in Reader /\ w.a.slots \in Seq(Item)
      /\ slot = Len(s.items) + 1 /\ slot \in Nat /\ s.items \in Seq(Item)
  BY ReaderIs, AssemblerIs DEF Current, Attends, Listens, Mirrors
<1>2. kind \in ItemKind
  BY KindOfIs
<1>3. Start(w, i, type) = Told(w, u, e)
  <2>1. CompleteAt(w, i) = w
    BY DEF CompleteAt
  <2> QED BY <1>1, <2>1, Zenon DEF Start
<1>4. /\ y \in Item /\ y.kind = kind /\ y.data = <<>> /\ ~ y.done
      /\ b \in ActiveBlock /\ b.kind = kind /\ b.slot = slot /\ b.parts = <<>>
  BY <1>1, <1>2 DEF Item, ActiveBlock
<1>5. e \in ResponseEvent /\ Listens(t) /\ t.items = Append(s.items, y)
  BY <1>1, <1>2, ReadAdded
<1>6. Range(y.data) = {}
  <2>1. DOMAIN <<>> = {}
    OBVIOUS
  <2> QED BY <1>4, <2>1 DEF Range
<1> HIDE DEF y, b, t, kind, e
<1>7. /\ f \in Partial(ActiveBlock) /\ DOMAIN f = DOMAIN act \cup {i} /\ f[i] = b
      /\ \A x \in DOMAIN act \ {i} : f[x] = act[x]
  <2>1. act \in Partial(ActiveBlock) /\ b \in ActiveBlock
    BY <1>1, <1>4
  <2> HIDE DEF act
  <2>2. Put(act, i, b) \in Partial(ActiveBlock)
    BY <2>1, PutIn
  <2>3. /\ DOMAIN Put(act, i, b) = DOMAIN act \cup {i}
        /\ Put(act, i, b)[i] = b /\ \A x \in DOMAIN act \ {i} : Put(act, i, b)[x] = act[x]
    BY DEF Put
  <2> QED BY <2>2, <2>3
<1>8. Spoken(t.items) = Spoken(s.items)
  BY <1>1, <1>4, <1>5, <1>6, SpokenAdded
<1>9. slots \in Seq(Item)
  BY <1>1, <1>4
<1> HIDE DEF f, slots, slot
<1>10. /\ u \in Assembler /\ u.slots = slots /\ u.active = f
       /\ u.terminal = w.a.terminal /\ u.started = w.a.started
  BY <1>1, <1>7, <1>9 DEF Assembler
<1> HIDE DEF u
<1>11. y.data = Streamed(f[i])
  BY <1>4, <1>7 DEF Streamed
<1>12. Attends(u, t, f, DOMAIN act \cup {i})
  <2>1. u.slots = Append(w.a.slots, y) /\ f[i].slot = Len(w.a.slots) + 1
    BY <1>4, <1>7, <1>10 DEF slots, slot
  <2>2. u.started /\ ~ u.terminal /\ y.kind = f[i].kind
    BY <1>1, <1>4, <1>7, <1>10
  <2>3. /\ Attends(w.a, s, act, DOMAIN act) /\ i \notin DOMAIN act
        /\ DOMAIN act \cup {i} \subseteq DOMAIN f /\ \A j \in DOMAIN act : f[j] = act[j]
    BY <1>1, <1>7
  <2> HIDE DEF act
  <2> QED BY <1>4, <1>5, <1>7, <1>10, <1>11, <2>1, <2>2, <2>3, NewAttends
<1>13. Current(u, t)
  BY <1>7, <1>10, <1>12 DEF Current
<1>14. Reads(Told(w, u, e), r, ReadResponse(s, e)) /\ Told(w, u, e).a = u
  BY <1>5, ToldReads
<1>15. GoesOn(Start(w, i, type), r, f, Spoken(s.items))
  BY <1>3, <1>8, <1>10, <1>13, <1>14, Zenon DEF GoesOn, t
<1> QED BY <1>4, <1>15 DEF f, kind
\* A block grows: its item has what was sent of it.
Regrown(f, act, i) ==
  /\ f \in Partial(ActiveBlock) /\ DOMAIN f = DOMAIN act
  /\ \A j \in DOMAIN act \ {i} : f[j] = act[j]
  /\ f[i].kind = act[i].kind /\ f[i].slot = act[i].slot
InStepWith(s, t, b) ==
  /\ Listens(t)
  /\ \E x \in Item : /\ Itself(s, t, b.slot, x) /\ ~ x.done /\ x.kind = b.kind
                     /\ x.data = Streamed(b)

LEMMA GrownAttends ==
  ASSUME NEW a, NEW s, NEW act, NEW us, Attends(a, s, act, us), NEW i \in us,
         NEW f, Regrown(f, act, i), NEW t, InStepWith(s, t, f[i]),
         NEW b \in Assembler, b.slots = a.slots, b.started, ~ b.terminal
  PROVE  Attends(b, t, f, us)
<1> DEFINE k == f[i].slot
<1>0. PICK x \in Item : /\ Itself(s, t, f[i].slot, x) /\ ~ x.done /\ x.kind = f[i].kind
                        /\ x.data = Streamed(f[i]) /\ Listens(t)
  BY DEF InStepWith
<1> USE <1>0 DEF Regrown
<1>1. /\ Mirrors(a.slots, s.items) /\ Awaited(a.slots, s.items, act, us)
      /\ s \in Reader /\ a \in Assembler
  BY DEF Attends, Listens
<1>2. Pending(a.slots, s.items, act[i]) /\ DOMAIN s.items = DOMAIN a.slots
  BY <1>1, ReaderIs, AssemblerIs DEF Awaited, Mirrors
<1>3. k \in DOMAIN a.slots /\ ~ a.slots[k].done /\ a.slots[k].kind = f[i].kind
  BY <1>2 DEF Pending
<1>4. /\ t.items[k] = x /\ \A j \in DOMAIN a.slots \ {k} : t.items[j] = s.items[j]
      /\ Len(t.items) = Len(a.slots)
  BY <1>1, <1>2 DEF Itself, Mirrors
<1>5. \A j \in us \ {i} : Pending(a.slots, s.items, act[j]) /\ act[j].slot # k
  BY <1>1 DEF Awaited
<1>6. us \subseteq DOMAIN act
  BY <1>1 DEF Awaited
<1>7. \A j \in us \ {i} : Pending(a.slots, t.items, f[j])
  BY <1>4, <1>5, <1>6 DEF Pending
<1>8. Pending(a.slots, t.items, f[i])
  BY <1>3, <1>4 DEF Pending
<1>9. \A j \in us : f[j].slot = act[j].slot
  BY <1>6
<1>10. Awaited(a.slots, t.items, f, us)
  BY <1>1, <1>6, <1>7, <1>8, <1>9 DEF Awaited
<1>11. Alike(x, a.slots[k])
  <2>1. x.done = a.slots[k].done
    <3>1. x.done \in BOOLEAN /\ a.slots[k].done \in BOOLEAN
      BY <1>1, <1>3, AssemblerIs DEF Item
    <3> QED BY <1>3, <3>1
  <2> QED BY <1>3, <2>1 DEF Alike
<1>12. Mirrors(a.slots, t.items)
  BY <1>1, <1>4, <1>11 DEF Mirrors
<1> QED BY <1>10, <1>12 DEF Attends

LEMMA ItemGrowTold ==
  ASSUME NEW w, NEW r, NEW s, Reads(w, r, s), Current(w.a, s), NEW i \in DOMAIN w.a.active,
         NEW type \in BlockType, w.a.active[i].kind = KindOf(type, i), NEW data \in Seq(Nat)
  PROVE  \E b \in ActiveBlock :
           /\ b.kind = KindOf(type, i)
           /\ GoesOn(Grow(w, i, type, data), r, [w.a.active EXCEPT ![i] = b],
                     IF type = "text" THEN Spoken(s.items) \cup Range(data) ELSE Spoken(s.items))
<1> DEFINE act == w.a.active
           k == act[i].slot
           kind == KindOf(type, i)
           parts == act[i].parts \o data
           b == [act[i] EXCEPT !.parts = parts]
           f == [act EXCEPT ![i] = b]
           a == [w.a EXCEPT !.active = f]
           u == [w EXCEPT !.a = a]
           e == Reply("delta", k, kind, data)
           words == IF type = "text" THEN Spoken(s.items) \cup Range(data) ELSE Spoken(s.items)
<1>1. /\ w.a \in Assembler /\ act \in Partial(ActiveBlock) /\ Attends(w.a, s, act, DOMAIN act)
      /\ ~ w.a.terminal /\ w.a.started /\ Listens(s) /\ s \in Reader
      /\ Mirrors(w.a.slots, s.items) /\ Awaited(w.a.slots, s.items, act, DOMAIN act)
  BY DEF Current, Attends, Listens
<1>2. /\ act[i] \in ActiveBlock /\ act[i].kind = kind /\ k \in Nat /\ act[i].parts \in Seq(Nat)
      /\ kind \in ItemKind /\ DOMAIN act \subseteq Nat
  BY <1>1, ActiveIs, KindOfIs
<1>3. /\ k \in DOMAIN s.items /\ ~ s.items[k].done /\ s.items[k].kind = kind
      /\ s.items[k].data = Streamed(act[i]) /\ s.items[k] \in Item
  <2>1. Pending(w.a.slots, s.items, act[i])
    BY <1>1 DEF Awaited
  <2>2. k \in DOMAIN w.a.slots /\ k \in DOMAIN s.items /\ Alike(s.items[k], w.a.slots[k])
    BY <1>1, <2>1, ReaderIs, AssemblerIs DEF Pending, Mirrors
  <2> QED BY <1>1, <1>2, <2>1, <2>2, ReaderIs DEF Pending, Alike
<1>4. parts \in Seq(Nat)
  BY <1>2
<1> HIDE DEF parts
<1>5. b \in ActiveBlock /\ b.kind = kind /\ b.slot = k /\ b.parts = parts
  BY <1>2, <1>4 DEF ActiveBlock
<1> HIDE DEF b
<1>6. DOMAIN f = DOMAIN act /\ f[i] = b /\ \A j \in DOMAIN act \ {i} : f[j] = act[j]
  OBVIOUS
<1>7. f \in Partial(ActiveBlock)
  <2>1. act \in [DOMAIN act -> ActiveBlock] /\ DOMAIN act \subseteq Nat
    BY <1>1, PartialIs
  <2>2. f \in [DOMAIN act -> ActiveBlock] /\ DOMAIN f \subseteq Nat
    BY <1>5, <2>1
  <2> HIDE DEF f
  <2> QED BY <1>6, <2>2, PartialIs
<1>8. IF type = "tool_use" THEN Grow(w, i, type, data) = u
      ELSE Grow(w, i, type, data) = DeltaTold(u, u.a.active[i].slot, kind, data)
  BY <1>1, <1>2, Zenon DEF Grow, f, a, u, b, parts
<1> HIDE DEF f
<1>9. /\ a \in Assembler /\ a.active = f /\ a.slots = w.a.slots /\ a.started /\ ~ a.terminal
  BY <1>1, <1>7, WithActive
<1> HIDE DEF a
<1>10. Reads(u, r, s) /\ u.a = a
  BY WithAssembler
<1> HIDE DEF u
<1>11. f[i].kind = act[i].kind /\ f[i].slot = act[i].slot
  BY <1>2, <1>5, <1>6
<1>12. Regrown(f, act, i)
  BY <1>6, <1>7, <1>11, Zenon DEF Regrown
<1>13. CASE type = "tool_use"
  <2>1. IsCall(kind)
    BY <1>13, KindOfIs
  <2>2. s.items[k].data = Streamed(f[i])
    BY <1>2, <1>3, <1>5, <1>6, <2>1 DEF Streamed
  <2>3. f[i].slot = k /\ Itself(s, s, f[i].slot, s.items[k]) /\ s.items[k].kind = f[i].kind
    BY <1>2, <1>3, <1>11 DEF Itself
  <2>4. Attends(a, s, f, DOMAIN act)
    <3>1. InStepWith(s, s, f[i])
      BY <1>1, <1>3, <2>2, <2>3, Zenon DEF InStepWith
    <3> HIDE DEF act
    <3> QED BY <1>1, <1>9, <1>12, <3>1, GrownAttends DEF act
  <2>5. Current(a, s)
    BY <1>6, <1>9, <2>4 DEF Current
  <2>6. GoesOn(u, r, f, Spoken(s.items))
    BY <1>9, <1>10, <2>5 DEF GoesOn
  <2>7. words = Spoken(s.items) /\ Grow(w, i, type, data) = u
    BY <1>8, <1>13
  <2> QED BY <1>5, <2>6, <2>7 DEF f
<1>14. CASE type # "tool_use"
  <2> DEFINE t == ReadResponse(s, e)
  <2>1. e \in ResponseEvent /\ GrewBy(s, t, k, data)
    BY <1>1, <1>2, <1>3, ReadDelta
  <2> HIDE DEF e, t
  <2>2. PICK x \in Item : /\ Itself(s, t, k, x) /\ ~ x.done /\ x.kind = s.items[k].kind
                         /\ x.data = s.items[k].data \o data /\ Listens(t)
    BY <2>1, Zenon DEF GrewBy
  <2>3. ~ IsCall(kind)
    BY <1>14, KindOfIs
  <2>4. s.items[k].data = act[i].parts /\ Streamed(b) = b.parts
    BY <1>2, <1>3, <1>5, <2>3 DEF Streamed
  <2>5. x.data = Streamed(f[i])
    BY <1>5, <1>6, <2>2, <2>4, Zenon DEF parts
  <2>6. Attends(a, t, f, DOMAIN act)
    <3>1. f[i].slot = k /\ Itself(s, t, f[i].slot, x) /\ x.kind = f[i].kind
      BY <1>2, <1>3, <1>11, <2>2
    <3>2. InStepWith(s, t, f[i])
      BY <2>2, <2>5, <3>1, Zenon DEF InStepWith
    <3> HIDE DEF act
    <3> QED BY <1>1, <1>9, <1>12, <3>2, GrownAttends DEF act
  <2>7. Current(a, t)
    BY <1>6, <1>9, <2>6 DEF Current
  <2>8. Spoken(t.items) = words
    <3>1. t \in Reader /\ x.kind = kind
      BY <1>3, <2>2 DEF Listens
    <3>2. CASE type = "text"
      <4>1. kind = "message"
        BY <3>2, KindOfIs
      <4>2. Spoken(t.items) = Spoken(s.items) \cup Range(data)
        <5>1. s.items[k].kind = "message" /\ s \in Reader /\ k \in DOMAIN s.items
          BY <1>1, <1>3, <4>1
        <5> HIDE DEF k
        <5> QED BY <2>1, <5>1, SpokenMore
      <4> QED BY <3>2, <4>2
    <3>3. CASE type # "text"
      <4>1. kind # "message"
        BY <3>3, KindOfIs
      <4>2. Spoken(t.items) = Spoken(s.items)
        BY <1>1, <1>3, <2>2, <3>1, <4>1, SpokenSame
      <4> QED BY <3>3, <4>2
    <3> QED BY <3>2, <3>3
  <2>9. Grow(w, i, type, data) = Told(u, u.a, e)
    <3>1. u.a.active[i].slot = k
      BY <1>5, <1>6, <1>9, <1>10
    <3> QED BY <1>8, <1>14, <3>1 DEF DeltaTold, e
  <2>10. Reads(Told(u, u.a, e), r, ReadResponse(s, e)) /\ Told(u, u.a, e).a = u.a
    BY <1>10, <2>1, ToldReads
  <2>11. GoesOn(Told(u, u.a, e), r, f, words)
    BY <1>9, <1>10, <2>7, <2>8, <2>10 DEF GoesOn, t
  <2> QED BY <1>5, <2>9, <2>11 DEF f
<1> QED BY <1>13, <1>14
\* The blocks in the order of their slots.
SlotsOf(act) == {act[i].slot : i \in DOMAIN act}
NthBlock(act, k) == act[InSlot(act, Nth(SlotsOf(act), k))]

LEMMA FlushIs ==
  ASSUME NEW w, NEW N \in Nat, N = Cardinality(SlotsOf(w.a.active))
  PROVE  \E g : /\ g[0] = [w EXCEPT !.a.active = <<>>] /\ Flush(w) = g[N]
                /\ \A k \in 1 .. N : g[k] = FlushNext(g[k - 1], NthBlock(w.a.active, k))
<1> DEFINE first == [w EXCEPT !.a.active = <<>>]
           at(k) == NthBlock(w.a.active, k)
           f == CHOOSE g : g = [k \in 0 .. N |-> IF k = 0 THEN first ELSE FlushNext(g[k - 1], at(k))]
<1>1. Flush(w) = f[N]
  BY DEF Flush, SlotsOf, NthBlock
<1> HIDE DEF first, at
<1>2. \E g : g = [k \in 0 .. N |-> IF k = 0 THEN first ELSE FlushNext(g[k - 1], at(k))]
  <2> DEFINE T == {q \in Nat : \E g : g = [k \in 0 .. q |-> IF k = 0 THEN first
                                                     ELSE FlushNext(g[k - 1], at(k))]}
  <2>1. 0 \in T
    <3> DEFINE g == [k \in 0 .. 0 |-> first]
    <3>1. g = [k \in 0 .. 0 |-> IF k = 0 THEN first ELSE FlushNext(g[k - 1], at(k))]
      OBVIOUS
    <3> HIDE DEF g
    <3> QED BY <3>1
  <2>2. ASSUME NEW q \in Nat, q \in T PROVE q + 1 \in T
    <3>1. PICK g : g = [k \in 0 .. q |-> IF k = 0 THEN first ELSE FlushNext(g[k - 1], at(k))]
      BY <2>2
    <3> DEFINE h == [k \in 0 .. q + 1 |-> IF k <= q THEN g[k] ELSE FlushNext(g[q], at(q + 1))]
    <3>2. ASSUME NEW k \in 0 .. q + 1
          PROVE  h[k] = IF k = 0 THEN first ELSE FlushNext(h[k - 1], at(k))
      <4>1. CASE k = 0
        BY <3>1, <4>1
      <4>2. CASE k \in 1 .. q
        <5>1. h[k] = g[k] /\ h[k - 1] = g[k - 1]
          BY <4>2
        <5>2. g[k] = FlushNext(g[k - 1], at(k))
          BY <3>1, <4>2
        <5> QED BY <4>2, <5>1, <5>2
      <4>3. CASE k = q + 1
        <5>1. h[k] = FlushNext(g[q], at(q + 1)) /\ h[k - 1] = g[q] /\ k # 0
          BY <4>3
        <5> QED BY <4>3, <5>1
      <4> QED BY <4>1, <4>2, <4>3
    <3>3. h = [k \in 0 .. q + 1 |-> IF k = 0 THEN first ELSE FlushNext(h[k - 1], at(k))]
      <4>1. h = [k \in 0 .. q + 1 |-> h[k]]
        OBVIOUS
      <4> HIDE DEF h
      <4> QED BY <3>2, <4>1
    <3>4. \E y : y = [k \in 0 .. q + 1 |-> IF k = 0 THEN first ELSE FlushNext(y[k - 1], at(k))]
      <4> WITNESS h
      <4> QED BY <3>3
    <3>5. q + 1 \in Nat
      OBVIOUS
    <3> HIDE DEF h
    <3> QED BY <3>4, <3>5, Zenon
  <2>3. Nat \subseteq T
    <3> HIDE DEF T
    <3> QED BY <2>1, <2>2, EveryNumber
  <2>4. N \in T
    <3> HIDE DEF T
    <3> QED BY <2>3
  <2> QED BY <2>4
<1>3. f = [k \in 0 .. N |-> IF k = 0 THEN first ELSE FlushNext(f[k - 1], at(k))]
  BY <1>2
<1>4. f[0] = first /\ \A k \in 1 .. N : f[k] = FlushNext(f[k - 1], at(k))
  <2> HIDE DEF f
  <2>1. 0 \in 0 .. N /\ \A k \in 1 .. N : k \in 0 .. N /\ k # 0
    OBVIOUS
  <2> QED BY <1>3, <2>1
<1> HIDE DEF f
<1>5. /\ f[0] = [w EXCEPT !.a.active = <<>>] /\ Flush(w) = f[N]
      /\ \A k \in 1 .. N : f[k] = FlushNext(f[k - 1], NthBlock(w.a.active, k))
  BY <1>1, <1>4, Zenon DEF first, at
<1> QED BY <1>5

\* A block more is flushed, unless the response has failed already.
FlushedTo(v, r, act, us, words) ==
  \E t : /\ Reads(v, r, t)
         /\ \/ FailedReply(v.a, t)
            \/ Attends(v.a, t, act, us) /\ Spoken(t.items) = words

LEMMA FlushNextTold ==
  ASSUME NEW v, NEW r, NEW act, NEW us, NEW words, FlushedTo(v, r, act, us, words), NEW i \in us
  PROVE  FlushedTo(FlushNext(v, act[i]), r, act, us \ {i}, words)
<1>1. PICK s : /\ Reads(v, r, s)
               /\ \/ FailedReply(v.a, s)
                  \/ Attends(v.a, s, act, us) /\ Spoken(s.items) = words
  BY DEF FlushedTo
<1>2. CASE FailedReply(v.a, s)
  <2>1. FlushNext(v, act[i]) = v
    BY <1>2 DEF FlushNext, FailedReply
  <2> QED BY <1>1, <1>2, <2>1 DEF FlushedTo
<1>3. CASE Attends(v.a, s, act, us) /\ Spoken(s.items) = words
  <2>1. FlushNext(v, act[i]) = Complete(v, act[i])
    BY <1>3 DEF FlushNext, Attends
  <2>2. Advances(v, Complete(v, act[i]), s, act, us \ {i}, r)
    BY <1>1, <1>3, CompleteTold
  <2> QED BY <1>3, <2>1, <2>2, Zenon DEF Advances, FlushedTo
<1> QED BY <1>1, <1>2, <1>3
\* The blocks that are still there when the first k were flushed.
StillThere(act, k) ==
  {i \in DOMAIN act : \A j \in 1 .. k : Nth(SlotsOf(act), j) # act[i].slot}

LEMMA FlushTold ==
  ASSUME NEW w, NEW r, NEW s, Reads(w, r, s), Current(w.a, s)
  PROVE  FlushedTo(Flush(w), r, w.a.active, {}, Spoken(s.items))
<1> DEFINE act == w.a.active
           S == SlotsOf(act)
           N == Cardinality(S)
           n == Len(w.a.slots) + 1
           words == Spoken(s.items)
           first == [w EXCEPT !.a.active = <<>>]
<1>1. /\ w.a \in Assembler /\ act \in Partial(ActiveBlock) /\ Attends(w.a, s, act, DOMAIN act)
      /\ Awaited(w.a.slots, s.items, act, DOMAIN act)
  BY DEF Current, Attends
<1>2. \A i \in DOMAIN act : act[i].slot \in DOMAIN w.a.slots
  BY <1>1 DEF Awaited, Pending
<1>3. \A i, j \in DOMAIN act : act[i].slot = act[j].slot => i = j
  BY <1>1 DEF Awaited
<1>4. S \in SUBSET (0 .. n - 1) /\ n \in Nat
  BY <1>1, <1>2, AssemblerIs DEF SlotsOf
<1>5. /\ N \in Nat /\ \A k \in 1 .. N : Nth(S, k) \in S
      /\ \A j, k \in 1 .. N : Nth(S, j) = Nth(S, k) => j = k
      /\ \A x \in S : \E k \in 1 .. N : Nth(S, k) = x
  <2> HIDE DEF S, n
  <2> QED BY <1>4, NthIs
<1>6. FlushedTo(first, r, act, StillThere(act, 0), words)
  <2> DEFINE a == [w.a EXCEPT !.active = <<>>]
  <2>1. /\ a \in Assembler /\ a.slots = w.a.slots /\ a.terminal = w.a.terminal
        /\ a.started = w.a.started
    <3>1. <<>> \in Partial(ActiveBlock)
      <4>1. DOMAIN <<>> = {} /\ <<>> \in [DOMAIN <<>> -> ActiveBlock]
        OBVIOUS
      <4> QED BY <4>1, PartialIs
    <3> QED BY <1>1, <3>1 DEF Assembler
  <2>2. first = [w EXCEPT !.a = a]
    OBVIOUS
  <2> HIDE DEF a, first
  <2>3. Reads(first, r, s) /\ first.a = a
    BY <2>2, WithAssembler
  <2>4. StillThere(act, 0) = DOMAIN act
    BY DEF StillThere
  <2>5. Attends(a, s, act, DOMAIN act)
    <3> HIDE DEF act
    <3> QED BY <1>1, <2>1, AttendsLike
  <2> QED BY <2>3, <2>4, <2>5 DEF FlushedTo
<1>7. PICK g : /\ g[0] = first /\ Flush(w) = g[N]
               /\ \A k \in 1 .. N : g[k] = FlushNext(g[k - 1], NthBlock(act, k))
  BY <1>5, FlushIs
<1> HIDE DEF first, words, N
<1> DEFINE T == {k \in Nat : k <= N => FlushedTo(g[k], r, act, StillThere(act, k), words)}
<1>8. 0 \in T
  BY <1>6, <1>7
<1>9. ASSUME NEW k \in Nat, k \in T PROVE k + 1 \in T
  <2> SUFFICES ASSUME k + 1 <= N
               PROVE  FlushedTo(g[k + 1], r, act, StillThere(act, k + 1), words)
    OBVIOUS
  <2> DEFINE x == Nth(S, k + 1)
             i == InSlot(act, x)
  <2>1. k + 1 \in 1 .. N /\ (k + 1) - 1 = k /\ FlushedTo(g[k], r, act, StillThere(act, k), words)
    BY <1>5, <1>9
  <2>2. x \in S /\ \A j \in 1 .. k : Nth(S, j) # x
    <3>1. \A j \in 1 .. k : j \in 1 .. N /\ j # k + 1
      BY <1>5, <2>1
    <3> QED BY <1>5, <2>1, <3>1
  <2>3. i \in DOMAIN act /\ act[i].slot = x
    BY <2>2 DEF SlotsOf, InSlot
  <2>4. NthBlock(act, k + 1) = act[i]
    BY DEF NthBlock
  <2>5. g[k + 1] = FlushNext(g[k], act[i])
    <3>1. g[k + 1] = FlushNext(g[(k + 1) - 1], NthBlock(act, k + 1))
      BY <1>7, <2>1
    <3> QED BY <2>1, <2>4, <3>1
  <2> HIDE DEF i, x, T
  <2>6. i \in StillThere(act, k)
    BY <2>2, <2>3 DEF StillThere
  <2>7. StillThere(act, k + 1) = StillThere(act, k) \ {i}
    <3>1. \A j \in 1 .. k + 1 : j \in 1 .. k \/ j = k + 1
      OBVIOUS
    <3>2. \A j \in 1 .. k : j \in 1 .. k + 1
      OBVIOUS
    <3>3. k + 1 \in 1 .. k + 1
      OBVIOUS
    <3>4. ASSUME NEW m \in DOMAIN act
          PROVE  m \in StillThere(act, k + 1) <=> m \in StillThere(act, k) /\ m # i
      <4>1. Nth(S, k + 1) = act[m].slot <=> m = i
        BY <1>3, <2>3 DEF x
      <4> HIDE DEF act
      <4> QED BY <3>1, <3>2, <3>3, <4>1 DEF StillThere
    <3>5. \A m \in StillThere(act, k + 1) : m \in DOMAIN act
      BY DEF StillThere
    <3>6. \A m \in StillThere(act, k) : m \in DOMAIN act
      BY DEF StillThere
    <3> QED BY <3>4, <3>5, <3>6
  <2>8. FlushedTo(FlushNext(g[k], act[i]), r, act, StillThere(act, k) \ {i}, words)
    BY <2>1, <2>6, FlushNextTold
  <2> QED BY <2>5, <2>7, <2>8
<1>10. N \in T
  <2>1. Nat \subseteq T
    <3> HIDE DEF T
    <3> QED BY <1>8, <1>9, EveryNumber
  <2> QED BY <1>5, <2>1
<1>11. StillThere(act, N) = {}
  <2>1. ASSUME NEW i \in DOMAIN act PROVE i \notin StillThere(act, N)
    <3>1. act[i].slot \in S
      BY DEF SlotsOf
    <3> QED BY <1>5, <3>1 DEF StillThere
  <2> QED BY <2>1 DEF StillThere
<1>12. FlushedTo(g[N], r, act, {}, words)
  BY <1>5, <1>10, <1>11
<1> QED BY <1>7, <1>12 DEF words

\* The response is over: it has failed, or it is complete, and its client has read words.
EndsReply(a, t, words) ==
  /\ a.terminal /\ t \in Reader /\ ~ t.strange /\ t.status \in {"completed", "failed"}
  /\ t.status = "completed" =>
       /\ \A k \in DOMAIN t.items : t.items[k].done /\ Replayable(t.items[k])
       /\ t.output = t.items /\ Spoken(t.items) = words
\* With no block left, the reader's items are the assembler's slots, all of them done.
LEMMA AllDone ==
  ASSUME NEW a, NEW t, NEW act, Attends(a, t, act, {})
  PROVE  /\ t.items = a.slots /\ Output(a) = a.slots
         /\ \A k \in DOMAIN t.items : t.items[k].done /\ Replayable(t.items[k])
<1>1. /\ a \in Assembler /\ t \in Reader /\ Mirrors(a.slots, t.items)
      /\ Awaited(a.slots, t.items, act, {})
  BY DEF Attends, Listens
<1>2. \A k \in DOMAIN a.slots : a.slots[k].done
  BY <1>1 DEF Awaited
<1>3. /\ DOMAIN a.slots = 1 .. Len(a.slots) /\ DOMAIN t.items = 1 .. Len(a.slots)
      /\ a.slots \in Seq(Item) /\ t.items \in Seq(Item) /\ Len(t.items) = Len(a.slots)
      /\ \A k \in DOMAIN a.slots : t.items[k] \in Item /\ a.slots[k] \in Item
  BY <1>1, ReaderIs, AssemblerIs DEF Mirrors
<1>4. ASSUME NEW k \in DOMAIN a.slots
      PROVE  t.items[k] = a.slots[k] /\ Replayable(a.slots[k])
  <2>1. Alike(t.items[k], a.slots[k]) /\ a.slots[k].done
    BY <1>1, <1>2 DEF Mirrors
  <2>2. /\ t.items[k].kind = a.slots[k].kind /\ t.items[k].done = a.slots[k].done
        /\ t.items[k].data = a.slots[k].data /\ Replayable(a.slots[k])
    BY <2>1 DEF Alike
  <2>3. \A x, y \in Item : x.kind = y.kind /\ x.done = y.done /\ x.data = y.data => x = y
    BY DEF Item
  <2> QED BY <1>3, <2>2, <2>3
<1>5. t.items = a.slots
  BY <1>3, <1>4
<1>6. Output(a) = a.slots
  BY <1>1, <1>2, OutputWhole
<1> QED BY <1>2, <1>4, <1>5, <1>6

LEMMA FinishTold ==
  ASSUME NEW w, NEW r, NEW s, Reads(w, r, s), Current(w.a, s),
         NEW name \in {"completed", "failed"}
  PROVE  \E t : /\ Reads(Finish(w, name), r, t)
                /\ EndsReply(Finish(w, name).a, t, Spoken(s.items))
                /\ name = "failed" => t.status = "failed"
<1> DEFINE v == Flush(w)
           act == w.a.active
<1>1. FlushedTo(v, r, act, {}, Spoken(s.items))
  BY FlushTold
<1>2. Finish(w, name) = IF v.a.terminal THEN v ELSE Final(v, name)
  BY DEF Finish
<1> HIDE DEF v, act
<1>3. PICK m : /\ Reads(v, r, m)
               /\ \/ FailedReply(v.a, m)
                  \/ Attends(v.a, m, act, {}) /\ Spoken(m.items) = Spoken(s.items)
  BY <1>1 DEF FlushedTo
<1>4. CASE FailedReply(v.a, m)
  <2>1. Finish(w, name) = v
    BY <1>2, <1>4 DEF FailedReply
  <2>2. EndsReply(v.a, m, Spoken(s.items)) /\ m.status = "failed"
    BY <1>4 DEF FailedReply, EndsReply
  <2> QED BY <1>3, <2>1, <2>2
<1>5. CASE Attends(v.a, m, act, {}) /\ Spoken(m.items) = Spoken(s.items)
  <2>1. v.a \in Assembler /\ Listens(m) /\ ~ v.a.terminal
    BY <1>5 DEF Attends
  <2>2. Finish(w, name) = Final(v, name)
    BY <1>2, <2>1
  <2>3. PICK t : /\ Reads(Final(v, name), r, t) /\ Final(v, name).a.terminal
                 /\ t \in Reader /\ ~ t.strange /\ t.status = name /\ t.items = m.items
                 /\ t.output = Output(v.a)
    BY <1>3, <2>1, FinalTold
  <2>4. /\ m.items = v.a.slots /\ Output(v.a) = v.a.slots
        /\ \A k \in DOMAIN m.items : m.items[k].done /\ Replayable(m.items[k])
    BY <1>5, AllDone
  <2>5. EndsReply(Final(v, name).a, t, Spoken(s.items))
    BY <1>5, <2>3, <2>4 DEF EndsReply
  <2> QED BY <2>2, <2>3, <2>5
<1> QED BY <1>3, <1>4, <1>5
\* Between two events, what the assembler and its reader are for a client of /v1/messages
\* that has read the same events.
Openings(act, open) ==
  /\ \A b \in open : b.i \in DOMAIN act /\ act[b.i].kind = KindOf(b.type, b.i)
  /\ \A i \in DOMAIN act : \E b \in open : b.i = i
Underway(d, act, words) ==
  /\ d.phase = "open" /\ ~ d.error /\ Openings(act, d.open) /\ DOMAIN act \subseteq d.seen
  /\ words = Range(d.text)
Silent(c) ==
  c.phase = "new" /\ c.open = {} /\ c.seen = {} /\ c.text = <<>> /\ ~ c.error
Answering(c, a, s) ==
  \/ Silent(c) /\ a = NewAssembler /\ s = FreshReader
  \/ Current(a, s) /\ Underway(c, a.active, Spoken(s.items))
  \/ FailedReply(a, s)
  \/ EndsReply(a, s, Range(c.text)) /\ c.phase = "stopped" /\ ~ c.error

\* The client and the reader after one event more.
Onward(c, a, s, e) ==
  LET w == Assemble(a, e) IN Answering(Read(c, e), w.a, ReadAll(s, w.said))

LEMMA ReadParts ==
  ASSUME NEW c \in Client, NEW e \in Event
  PROVE  LET d == Read(c, e)
         IN  /\ d.phase = PhaseAfter(c, e) /\ d.open = OpenAfter(c, e)
             /\ d.seen = IF e.name = "content_block_start" THEN c.seen \cup {e.i} ELSE c.seen
             /\ d.text = TextAfter(c, e) /\ d.error = (e.name = "error" \/ c.error)
<1>1. Read(c, e) = [phase |-> PhaseAfter(c, e), open |-> OpenAfter(c, e),
                    seen |-> IF e.name = "content_block_start" THEN c.seen \cup {e.i}
                             ELSE c.seen,
                    text |-> TextAfter(c, e), args |-> ArgsAfter(c, e),
                    error |-> e.name = "error" \/ c.error, event |-> EventAfter(e)]
  BY ReadIs
<1> QED BY <1>1

\* The work on an event, when the response was started.
Commenced(a) == Created([a |-> a, said |-> <<>>])

LEMMA AssembleIs ==
  ASSUME NEW a, NEW e, ~ a.terminal
  PROVE  LET w == Commenced(a)
         IN  /\ e.name = "content_block_start" => Assemble(a, e) = Start(w, e.i, e.type)
             /\ e.name = "content_block_delta" => Assemble(a, e) = Grow(w, e.i, e.type, e.data)
             /\ e.name = "content_block_stop" => Assemble(a, e) = CompleteAt(w, e.i)
             /\ e.name = "message_stop" => Assemble(a, e) = Finish(w, "completed")
             /\ e.name = "error" => Assemble(a, e) = Finish(w, "failed")
             /\ e.name \in {"message_start", "message_delta"} => Assemble(a, e) = w
<1> DEFINE w == Commenced(a)
<1>1. Assemble(a, e) =
        CASE a.terminal -> [a |-> a, said |-> <<>>]
          [] ~ a.terminal /\ e.name = "content_block_start" -> Start(w, e.i, e.type)
          [] ~ a.terminal /\ e.name = "content_block_delta" -> Grow(w, e.i, e.type, e.data)
          [] ~ a.terminal /\ e.name = "content_block_stop" -> CompleteAt(w, e.i)
          [] ~ a.terminal /\ e.name = "message_stop" -> Finish(w, "completed")
          [] ~ a.terminal /\ e.name = "error" -> Finish(w, "failed")
          [] OTHER -> w
  BY Zenon DEF Assemble, Commenced
<1>2. CASE e.name = "content_block_start"
  BY <1>1, <1>2
<1>3. CASE e.name = "content_block_delta"
  BY <1>1, <1>3
<1>4. CASE e.name = "content_block_stop"
  BY <1>1, <1>4
<1>5. CASE e.name = "message_stop"
  BY <1>1, <1>5
<1>6. CASE e.name = "error"
  BY <1>1, <1>6
<1>7. CASE e.name \in {"message_start", "message_delta"}
  BY <1>1, <1>7
<1>8. CASE e.name \notin {"content_block_start", "content_block_delta", "content_block_stop",
                          "message_stop", "error", "message_start", "message_delta"}
  BY <1>8
<1> QED BY <1>2, <1>3, <1>4, <1>5, <1>6, <1>7, <1>8

\* The response is over, and nothing more is said.
LEMMA OverStays ==
  ASSUME NEW c \in Client, NEW a, NEW s, NEW e \in Event, Legal(c, e), Answering(c, a, s),
         a.terminal
  PROVE  Onward(c, a, s, e)
<1>1. Assemble(a, e) = [a |-> a, said |-> <<>>]
  BY Zenon DEF Assemble
<1>2. ReadAll(s, <<>>) = s
  BY ReadNone
<1>3. ~ NewAssembler.terminal
  BY DEF NewAssembler
<1>4. ~ Current(a, s)
  BY DEF Current, Attends
<1>5. c.phase # "stopped"
  BY DEF Legal
<1>6. FailedReply(a, s)
  BY <1>3, <1>4, <1>5 DEF Answering
<1>7. Assemble(a, e).a = a /\ Assemble(a, e).said = <<>>
  BY <1>1
<1> QED BY <1>2, <1>6, <1>7, Zenon DEF Onward, Answering

\* Assembled first, and read.
LEMMA StartedIs ==
  ASSUME NEW a, NEW s, Current(a, s)
  PROVE  Commenced(a).a = a /\ Reads(Commenced(a), s, s) /\ ~ a.terminal
<1> DEFINE w == [a |-> a, said |-> <<>>]
<1>1. a.started /\ ~ a.terminal
  BY DEF Current, Attends
<1>2. w.a = a /\ w.said = <<>> /\ w = [a |-> w.a, said |-> w.said]
  OBVIOUS
<1>3. ReadAll(s, <<>>) = s /\ <<>> \in Seq(ResponseEvent)
  BY ReadNone
<1>4. Created(w) = w
  BY <1>1, <1>2, Zenon DEF Created
<1> HIDE DEF w
<1>5. Reads(w, s, s)
  BY <1>2, <1>3, Zenon DEF Reads
<1> QED BY <1>1, <1>2, <1>4, <1>5 DEF w, Commenced

LEMMA GoesOnward ==
  ASSUME NEW d, NEW v, NEW s, NEW act, NEW words, GoesOn(v, s, act, words), Underway(d, act, words)
  PROVE  Answering(d, v.a, ReadAll(s, v.said))
<1>1. PICK t : /\ Reads(v, s, t)
               /\ \/ FailedReply(v.a, t)
                  \/ Current(v.a, t) /\ v.a.active = act /\ Spoken(t.items) = words
  BY DEF GoesOn
<1>2. t = ReadAll(s, v.said)
  BY <1>1 DEF Reads
<1> QED BY <1>1, <1>2, Zenon DEF Answering
\* The first event: the response is created.
LEMMA FirstOnward ==
  ASSUME NEW c \in Client, NEW e \in Event, Legal(c, e), Silent(c)
  PROVE  Onward(c, NewAssembler, FreshReader, e)
<1> DEFINE a == NewAssembler
           s == FreshReader
           b == [a EXCEPT !.started = TRUE]
           w0 == [a |-> a, said |-> <<>>]
           v == Told(w0, b, Notice("created"))
           t == ReadResponse(s, Notice("created"))
           d == Read(c, e)
<1>1. e.name = "message_start"
  BY DEF Legal, Silent
<1>2. a.slots = <<>> /\ a.active = <<>> /\ a.started = FALSE /\ a.terminal = FALSE
  BY DEF NewAssembler
<1>3. Assemble(a, e) = v
  <2>1. Commenced(a) = v
    BY <1>2, Zenon DEF Commenced, Created, Notice, NoKind
  <2>2. Assemble(a, e) = Commenced(a)
    BY <1>1, <1>2, AssembleIs
  <2> QED BY <2>1, <2>2
<1>4. /\ s \in Reader /\ s.status = "new" /\ ~ s.strange /\ s.items = <<>>
  <2>1. <<>> \in Seq(Item)
    OBVIOUS
  <2> QED BY <2>1 DEF FreshReader, Reader
<1>5. Listens(t) /\ t.items = <<>>
  BY <1>4, ReadCreated
<1>6. /\ b \in Assembler /\ b.slots = <<>> /\ b.active = <<>> /\ b.started /\ ~ b.terminal
      /\ <<>> \in Partial(ActiveBlock)
  <2>1. <<>> \in Seq(Item) /\ DOMAIN <<>> = {} /\ <<>> \in [DOMAIN <<>> -> ActiveBlock]
    OBVIOUS
  <2>2. <<>> \in Partial(ActiveBlock)
    BY <2>1, PartialIs
  <2>3. a \in Assembler
    BY <2>1, <2>2 DEF Assembler, NewAssembler
  <2> HIDE DEF a
  <2>4. /\ b \in Assembler /\ b.slots = a.slots /\ b.active = a.active /\ b.started
        /\ b.terminal = a.terminal
    BY <2>3 DEF Assembler
  <2> QED BY <1>2, <2>2, <2>4
<1>7. Notice("created") \in ResponseEvent
  BY ReplyNoticeIs
<1> HIDE DEF a, s, b, t
<1>8. Reads(w0, s, s)
  <2>1. w0 = [a |-> w0.a, said |-> w0.said] /\ w0.said = <<>>
    OBVIOUS
  <2> HIDE DEF w0
  <2> QED BY <2>1, ReadNone, Zenon DEF Reads
<1> HIDE DEF w0
<1>9. Reads(v, s, t) /\ v.a = b
  BY <1>7, <1>8, ToldReads DEF t
<1> HIDE DEF v
<1>10. DOMAIN <<>> = {}
  OBVIOUS
<1>11. Mirrors(b.slots, t.items) /\ Awaited(b.slots, t.items, b.active, {})
  BY <1>5, <1>6, <1>10, Zenon DEF Mirrors, Awaited
<1>12. Current(b, t)
  BY <1>5, <1>6, <1>10, <1>11, Zenon DEF Current, Attends
<1>13. /\ d.phase = "open" /\ d.open = {} /\ d.text = <<>> /\ d.error = FALSE
  <2>1. c.error = FALSE
    BY DEF Client, Silent
  <2>2. d.phase = PhaseAfter(c, e) /\ d.open = OpenAfter(c, e) /\ d.text = TextAfter(c, e)
        /\ d.error = (e.name = "error" \/ c.error)
    BY ReadParts
  <2> HIDE DEF d
  <2> QED BY <1>1, <2>1, <2>2 DEF PhaseAfter, OpenAfter, TextAfter, Silent
<1> HIDE DEF d
<1>14. Spoken(t.items) = Range(d.text)
  <2>1. \A x : x \notin Spoken(t.items)
    BY <1>5, <1>10, SpokenIs
  <2>2. Range(d.text) = {}
    BY <1>10, <1>13 DEF Range
  <2> QED BY <2>1, <2>2
<1>15. Underway(d, b.active, Spoken(t.items))
  BY <1>6, <1>10, <1>13, <1>14 DEF Underway, Openings
<1>16. t = ReadAll(s, v.said)
  BY <1>9 DEF Reads
<1>17. Answering(d, v.a, ReadAll(s, v.said))
  BY <1>9, <1>12, <1>15, <1>16 DEF Answering
<1> QED BY <1>3, <1>17 DEF Onward, d, a, s

LEMMA StartOnward ==
  ASSUME NEW c \in Client, NEW e \in Event, Legal(c, e), NEW a, NEW s, Current(a, s),
         Underway(c, a.active, Spoken(s.items)), e.name = "content_block_start"
  PROVE  Onward(c, a, s, e)
<1> DEFINE w == Commenced(a)
           act == a.active
           d == Read(c, e)
<1>1. w.a = a /\ Reads(w, s, s) /\ ~ a.terminal
  BY StartedIs
<1>2. Assemble(a, e) = Start(w, e.i, e.type)
  BY <1>1, AssembleIs
<1>3. e.i \in Nat \ c.seen /\ e.type \in BlockType
  BY DEF Legal
<1>4. e.i \notin DOMAIN act /\ Openings(act, c.open) /\ DOMAIN act \subseteq c.seen
  BY <1>3 DEF Underway
<1> HIDE DEF w
<1>5. PICK b \in ActiveBlock : /\ b.kind = KindOf(e.type, e.i)
                               /\ GoesOn(Start(w, e.i, e.type), s, Put(act, e.i, b), Spoken(s.items))
  BY <1>1, <1>3, <1>4, ItemStartTold
<1>6. /\ d.phase = "open" /\ ~ d.error /\ d.open = c.open \cup {[i |-> e.i, type |-> e.type]}
      /\ d.seen = c.seen \cup {e.i} /\ d.text = c.text
  <2>1. /\ d.phase = PhaseAfter(c, e) /\ d.open = OpenAfter(c, e) /\ d.text = TextAfter(c, e)
        /\ d.error = (e.name = "error" \/ c.error)
        /\ d.seen = IF e.name = "content_block_start" THEN c.seen \cup {e.i} ELSE c.seen
    BY ReadParts
  <2> HIDE DEF d
  <2> QED BY <2>1 DEF PhaseAfter, OpenAfter, TextAfter, Underway
<1> HIDE DEF d
<1>7. /\ DOMAIN Put(act, e.i, b) = DOMAIN act \cup {e.i} /\ Put(act, e.i, b)[e.i] = b
      /\ \A j \in DOMAIN act \ {e.i} : Put(act, e.i, b)[j] = act[j]
  BY DEF Put
<1> DEFINE f == Put(act, e.i, b)
<1> HIDE DEF f, act
<1>8. \A o \in c.open : o.i \in DOMAIN act /\ act[o.i].kind = KindOf(o.type, o.i)
  BY <1>4 DEF Openings
<1>9. Openings(f, d.open)
  <2>1. ASSUME NEW o \in d.open
        PROVE  o.i \in DOMAIN f /\ f[o.i].kind = KindOf(o.type, o.i)
    <3>1. CASE o \in c.open
      BY <1>4, <1>7, <1>8, <3>1 DEF f
    <3>2. CASE o = [i |-> e.i, type |-> e.type]
      BY <1>5, <1>7, <3>2 DEF f
    <3> QED BY <1>6, <3>1, <3>2
  <2>2. ASSUME NEW j \in DOMAIN f PROVE \E o \in d.open : o.i = j
    <3>1. CASE j \in DOMAIN act
      BY <1>4, <1>6, <3>1 DEF Openings
    <3>2. CASE j = e.i
      <4>1. [i |-> e.i, type |-> e.type] \in d.open /\ [i |-> e.i, type |-> e.type].i = e.i
        BY <1>6
      <4> QED BY <3>2, <4>1, Zenon
    <3> QED BY <1>7, <3>1, <3>2 DEF f
  <2> QED BY <2>1, <2>2 DEF Openings
<1>10. Underway(d, f, Spoken(s.items))
  BY <1>4, <1>6, <1>7, <1>9 DEF Underway, f, act
<1>11. Answering(d, Start(w, e.i, e.type).a, ReadAll(s, Start(w, e.i, e.type).said))
  BY <1>5, <1>10, GoesOnward DEF f
<1> QED BY <1>2, <1>11 DEF Onward, d
LEMMA GrowOnward ==
  ASSUME NEW c \in Client, NEW e \in Event, Legal(c, e), NEW a, NEW s, Current(a, s),
         Underway(c, a.active, Spoken(s.items)), e.name = "content_block_delta"
  PROVE  Onward(c, a, s, e)
<1> DEFINE w == Commenced(a)
           act == a.active
           d == Read(c, e)
           words == IF e.type = "text" THEN Spoken(s.items) \cup Range(e.data)
                    ELSE Spoken(s.items)
<1>1. w.a = a /\ Reads(w, s, s) /\ ~ a.terminal
  BY StartedIs
<1>2. Assemble(a, e) = Grow(w, e.i, e.type, e.data)
  BY <1>1, AssembleIs
<1>3. /\ [i |-> e.i, type |-> e.type] \in c.open /\ e.i \in DOMAIN act /\ e.type \in BlockType
      /\ act[e.i].kind = KindOf(e.type, e.i) /\ e.data \in Seq(Nat) /\ c.text \in Seq(Nat)
  <2>1. [i |-> e.i, type |-> e.type] \in c.open
    BY DEF Legal
  <2>2. c.open \in SUBSET [i : Nat, type : BlockType] /\ c.text \in Seq(Nat)
    BY DEF Client
  <2>3. e.type \in BlockType
    BY <2>1, <2>2
  <2>4. \A o \in c.open : o.i \in DOMAIN act /\ act[o.i].kind = KindOf(o.type, o.i)
    BY DEF Underway, Openings
  <2>5. e.data \in Seq(Nat)
    BY Zenon DEF Event
  <2> QED BY <2>1, <2>2, <2>3, <2>4, <2>5
<1> HIDE DEF w, words
<1>4. PICK b \in ActiveBlock : /\ b.kind = KindOf(e.type, e.i)
                               /\ GoesOn(Grow(w, e.i, e.type, e.data), s,
                                         [act EXCEPT ![e.i] = b], words)
  BY <1>1, <1>3, ItemGrowTold DEF words
<1>5. /\ d.phase = "open" /\ ~ d.error /\ d.open = c.open /\ d.seen = c.seen
      /\ d.text = IF e.type = "text" THEN c.text \o e.data ELSE c.text
  <2>1. /\ d.phase = PhaseAfter(c, e) /\ d.open = OpenAfter(c, e) /\ d.text = TextAfter(c, e)
        /\ d.error = (e.name = "error" \/ c.error)
        /\ d.seen = IF e.name = "content_block_start" THEN c.seen \cup {e.i} ELSE c.seen
    BY ReadParts
  <2> HIDE DEF d
  <2> QED BY <2>1 DEF PhaseAfter, OpenAfter, TextAfter, Underway
<1> HIDE DEF d
<1>6. words = Range(d.text)
  <2>1. Spoken(s.items) = Range(c.text)
    BY DEF Underway
  <2>2. CASE e.type = "text"
    <3>1. \A v : v \in Range(c.text \o e.data) <=> v \in Range(c.text) \/ v \in Range(e.data)
      BY <1>3, RangeJoined
    <3>2. d.text = c.text \o e.data
      BY <1>5, <2>2
    <3>3. Range(d.text) = Range(c.text) \cup Range(e.data)
      BY <3>1, <3>2
    <3> QED BY <2>1, <2>2, <3>3 DEF words
  <2>3. CASE e.type # "text"
    BY <1>5, <2>1, <2>3 DEF words
  <2> QED BY <2>2, <2>3
<1> DEFINE f == [act EXCEPT ![e.i] = b]
<1>7. DOMAIN f = DOMAIN act /\ \A j \in DOMAIN act : f[j].kind = act[j].kind
  BY <1>3, <1>4
<1> HIDE DEF f
<1>8. Openings(f, d.open)
  BY <1>5, <1>7 DEF Underway, Openings
<1>9. Underway(d, f, words)
  BY <1>5, <1>6, <1>7, <1>8 DEF Underway
<1>10. LET v == Grow(w, e.i, e.type, e.data) IN Answering(d, v.a, ReadAll(s, v.said))
  BY <1>4, <1>9, GoesOnward DEF f
<1> QED BY <1>2, <1>10 DEF Onward, d

LEMMA StopOnward ==
  ASSUME NEW c \in Client, NEW e \in Event, Legal(c, e), NEW a, NEW s, Current(a, s),
         Underway(c, a.active, Spoken(s.items)), e.name = "content_block_stop"
  PROVE  Onward(c, a, s, e)
<1> DEFINE w == Commenced(a)
           act == a.active
           d == Read(c, e)
<1>1. w.a = a /\ Reads(w, s, s) /\ ~ a.terminal
  BY StartedIs
<1>2. Assemble(a, e) = CompleteAt(w, e.i)
  BY <1>1, AssembleIs
<1>3. /\ \A o \in c.open : o.i \in DOMAIN act /\ act[o.i].kind = KindOf(o.type, o.i)
      /\ \A i \in DOMAIN act : \E o \in c.open : o.i = i
  BY DEF Underway, Openings
<1>4. e.i \in DOMAIN act
  BY <1>3 DEF Legal
<1> HIDE DEF w
<1>5. GoesOn(CompleteAt(w, e.i), s, Without(act, e.i), Spoken(s.items))
  BY <1>1, <1>4, CompleteAtTold
<1>6. /\ d.phase = "open" /\ ~ d.error /\ d.open = {o \in c.open : o.i # e.i}
      /\ d.seen = c.seen /\ d.text = c.text
  <2>1. /\ d.phase = PhaseAfter(c, e) /\ d.open = OpenAfter(c, e) /\ d.text = TextAfter(c, e)
        /\ d.error = (e.name = "error" \/ c.error)
        /\ d.seen = IF e.name = "content_block_start" THEN c.seen \cup {e.i} ELSE c.seen
    BY ReadParts
  <2> HIDE DEF d
  <2> QED BY <2>1 DEF PhaseAfter, OpenAfter, TextAfter, Underway
<1> HIDE DEF d
<1> DEFINE f == Without(act, e.i)
<1>7. DOMAIN f = DOMAIN act \ {e.i} /\ \A j \in DOMAIN f : f[j] = act[j]
  BY DEF Without
<1> HIDE DEF f, act
<1>8. Openings(f, d.open)
  BY <1>3, <1>6, <1>7 DEF Openings
<1>9. DOMAIN act \subseteq c.seen /\ Spoken(s.items) = Range(c.text)
  BY DEF Underway, act
<1>10. Underway(d, f, Spoken(s.items))
  BY <1>6, <1>7, <1>8, <1>9 DEF Underway
<1>11. LET v == CompleteAt(w, e.i) IN Answering(d, v.a, ReadAll(s, v.said))
  BY <1>5, <1>10, GoesOnward DEF f
<1> QED BY <1>2, <1>11 DEF Onward, d

LEMMA EndOnward ==
  ASSUME NEW c \in Client, NEW e \in Event, Legal(c, e), NEW a, NEW s, Current(a, s),
         Underway(c, a.active, Spoken(s.items)), e.name \in {"message_stop", "error"}
  PROVE  Onward(c, a, s, e)
<1> DEFINE w == Commenced(a)
           d == Read(c, e)
           name == IF e.name = "error" THEN "failed" ELSE "completed"
           v == Finish(w, name)
<1>1. w.a = a /\ Reads(w, s, s) /\ ~ a.terminal
  BY StartedIs
<1>2. Assemble(a, e) = v
  BY <1>1, AssembleIs
<1> HIDE DEF w
<1>3. PICK t : /\ Reads(v, s, t) /\ EndsReply(v.a, t, Spoken(s.items))
               /\ name = "failed" => t.status = "failed"
  <2>1. name \in {"completed", "failed"}
    OBVIOUS
  <2> HIDE DEF name
  <2> QED BY <1>1, <2>1, FinishTold
<1> HIDE DEF v
<1>4. t = ReadAll(s, v.said)
  BY <1>3 DEF Reads
<1>5. CASE t.status = "failed"
  <2>1. FailedReply(v.a, t)
    BY <1>3, <1>5 DEF EndsReply, FailedReply
  <2> QED BY <1>2, <1>4, <2>1 DEF Onward, Answering
<1>6. CASE t.status # "failed"
  <2>1. e.name = "message_stop"
    BY <1>3, <1>6
  <2>2. d.phase = "stopped" /\ ~ d.error /\ d.text = c.text
    <3>1. /\ d.phase = PhaseAfter(c, e) /\ d.text = TextAfter(c, e)
          /\ d.error = (e.name = "error" \/ c.error)
      BY ReadParts
    <3> HIDE DEF d
    <3> QED BY <2>1, <3>1 DEF PhaseAfter, TextAfter, Underway
  <2> HIDE DEF d
  <2>3. EndsReply(v.a, t, Range(d.text))
    BY <1>3, <2>2 DEF Underway
  <2> QED BY <1>2, <1>4, <2>2, <2>3 DEF Onward, Answering, d
<1> QED BY <1>5, <1>6

LEMMA NoticeOnward ==
  ASSUME NEW c \in Client, NEW e \in Event, Legal(c, e), NEW a, NEW s, Current(a, s),
         Underway(c, a.active, Spoken(s.items)), e.name \in {"message_start", "message_delta"}
  PROVE  Onward(c, a, s, e)
<1> DEFINE w == Commenced(a)
           d == Read(c, e)
<1>1. w.a = a /\ Reads(w, s, s) /\ ~ a.terminal
  BY StartedIs
<1>2. Assemble(a, e) = w
  BY <1>1, AssembleIs
<1>3. s = ReadAll(s, w.said)
  BY <1>1, Zenon DEF Reads
<1>4. /\ d.phase = "open" /\ ~ d.error /\ d.open = c.open /\ d.seen = c.seen /\ d.text = c.text
  <2>1. /\ d.phase = PhaseAfter(c, e) /\ d.open = OpenAfter(c, e) /\ d.text = TextAfter(c, e)
        /\ d.error = (e.name = "error" \/ c.error)
        /\ d.seen = IF e.name = "content_block_start" THEN c.seen \cup {e.i} ELSE c.seen
    BY ReadParts
  <2> HIDE DEF d
  <2> QED BY <2>1 DEF PhaseAfter, OpenAfter, TextAfter, Underway
<1> HIDE DEF d, w
<1>5. Underway(d, a.active, Spoken(s.items))
  BY <1>4 DEF Underway
<1> QED BY <1>1, <1>2, <1>3, <1>5, Zenon DEF Onward, Answering, d

\* Whatever the next event is, the reader goes on answering the client.
LEMMA AnsweringNext ==
  ASSUME NEW c \in Client, NEW e \in Event, Legal(c, e), NEW a, NEW s, Answering(c, a, s)
  PROVE  Onward(c, a, s, e)
<1>1. e.name \in {"message_start", "content_block_start", "content_block_delta",
                  "content_block_stop", "message_delta", "message_stop", "error"}
  BY EventIs, Zenon
<1>2. CASE Silent(c) /\ a = NewAssembler /\ s = FreshReader
  BY <1>2, FirstOnward
<1>3. CASE Current(a, s) /\ Underway(c, a.active, Spoken(s.items))
  BY <1>1, <1>3, StartOnward, GrowOnward, StopOnward, EndOnward, NoticeOnward
<1>4. CASE FailedReply(a, s) \/ EndsReply(a, s, Range(c.text))
  <2>1. a.terminal
    BY <1>4 DEF FailedReply, EndsReply
  <2> QED BY <2>1, OverStays
<1> QED BY <1>2, <1>3, <1>4 DEF Answering
-----------------------------------------------------------------------------
(* Both adapters in front of the assembler.                                 *)

\* An adapter goes on when its client has taken all that it was sent.
LEMMA AdapterIdle ==
  ASSUME Adapter
  PROVE  chat_buffer.wire = <<>>
<1>1. CASE \E bullet, partial \in BOOLEAN : ChatContent(bullet, partial)
  <2>1. \E w, up, parser : Handle(w, up, parser)
    BY <1>1, Zenon DEF ChatContent
  <2> QED BY <2>1, Zenon DEF Handle, Ready
<1>2. CASE \E t \in ChatTools, name \in ToolName \cup {""}, fragment \in BOOLEAN :
             ChatToolCall(t, name, fragment)
  <2>1. \E w, up, parser : Handle(w, up, parser)
    BY <1>2, Zenon DEF ChatToolCall
  <2> QED BY <2>1, Zenon DEF Handle, Ready
<1>3. CASE \E more, short \in BOOLEAN, c \in Stretches(chat_ledger.said) :
             ChatContinues(more, c, short)
  BY <1>3, Zenon DEF ChatContinues, Ready
<1>4. CASE ChatStarts \/ ChatOpens \/ ChatOpenFails
  BY <1>4, Zenon DEF ChatStarts, ChatOpens, ChatOpenFails, Ready
<1>5. CASE ChatReasoning \/ ChatTag \/ ChatFunction
  <2>1. \E w, up, parser : Handle(w, up, parser)
    BY <1>5, Zenon DEF ChatReasoning, ChatTag, ChatFunction
  <2> QED BY <2>1, Zenon DEF Handle, Ready
<1>6. CASE ChatFinishes \/ ChatAnswered \/ ChatBreaks
  BY <1>6, Zenon DEF ChatFinishes, ChatAnswered, ChatBreaks, Ready
<1>7. CASE ChatRepairs \/ ChatRecoveryFails \/ ChatStalls
  BY <1>7, Zenon DEF ChatRepairs, ChatRecoveryFails, ChatStalls, Ready
<1> QED BY <1>1, <1>2, <1>3, <1>4, <1>5, <1>6, <1>7, Zenon DEF Adapter

LEMMA NativeIdle ==
  ASSUME NativeAdapter
  PROVE  native_buffer.wire = <<>>
<1>1. CASE Events
  <2>1. \E e, new : Pass(e, new)
    BY <1>1, Zenon DEF Events, NativeMessageStart, NativeBlockStart, NativeBlockDelta,
       NativeBlockStop, NativeUnstarted, NativeDelta, NativeMessageDelta, NativeMessageStop,
       NativeErrorEvent
  <2> QED BY <2>1, Zenon DEF Pass, NativeReady
<1>2. CASE \E more, short \in BOOLEAN, c \in Collected : NativeContinues(more, c, short)
  BY <1>2, Zenon DEF NativeContinues, NativeReady
<1>3. CASE NativeOpens \/ NativeAnswered \/ NativeStalls \/ NativeRepairs
  BY <1>3, Zenon DEF NativeOpens, NativeAnswered, NativeStalls, NativeRepairs, NativeReady
<1>4. CASE NativeOpenFails \/ NativeBreaks \/ NativeRecoveryFails
  BY <1>4, Zenon DEF NativeOpenFails, NativeBreaks, NativeRecoveryFails, NativeReady
<1> QED BY <1>1, <1>2, <1>3, <1>4, Zenon DEF NativeAdapter

\* The reader of /v1/responses answers the client of /v1/messages.
Faithful == Answering(Messages, assembler, reader)

LEMMA ChatFaithful ==
  ASSUME ChatSafe, Faithful, Chat, transport' = "chat"
  PROVE  Faithful'
<1>1. /\ transport = "chat" /\ ChatNext /\ Translate(chat_buffer.wire)
  BY Zenon DEF Chat
<1>2. Messages = chat_client /\ Messages' = chat_client'
  BY <1>1 DEF Messages
<1>3. CASE ChatDeliver
  <2> DEFINE e == Head(chat_buffer.wire)
  <2>1. /\ chat_client' = Read(chat_client, e) /\ chat_client \in Client
        /\ Legal(chat_client, e) /\ e \in Event /\ chat_buffer.wire # <<>>
    BY <1>3, DeliverSafe, Zenon DEF ChatDeliver, ChatSafe, ChatFields
  <2>2. /\ assembler' = Assemble(assembler, e).a
        /\ reader' = ReadAll(reader, Assemble(assembler, e).said)
    BY <1>1, <2>1, Zenon DEF Translate
  <2> HIDE DEF e
  <2>3. Onward(chat_client, assembler, reader, e)
    BY <1>2, <2>1, AnsweringNext DEF Faithful
  <2>4. Answering(chat_client', assembler', reader')
    BY <2>1, <2>2, <2>3, Zenon DEF Onward
  <2> QED BY <1>2, <2>4 DEF Faithful
<1>4. CASE Adapter
  <2>1. chat_client' = chat_client /\ chat_buffer.wire = <<>>
    BY <1>4, AdapterSilent, AdapterIdle
  <2>2. assembler' = assembler /\ reader' = reader
    BY <1>1, <2>1, Zenon DEF Translate
  <2> QED BY <1>2, <2>1, <2>2, Zenon DEF Faithful
<1>5. ChatDeliver \/ Adapter
  BY <1>1, Zenon DEF ChatNext, Adapter
<1> QED BY <1>3, <1>4, <1>5

LEMMA NativeFaithful ==
  ASSUME NativeSafe, Faithful, Native, transport' = "native"
  PROVE  Faithful'
<1>1. /\ transport = "native" /\ NativeNext /\ Translate(native_buffer.wire)
  BY Zenon DEF Native
<1>2. Messages = native_client /\ Messages' = native_client'
  BY <1>1 DEF Messages
<1>3. CASE NativeDeliver
  <2> DEFINE e == Head(native_buffer.wire)
  <2>1. /\ native_client' = Read(native_client, e) /\ native_client \in Client
        /\ Legal(native_client, e) /\ e \in Event /\ native_buffer.wire # <<>>
    BY <1>3, NativeDeliverSafe, Zenon DEF NativeDeliver, NativeSafe, NativeFields
  <2>2. /\ assembler' = Assemble(assembler, e).a
        /\ reader' = ReadAll(reader, Assemble(assembler, e).said)
    BY <1>1, <2>1, Zenon DEF Translate
  <2> HIDE DEF e
  <2>3. Onward(native_client, assembler, reader, e)
    BY <1>2, <2>1, AnsweringNext DEF Faithful
  <2>4. Answering(native_client', assembler', reader')
    BY <2>1, <2>2, <2>3, Zenon DEF Onward
  <2> QED BY <1>2, <2>4 DEF Faithful
<1>4. CASE NativeAdapter
  <2>1. native_client' = native_client /\ native_buffer.wire = <<>>
    BY <1>4, NativeSilent, NativeIdle
  <2>2. assembler' = assembler /\ reader' = reader
    BY <1>1, <2>1, Zenon DEF Translate
  <2> QED BY <1>2, <2>1, <2>2, Zenon DEF Faithful
<1>5. NativeDeliver \/ NativeAdapter
  BY <1>1, Zenon DEF NativeNext, NativeAdapter, Events
<1> QED BY <1>3, <1>4, <1>5

LEMMA InitFaithful ==
  ASSUME Init
  PROVE  Faithful
<1>1. /\ assembler = NewAssembler /\ reader = FreshReader
      /\ chat_client = FreshClient /\ native_client = FreshClient
  BY Zenon DEF Init, ChatInit, NativeInit
<1>2. Silent(FreshClient)
  BY DEF Silent, FreshClient
<1>3. Messages = FreshClient
  BY <1>1 DEF Messages
<1> QED BY <1>1, <1>2, <1>3, Zenon DEF Faithful, Answering

LEMMA NextFaithful ==
  ASSUME StreamsSafe, Faithful, [Next]_streams_vars
  PROVE  Faithful'
<1>1. transport' = transport
  BY TransportIs
<1>2. CASE Chat
  BY <1>1, <1>2, ChatFaithful DEF StreamsSafe, Chat
<1>3. CASE Native
  BY <1>1, <1>3, NativeFaithful DEF StreamsSafe, Native
<1>4. CASE UNCHANGED streams_vars
  <2>1. /\ assembler' = assembler /\ reader' = reader
        /\ chat_client' = chat_client /\ native_client' = native_client
    BY <1>4, Zenon DEF streams_vars, chat_vars, native_vars
  <2>2. Messages' = Messages
    BY <1>1, <2>1, Zenon DEF Messages
  <2> QED BY <2>1, <2>2, Zenon DEF Faithful
<1> QED BY <1>2, <1>3, <1>4 DEF Next

\* A client whose adapter is done has read its message_stop.
LEMMA DoneStopped ==
  ASSUME StreamsSafe, Done
  PROVE  Messages.phase = "stopped"
<1>1. CASE transport = "chat"
  <2>1. chat_phase \in ChatOver /\ chat_buffer.wire = <<>>
    BY <1>1 DEF Done, ChatDone
  <2>2. PICK u : Over(u) /\ Agrees(chat_client, u.l)
    BY <2>1, DoneIs DEF StreamsSafe
  <2>3. u.l.stopped /\ chat_client.phase = PhaseOf(u.l)
    BY <2>2, Zenon DEF Over, Agrees
  <2> QED BY <1>1, <2>3 DEF Messages, PhaseOf
<1>2. CASE transport # "chat"
  <2>1. native_phase \in NativeOver /\ native_buffer.wire = <<>>
    BY <1>2 DEF Done, NativeDone
  <2>2. PICK u : NativeTail(u) /\ Agrees(native_client, u.l)
    BY <2>1, NativeDoneIs DEF StreamsSafe
  <2>3. u.l.stopped /\ native_client.phase = PhaseOf(u.l)
    BY <2>2, Zenon DEF NativeTail, Agrees
  <2> QED BY <1>2, <2>3 DEF Messages, PhaseOf
<1> QED BY <1>1, <1>2

\* What an answering reader was told, by how far it is.
LEMMA AnsweringIs ==
  ASSUME NEW c, NEW a, NEW s, Answering(c, a, s)
  PROVE  /\ ~ s.strange
         /\ s.status = "completed" =>
              /\ ~ c.error /\ Spoken(s.items) = Range(c.text) /\ s.output = s.items
              /\ \A k \in DOMAIN s.items : s.items[k].done /\ Replayable(s.items[k])
         /\ c.phase = "stopped" => s.status \in {"completed", "failed"}
<1>1. CASE Silent(c) /\ s = FreshReader
  BY <1>1 DEF Silent, FreshReader
<1>2. CASE Current(a, s) /\ Underway(c, a.active, Spoken(s.items))
  <2>1. ~ s.strange /\ s.status = "in_progress"
    BY <1>2, Zenon DEF Current, Attends, Listens
  <2>2. c.phase = "open"
    BY <1>2, Zenon DEF Underway
  <2> QED BY <2>1, <2>2
<1>3. CASE FailedReply(a, s)
  BY <1>3 DEF FailedReply
<1>4. CASE EndsReply(a, s, Range(c.text)) /\ ~ c.error
  BY <1>4 DEF EndsReply
<1> QED BY <1>1, <1>2, <1>3, <1>4 DEF Answering

LEMMA FaithfulIs ==
  ASSUME StreamsSafe, Faithful
  PROVE  ResponseFaithful
<1> DEFINE s == reader
<1>1. /\ ~ s.strange
      /\ s.status = "completed" =>
           /\ ~ Messages.error /\ Spoken(s.items) = Range(Messages.text) /\ s.output = s.items
           /\ \A k \in DOMAIN s.items : s.items[k].done /\ Replayable(s.items[k])
      /\ Messages.phase = "stopped" => s.status \in {"completed", "failed"}
  BY AnsweringIs DEF Faithful
<1>2. Done => Messages.phase = "stopped"
  BY DoneStopped
<1>3. ResponseWellFormed
  BY <1>1 DEF ResponseWellFormed
<1>4. ReplaySafe
  BY <1>1 DEF ReplaySafe, Replayable, ArgumentsValid
<1>5. SameAnswer
  <2>1. \A items : UNION {Range(items[k].data) : k \in {k \in DOMAIN items : items[k].kind = "message"}}
                     = Spoken(items)
    BY DEF Spoken
  <2> QED BY <1>1, <1>2, <2>1, Zenon DEF SameAnswer
<1> QED BY <1>3, <1>4, <1>5 DEF ResponseFaithful

\* Whichever transport the provider uses, and whatever happens to the stream behind it, a
\* client of /v1/responses is sent a well-formed response: its items are added in order,
\* grown only while open and completed once with what their deltas said; no function call
\* whose arguments are not a whole JSON object is in a response that completed; and it
\* says the text of the answer of /v1/messages, or failure when there was one
\* (stream_state.py process_anthropic_event, finish, _flush_active_blocks).
THEOREM StreamsResponsesAreFaithful ==
  ASSUME ~ LateStalls, NativeOddities = {}
  PROVE  Spec => []ResponseFaithful
<1>1. Init => Faithful
  BY InitFaithful
<1>2. StreamsSafe /\ Faithful /\ [Next]_streams_vars => Faithful'
  BY NextFaithful
<1>3. StreamsSafe /\ Faithful => ResponseFaithful
  BY FaithfulIs
<1>4. Spec => []StreamsSafe
  BY StreamsAlwaysSafe
<1> QED BY <1>1, <1>2, <1>3, <1>4, PTL DEF Spec
=============================================================================
