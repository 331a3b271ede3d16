-------------------------- MODULE ChatStreamProofs --------------------------
(***************************************************************************)
(* Theorems about the ledger, the recovery both transports share and the   *)
(* chat adapter, for any number of chunks, calls and retries.              *)
(*                                                                         *)
(* What the client has not read yet - the events on the wire and in the    *)
(* holdback buffer - is a path from what it has read to what the ledger    *)
(* says: each event is legal where it comes, and the last one leaves the   *)
(* client with the ledger's blocks and text (Path, Agrees).  Every         *)
(* operation of the ledger extends such a path (Tells).                     *)
(***************************************************************************)
EXTENDS OpenAIChatStream, SequenceTheorems, FiniteSetTheorems, WellFoundedInduction, TLAPS

-----------------------------------------------------------------------------
(* Numbers and sequences.                                                   *)

\* A set of numbers with 0 and every successor has all of them.
LEMMA EveryNumber ==
  ASSUME NEW S, 0 \in S, \A n \in Nat : n \in S => n + 1 \in S
  PROVE  Nat \subseteq S
<1> SUFFICES ASSUME Nat \ S # {} PROVE FALSE
  OBVIOUS
<1> DEFINE R == OpToRel(<, Nat)
           T == Nat \ S
<1>1. R = {ss \in Nat \X Nat : ss[1] < ss[2]}
  BY Zenon DEF OpToRel
<1>2. \E x \in T : \A y \in T : <<y, x>> \notin R
  <2>1. IsWellFoundedOn(R, Nat) /\ T \subseteq Nat /\ T # {}
    BY NatLessThanWellFounded
  <2> HIDE DEF T, R
  <2> QED BY <2>1, WFMin
<1>3. PICK x \in T : \A y \in T : <<y, x>> \notin R
  BY <1>2
<1>4. \A y \in T : ~ (y < x)
  <2>1. \A y \in T : <<y, x>> \in Nat \X Nat /\ <<y, x>>[1] = y /\ <<y, x>>[2] = x
    OBVIOUS
  <2> HIDE DEF R, T
  <2> QED BY <1>1, <1>3, <2>1
<1>5. x # 0 /\ x - 1 \in Nat /\ x \notin S
  OBVIOUS
<1>6. x - 1 \in S
  BY <1>4, <1>5
<1> QED BY <1>5, <1>6

\* The greatest of some of the numbers up to n.
LEMMA Greatest ==
  ASSUME NEW n \in Nat, NEW S, S \subseteq 1 .. n, S # {}
  PROVE  Max(S) \in S /\ \A y \in S : Max(S) >= y
<1> DEFINE T == {k \in Nat : \A s \in SUBSET (1 .. k) :
                    s # {} => \E x \in s : \A y \in s : x >= y}
<1>1. 0 \in T
  <2>1. \A s \in SUBSET (1 .. 0) : s = {}
    OBVIOUS
  <2> QED BY <2>1
<1>2. ASSUME NEW k \in Nat, k \in T PROVE k + 1 \in T
  <2> SUFFICES ASSUME NEW s \in SUBSET (1 .. k + 1), s # {}
               PROVE  \E x \in s : \A y \in s : x >= y
    OBVIOUS
  <2>1. CASE k + 1 \in s
    BY <2>1
  <2>2. CASE k + 1 \notin s
    <3>1. s \in SUBSET (1 .. k)
      BY <2>2
    <3> QED BY <1>2, <3>1
  <2> QED BY <2>1, <2>2
<1>3. n \in T
  <2> HIDE DEF T
  <2> QED BY <1>1, <1>2, EveryNumber
<1>4. \E x \in S : \A y \in S : x >= y
  BY <1>3
<1> QED BY <1>4 DEF Max

-----------------------------------------------------------------------------
(* Types.                                                                   *)

BlockRecord == [type : BlockType, parts : Seq(Nat)]
Partial(V) == UNION {[D -> V] : D \in SUBSET Nat}
Blocks == Partial(BlockRecord)
CallName == ToolName \cup {""}
ToolRecord == [block : Int, name : CallName, buffer : Seq(Nat), emitted : BOOLEAN,
               early : Seq(Nat)]
Tools == Partial(ToolRecord)
Args == Partial(Seq(Nat))

StopReason == {"", "end_turn", "tool_use"}
Ledger ==
  [next : Nat, text : Int, thinking : Int, text_on : BOOLEAN, thinking_on : BOOLEAN,
   tools : Tools, stack : Seq(Nat), blocks : Blocks, said : Seq(Nat), thought : Seq(Nat),
   stop_reason : StopReason, started : BOOLEAN, stopped : BOOLEAN]
WorkRecord == [l : Ledger, out : Seq(Event)]
EventName == {"", "message_start", "content_block_start", "content_block_delta",
              "content_block_stop", "message_delta", "message_stop", "error"}
EventType == BlockType \cup {"", "end_turn", "tool_use"}
Client ==
  [phase : {"new", "open", "stopped"}, open : SUBSET [i : Nat, type : BlockType],
   seen : SUBSET Nat, text : Seq(Nat), args : Args, error : BOOLEAN,
   event : [name : EventName, i : Int, type : EventType]]

-----------------------------------------------------------------------------
(* Paths: events that are legal one after the other.                        *)

\* What the grammar asks of the next event.
Legal(c, e) ==
  CASE e.name = "message_start" -> c.phase = "new"
    [] e.name = "content_block_start" ->
         c.phase = "open" /\ e.i \in Nat \ c.seen /\ e.type \in BlockType
    [] e.name = "content_block_delta" ->
         /\ c.phase = "open" /\ e.i \in Nat
         /\ e.type # "redacted_thinking" /\ [i |-> e.i, type |-> e.type] \in c.open
    [] e.name = "content_block_stop" ->
         /\ c.phase = "open" /\ e.i \in Nat
         /\ \E b \in c.open : b.i = e.i /\ c.open \ {b} = {x \in c.open : x.i # e.i}
    [] e.name = "message_stop" -> c.phase = "open" /\ c.open = {} /\ c.seen # {}
    [] OTHER -> c.phase = "open"

Along(st, c, es, d) ==
  /\ st[0] = c /\ st[Len(es)] = d
  /\ \A k \in 1 .. Len(es) : Legal(st[k - 1], es[k]) /\ st[k] = Read(st[k - 1], es[k])
Path(c, es, d) == \E st : Along(st, c, es, d)

LEMMA PathEmpty ==
  ASSUME NEW c, NEW d
  PROVE  Path(c, <<>>, d) <=> d = c
<1>1. ASSUME Path(c, <<>>, d) PROVE d = c
  BY <1>1 DEF Path, Along
<1>2. ASSUME d = c PROVE Path(c, <<>>, d)
  <2> DEFINE st == [k \in {0} |-> c]
  <2>1. Along(st, c, <<>>, d)
    BY <1>2 DEF Along
  <2> QED BY <2>1 DEF Path
<1> QED BY <1>1, <1>2

LEMMA PathAppend ==
  ASSUME NEW c, NEW d, NEW es \in Seq(Event), NEW e \in Event, Path(c, es, d), Legal(d, e)
  PROVE  Path(c, Append(es, e), Read(d, e))
<1>1. PICK st : Along(st, c, es, d)
  BY DEF Path
<1> DEFINE n == Len(es)
           more == Append(es, e)
           longer == [k \in 0 .. n + 1 |-> IF k <= n THEN st[k] ELSE Read(d, e)]
<1>2. n \in Nat /\ Len(more) = n + 1 /\ more[n + 1] = e /\ \A k \in 1 .. n : more[k] = es[k]
  OBVIOUS
<1>3. ASSUME NEW k \in 1 .. n + 1
      PROVE  Legal(longer[k - 1], more[k]) /\ longer[k] = Read(longer[k - 1], more[k])
  <2>1. CASE k <= n
    <3>1. longer[k] = st[k] /\ longer[k - 1] = st[k - 1] /\ more[k] = es[k]
      BY <1>2, <2>1
    <3> QED BY <1>1, <2>1, <3>1 DEF Along
  <2>2. CASE k = n + 1
    <3>1. longer[k] = Read(d, e) /\ longer[k - 1] = st[n] /\ more[k] = e /\ st[n] = d
      BY <1>1, <1>2, <2>2 DEF Along
    <3> QED BY <3>1
  <2> QED BY <1>2, <2>1, <2>2
<1>4. longer[0] = c /\ longer[n + 1] = Read(d, e)
  BY <1>1, <1>2 DEF Along
<1> HIDE DEF n, more, longer
<1> QED BY <1>2, <1>3, <1>4 DEF Path, Along, more

LEMMA PathTail ==
  ASSUME NEW c, NEW d, NEW es \in Seq(Event), es # <<>>, Path(c, es, d)
  PROVE  /\ Head(es) \in Event /\ Tail(es) \in Seq(Event)
         /\ Legal(c, Head(es)) /\ Path(Read(c, Head(es)), Tail(es), d)
<1>1. PICK st : Along(st, c, es, d)
  BY DEF Path
<1> DEFINE n == Len(es)
           rest == [k \in 0 .. n - 1 |-> st[k + 1]]
<1>2. /\ n \in Nat \ {0} /\ Head(es) = es[1] /\ Head(es) \in Event /\ Tail(es) \in Seq(Event)
      /\ Len(Tail(es)) = n - 1 /\ \A k \in 1 .. n - 1 : Tail(es)[k] = es[k + 1]
  BY HeadTailProperties
<1>3. Legal(c, es[1]) /\ st[1] = Read(c, es[1])
  BY <1>1, <1>2 DEF Along
<1>4. ASSUME NEW k \in 1 .. n - 1
      PROVE  Legal(rest[k - 1], Tail(es)[k]) /\ rest[k] = Read(rest[k - 1], Tail(es)[k])
  <2>1. rest[k] = st[k + 1] /\ rest[k - 1] = st[(k + 1) - 1] /\ Tail(es)[k] = es[k + 1]
    BY <1>2
  <2>2. k + 1 \in 1 .. n
    BY <1>2
  <2> QED BY <1>1, <2>1, <2>2 DEF Along
<1>5. rest[0] = st[1] /\ rest[n - 1] = d
  BY <1>1, <1>2 DEF Along
<1> HIDE DEF n, rest
<1>6. Along(rest, Read(c, Head(es)), Tail(es), d)
  BY <1>2, <1>3, <1>4, <1>5 DEF Along
<1> QED BY <1>2, <1>3, <1>6 DEF Path

LEMMA PathConcat ==
  ASSUME NEW c, NEW d, NEW f, NEW es \in Seq(Event), NEW fs \in Seq(Event),
         Path(c, es, d), Path(d, fs, f)
  PROVE  Path(c, es \o fs, f)
<1>1. PICK st : Along(st, c, es, d)
  BY DEF Path
<1>2. PICK su : Along(su, d, fs, f)
  BY DEF Path
<1> DEFINE m == Len(es)
           n == Len(fs)
           all == es \o fs
           both == [k \in 0 .. m + n |-> IF k <= m THEN st[k] ELSE su[k - m]]
<1>3. /\ m \in Nat /\ n \in Nat /\ Len(all) = m + n /\ \A k \in 1 .. m : all[k] = es[k]
      /\ \A k \in m + 1 .. m + n : all[k] = fs[k - m]
  BY ConcatProperties
<1>4. ASSUME NEW k \in 1 .. m + n
      PROVE  Legal(both[k - 1], all[k]) /\ both[k] = Read(both[k - 1], all[k])
  <2>1. CASE k <= m
    <3>1. both[k] = st[k] /\ both[k - 1] = st[k - 1] /\ all[k] = es[k] /\ k \in 1 .. m
      BY <1>3, <2>1
    <3> QED BY <1>1, <3>1 DEF Along
  <2>2. CASE k > m
    <3>1. both[k] = su[k - m] /\ all[k] = fs[k - m] /\ k - m \in 1 .. n
      BY <1>3, <2>2
    <3>2. both[k - 1] = su[(k - m) - 1]
      <4>1. CASE k = m + 1
        BY <1>1, <1>2, <1>3, <4>1 DEF Along
      <4>2. CASE k # m + 1
        BY <1>3, <2>2, <4>2
      <4> QED BY <4>1, <4>2
    <3> QED BY <1>2, <3>1, <3>2 DEF Along
  <2> QED BY <1>3, <2>1, <2>2
<1>5. both[0] = c /\ both[m + n] = f
  <2>1. both[0] = st[0] /\ both[m + n] = IF n = 0 THEN st[m] ELSE su[n]
    BY <1>3
  <2>2. st[m] = d /\ su[0] = d /\ su[n] = f /\ st[0] = c
    BY <1>1, <1>2 DEF Along
  <2> QED BY <2>1, <2>2
<1> HIDE DEF m, n, all, both
<1>6. Along(both, c, all, f)
  BY <1>3, <1>4, <1>5 DEF Along
<1> QED BY <1>6 DEF Path, all

-----------------------------------------------------------------------------
(* Functions on some numbers, and the stack of open blocks.                 *)

LEMMA PartialIs ==
  ASSUME NEW V, NEW f
  PROVE  f \in Partial(V) <=> DOMAIN f \subseteq Nat /\ f \in [DOMAIN f -> V]
BY DEF Partial

LEMMA PutIn ==
  ASSUME NEW V, NEW f \in Partial(V), NEW k \in Nat, NEW v \in V
  PROVE  /\ Put(f, k, v) \in Partial(V) /\ DOMAIN Put(f, k, v) = DOMAIN f \cup {k}
         /\ Put(f, k, v)[k] = v /\ \A x \in DOMAIN f \ {k} : Put(f, k, v)[x] = f[x]
<1>1. DOMAIN f \subseteq Nat /\ \A x \in DOMAIN f : f[x] \in V
  BY PartialIs
<1> DEFINE g == Put(f, k, v)
<1>2. /\ DOMAIN g = DOMAIN f \cup {k} /\ g[k] = v
      /\ \A x \in DOMAIN f \ {k} : g[x] = f[x]
      /\ g = [x \in DOMAIN g |-> g[x]]
  BY DEF Put
<1>3. g \in [DOMAIN g -> V] /\ DOMAIN g \subseteq Nat
  BY <1>1, <1>2
<1>4. g \in Partial(V)
  <2> HIDE DEF g
  <2> QED BY <1>3, PartialIs
<1> QED BY <1>2, <1>4

\* No index is twice on the stack.
Distinct(s) == \A j, k \in DOMAIN s : s[j] = s[k] => j = k

LEMMA RangeIs ==
  ASSUME NEW s \in Seq(Nat), NEW x
  PROVE  x \in Range(s) <=> \E k \in 1 .. Len(s) : s[k] = x
BY DEF Range

LEMMA AppendDistinct ==
  ASSUME NEW s \in Seq(Nat), Distinct(s), NEW i \in Nat, i \notin Range(s)
  PROVE  /\ Append(s, i) \in Seq(Nat) /\ Distinct(Append(s, i))
         /\ Range(Append(s, i)) = Range(s) \cup {i}
<1> DEFINE t == Append(s, i)
<1>1. /\ t \in Seq(Nat) /\ Len(t) = Len(s) + 1 /\ DOMAIN t = 1 .. Len(s) + 1 /\ DOMAIN s = 1 .. Len(s)
      /\ t[Len(s) + 1] = i /\ \A k \in 1 .. Len(s) : t[k] = s[k]
  OBVIOUS
<1> HIDE DEF t
<1>2. Distinct(t)
  BY <1>1 DEF Distinct, Range
<1>3. Range(t) = Range(s) \cup {i}
  BY <1>1 DEF Range
<1> QED BY <1>1, <1>2, <1>3 DEF t

LEMMA DropAtIs ==
  ASSUME NEW s \in Seq(Nat), NEW k \in 1 .. Len(s)
  PROVE  /\ DropAt(s, k) \in Seq(Nat) /\ Len(DropAt(s, k)) = Len(s) - 1
         /\ \A j \in 1 .. Len(s) - 1 : DropAt(s, k)[j] = IF j < k THEN s[j] ELSE s[j + 1]
<1> DEFINE n == Len(s)
           a == SubSeq(s, 1, k - 1)
           b == SubSeq(s, k + 1, n)
<1>1. n \in Nat /\ k \in Nat /\ 1 <= k /\ k <= n
  OBVIOUS
<1>2. /\ a \in Seq(Nat) /\ Len(a) = k - 1 /\ \A j \in 1 .. k - 1 : a[j] = s[j]
  BY <1>1, SubSeqProperties
<1>3. /\ b \in Seq(Nat) /\ Len(b) = n - k /\ \A j \in 1 .. n - k : b[j] = s[j + k]
  BY <1>1, SubSeqProperties
<1>4. DropAt(s, k) = a \o b
  BY DEF DropAt
<1> HIDE DEF a, b, n
<1> DEFINE t == a \o b
<1>5. /\ t \in Seq(Nat) /\ Len(t) = n - 1
      /\ \A j \in 1 .. n - 1 : t[j] = IF j <= k - 1 THEN a[j] ELSE b[j - (k - 1)]
  <2>1. /\ t \in Seq(Nat) /\ Len(t) = Len(a) + Len(b)
        /\ \A j \in 1 .. Len(a) + Len(b) : t[j] = IF j <= Len(a) THEN a[j] ELSE b[j - Len(a)]
    <3>1. a \in Seq(Nat) /\ b \in Seq(Nat)
      BY <1>2, <1>3
    <3> QED BY <3>1, ConcatProperties
  <2>2. Len(a) + Len(b) = n - 1
    BY <1>1, <1>2, <1>3
  <2> HIDE DEF t
  <2> QED BY <1>2, <2>1, <2>2
<1> HIDE DEF t
<1>6. ASSUME NEW j \in 1 .. n - 1 PROVE t[j] = IF j < k THEN s[j] ELSE s[j + 1]
  <2>1. CASE j < k
    BY <1>1, <1>2, <1>5, <2>1
  <2>2. CASE ~ (j < k)
    <3>1. j - (k - 1) \in 1 .. n - k /\ (j - (k - 1)) + k = j + 1
      BY <1>1, <2>2
    <3> QED BY <1>1, <1>3, <1>5, <2>2, <3>1
  <2> QED BY <2>1, <2>2
<1> QED BY <1>4, <1>5, <1>6 DEF n, t

LEMMA DropDistinct ==
  ASSUME NEW s \in Seq(Nat), Distinct(s), NEW k \in 1 .. Len(s), NEW t \in Seq(Nat),
         Len(t) = Len(s) - 1,
         \A j \in 1 .. Len(s) - 1 : t[j] = IF j < k THEN s[j] ELSE s[j + 1]
  PROVE  Distinct(t) /\ Range(t) = Range(s) \ {s[k]}
<1> DEFINE n == Len(s)
           up == [x \in 1 .. n - 1 |-> IF x < k THEN x ELSE x + 1]
<1>1. /\ DOMAIN t = 1 .. n - 1 /\ DOMAIN s = 1 .. n /\ n \in Nat /\ k \in Nat
      /\ 1 <= k /\ k <= n /\ \A j \in 1 .. n - 1 : t[j] = IF j < k THEN s[j] ELSE s[j + 1]
  OBVIOUS
<1> HIDE DEF n
<1>2. ASSUME NEW x \in 1 .. n - 1
      PROVE  up[x] \in 1 .. n /\ up[x] # k /\ t[x] = s[up[x]]
  <2>1. CASE x < k
    BY <1>1, <2>1
  <2>2. CASE ~ (x < k)
    BY <1>1, <2>2
  <2> QED BY <2>1, <2>2
<1>3. ASSUME NEW x \in 1 .. n - 1, NEW y \in 1 .. n - 1, up[x] = up[y] PROVE x = y
  <2>1. n \in Nat /\ k \in Nat /\ x \in Nat /\ y \in Nat
    BY <1>1
  <2>2. (IF x < k THEN x ELSE x + 1) = (IF y < k THEN y ELSE y + 1)
    BY <1>3
  <2> QED BY <2>1, <2>2
<1> HIDE DEF up
<1>4. Distinct(t)
  <2> SUFFICES ASSUME NEW x \in 1 .. n - 1, NEW y \in 1 .. n - 1, t[x] = t[y] PROVE x = y
    BY <1>1 DEF Distinct
  <2>1. s[up[x]] = s[up[y]] /\ up[x] \in DOMAIN s /\ up[y] \in DOMAIN s
    BY <1>1, <1>2
  <2>2. up[x] = up[y]
    BY <2>1 DEF Distinct
  <2> QED BY <1>3, <2>2
<1>5. ASSUME NEW x \in Range(t) PROVE x \in Range(s) \ {s[k]}
  <2>1. PICK j \in 1 .. n - 1 : t[j] = x
    BY <1>1 DEF Range
  <2>2. up[j] \in DOMAIN s /\ k \in DOMAIN s /\ up[j] # k /\ s[up[j]] = x
    BY <1>1, <1>2, <2>1
  <2> QED BY <2>2 DEF Distinct, Range
<1>6. ASSUME NEW x \in Range(s), x # s[k] PROVE x \in Range(t)
  <2>1. PICK j \in 1 .. n : s[j] = x /\ j # k
    BY <1>1, <1>6 DEF Range
  <2>2. CASE j < k
    <3>1. j \in 1 .. n - 1 /\ t[j] = x
      BY <1>1, <2>1, <2>2
    <3> QED BY <1>1, <3>1 DEF Range
  <2>3. CASE j > k
    <3>1. j - 1 \in 1 .. n - 1 /\ ~ (j - 1 < k) /\ (j - 1) + 1 = j
      BY <1>1, <2>1, <2>3
    <3>2. t[j - 1] = x
      BY <1>1, <2>1, <3>1
    <3> QED BY <1>1, <3>1, <3>2 DEF Range
  <2> QED BY <1>1, <2>1, <2>2, <2>3
<1> QED BY <1>4, <1>5, <1>6

\* The stack loses the index, wherever it is.
LEMMA UnstackedIs ==
  ASSUME NEW s \in Seq(Nat), Distinct(s), NEW i \in Range(s)
  PROVE  Unstacked(s, i) \in Seq(Nat) /\ Distinct(Unstacked(s, i))
         /\ Range(Unstacked(s, i)) = Range(s) \ {i}
<1>1. DOMAIN s = 1 .. Len(s) /\ s # <<>> /\ Len(s) \in Nat /\ Len(s) >= 1
  BY DEF Range
<1>2. CASE s[Len(s)] = i
  <2> DEFINE t == SubSeq(s, 1, Len(s) - 1)
  <2>1. t \in Seq(Nat) /\ Len(t) = Len(s) - 1 /\ \A j \in 1 .. Len(s) - 1 : t[j] = s[j]
    BY <1>1, SubSeqProperties
  <2>2. Unstacked(s, i) = t
    BY <1>1, <1>2 DEF Unstacked
  <2> HIDE DEF t
  <2>3. Len(s) \in 1 .. Len(s) /\ \A j \in 1 .. Len(s) - 1 : t[j] = IF j < Len(s) THEN s[j] ELSE s[j + 1]
    BY <1>1, <2>1
  <2>4. Distinct(t) /\ Range(t) = Range(s) \ {s[Len(s)]}
    BY <2>1, <2>3, DropDistinct
  <2> QED BY <1>2, <2>1, <2>2, <2>4
<1>3. CASE s[Len(s)] # i
  <2>1. PICK k \in DOMAIN s : s[k] = i
    BY DEF Range
  <2> DEFINE first == CHOOSE x \in DOMAIN s : s[x] = i /\ \A j \in 1 .. x - 1 : s[j] # i
  <2>2. \A j \in 1 .. k - 1 : s[j] # i
    BY <1>1, <2>1 DEF Distinct
  <2>3. first \in DOMAIN s /\ s[first] = i
    BY <2>1, <2>2
  <2>4. Unstacked(s, i) = DropAt(s, first)
    BY <1>1, <1>3, <2>1 DEF Unstacked
  <2> HIDE DEF first
  <2> DEFINE t == DropAt(s, first)
  <2>5. /\ first \in 1 .. Len(s) /\ t \in Seq(Nat) /\ Len(t) = Len(s) - 1
        /\ \A j \in 1 .. Len(s) - 1 : t[j] = IF j < first THEN s[j] ELSE s[j + 1]
    BY <1>1, <2>3, DropAtIs
  <2> HIDE DEF t
  <2>6. Distinct(t) /\ Range(t) = Range(s) \ {s[first]}
    BY <2>5, DropDistinct
  <2> QED BY <2>3, <2>4, <2>5, <2>6 DEF t
<1> QED BY <1>2, <1>3
-----------------------------------------------------------------------------
(* What the ledger keeps true, and what a client that has read everything   *)
(* knows of it.                                                             *)

Unsaid(l) == l.text = NoIndex /\ l.thinking = NoIndex /\ l.said = <<>> /\ l.thought = <<>>
Sound(l) ==
  /\ l \in Ledger
  /\ \A i \in DOMAIN l.blocks : i < l.next
  /\ Distinct(l.stack) /\ Range(l.stack) \subseteq DOMAIN l.blocks
  /\ l.text_on => l.text \in Range(l.stack) /\ l.blocks[l.text].type = "text"
  /\ l.thinking_on => l.thinking \in Range(l.stack) /\ l.blocks[l.thinking].type = "thinking"
  /\ HasContentBlock(l) \/ Unsaid(l)

PhaseOf(l) == IF l.stopped THEN "stopped" ELSE IF l.started THEN "open" ELSE "new"
OpenOf(l) == {[i |-> i, type |-> l.blocks[i].type] : i \in Range(l.stack)}
ArgsOf(l) == [i \in ToolBlocks(l) |-> l.blocks[i].parts]
Agrees(c, l) ==
  /\ c.phase = PhaseOf(l) /\ c.open = OpenOf(l) /\ c.seen = DOMAIN l.blocks
  /\ c.text = l.said /\ c.args = ArgsOf(l)

\* What is out already is a path, from a client as it is, to one that knows the
\* ledger, and that was told of an error if so the listener c says.
Knows(c, w, d) == /\ d \in Client /\ Path(c.from, w.out, d) /\ Agrees(d, w.l)
                  /\ c.error => d.error
Tells(c, w) == w \in WorkRecord /\ Sound(w.l) /\ \E d : Knows(c, w, d)
Speaks(w) == w.l.started /\ ~ w.l.stopped

LEMMA LedgerFields ==
  ASSUME NEW l \in Ledger
  PROVE  /\ l.next \in Nat /\ l.text \in Int /\ l.thinking \in Int
         /\ l.text_on \in BOOLEAN /\ l.thinking_on \in BOOLEAN
         /\ l.started \in BOOLEAN /\ l.stopped \in BOOLEAN
         /\ l.tools \in Tools /\ l.stack \in Seq(Nat) /\ l.blocks \in Blocks
         /\ l.said \in Seq(Nat) /\ l.thought \in Seq(Nat)
         /\ l.stop_reason \in StopReason
BY DEF Ledger

LEMMA BlocksAre ==
  ASSUME NEW b \in Blocks
  PROVE  /\ DOMAIN b \subseteq Nat /\ b = [i \in DOMAIN b |-> b[i]]
         /\ \A i \in DOMAIN b :
              b[i] \in BlockRecord /\ b[i].type \in BlockType /\ b[i].parts \in Seq(Nat)
<1>1. DOMAIN b \subseteq Nat /\ b \in [DOMAIN b -> BlockRecord]
  BY PartialIs DEF Blocks
<1>2. \A i \in DOMAIN b : b[i] \in BlockRecord
  BY <1>1
<1>3. \A r \in BlockRecord : r.type \in BlockType /\ r.parts \in Seq(Nat)
  BY DEF BlockRecord
<1> QED BY <1>1, <1>2, <1>3

LEMMA SoundBlocks ==
  ASSUME NEW l, Sound(l)
  PROVE  /\ DOMAIN l.blocks \subseteq Nat /\ l.blocks = [i \in DOMAIN l.blocks |-> l.blocks[i]]
         /\ \A i \in DOMAIN l.blocks :
              /\ l.blocks[i] \in BlockRecord /\ l.blocks[i].type \in BlockType
              /\ l.blocks[i].parts \in Seq(Nat)
<1>1. l.blocks \in Blocks
  BY LedgerFields DEF Sound
<1> QED BY <1>1, BlocksAre

\* Fields an operation on blocks leaves alone.
Kept(l, m) ==
  /\ m.tools = l.tools /\ m.stop_reason = l.stop_reason
  /\ m.started = l.started /\ m.stopped = l.stopped

StartedAt(l, m, i, type) ==
  /\ m.next = i + 1 /\ Kept(l, m) /\ m.said = l.said /\ m.thought = l.thought
  /\ m.stack = Append(l.stack, i) /\ Range(m.stack) = Range(l.stack) \cup {i}
  /\ DOMAIN m.blocks = DOMAIN l.blocks \cup {i} /\ m.blocks[i] = [type |-> type, parts |-> <<>>]
  /\ \A x \in DOMAIN l.blocks : m.blocks[x] = l.blocks[x]
  /\ m.text = (IF type = "text" THEN i ELSE l.text)
  /\ m.thinking = (IF type = "thinking" THEN i ELSE l.thinking)
  /\ m.text_on = (type = "text" \/ l.text_on)
  /\ m.thinking_on = (type = "thinking" \/ l.thinking_on)

LEMMA StartRecorded ==
  ASSUME NEW l, Sound(l), NEW i \in Nat, i >= l.next, NEW type \in BlockType
  PROVE  Sound(RecordStart(l, i, type)) /\ StartedAt(l, RecordStart(l, i, type), i, type)
<1> DEFINE block == [type |-> type, parts |-> <<>>]
           blocks == Put(l.blocks, i, block)
           m == RecordStart(l, i, type)
<1>1. l \in Ledger /\ l.blocks \in Blocks /\ block \in BlockRecord /\ l.next \in Nat
  <2>1. l \in Ledger
    BY DEF Sound
  <2>2. block \in BlockRecord
    BY DEF BlockRecord
  <2> QED BY <2>1, <2>2, LedgerFields
<1>2. i \notin DOMAIN l.blocks
  <2>1. l.next \in Nat /\ DOMAIN l.blocks \subseteq Nat
    BY <1>1, SoundBlocks DEF Ledger
  <2> QED BY <2>1 DEF Sound
<1>3. /\ blocks \in Blocks /\ DOMAIN blocks = DOMAIN l.blocks \cup {i}
      /\ blocks[i] = block /\ \A x \in DOMAIN l.blocks : blocks[x] = l.blocks[x]
  <2> HIDE DEF block
  <2>1. l.blocks \in Partial(BlockRecord)
    BY <1>1 DEF Blocks
  <2>2. /\ blocks \in Partial(BlockRecord) /\ DOMAIN blocks = DOMAIN l.blocks \cup {i}
        /\ blocks[i] = block /\ \A x \in DOMAIN l.blocks \ {i} : blocks[x] = l.blocks[x]
    <3> DEFINE f == l.blocks
    <3>1. f \in Partial(BlockRecord) /\ block \in BlockRecord
      BY <1>1, <2>1
    <3> HIDE DEF f
    <3>2. Put(f, i, block) \in Partial(BlockRecord)
      BY <3>1, PutIn
    <3>3. DOMAIN Put(f, i, block) = DOMAIN f \cup {i} /\ Put(f, i, block)[i] = block
      BY DEF Put
    <3>4. \A x \in DOMAIN f \ {i} : Put(f, i, block)[x] = f[x]
      BY DEF Put
    <3> QED BY <3>2, <3>3, <3>4 DEF f
  <2> HIDE DEF blocks
  <2> QED BY <1>2, <2>2 DEF Blocks
<1>4. /\ l.stack \in Seq(Nat) /\ Append(l.stack, i) \in Seq(Nat) /\ Distinct(Append(l.stack, i))
      /\ Range(Append(l.stack, i)) = Range(l.stack) \cup {i}
  BY <1>1, <1>2, AppendDistinct DEF Sound, Ledger
<1> HIDE DEF block, blocks
<1>5. m = [l EXCEPT !.next = i + 1,
                    !.text = IF type = "text" THEN i ELSE @,
                    !.text_on = type = "text" \/ @,
                    !.thinking = IF type = "thinking" THEN i ELSE @,
                    !.thinking_on = type = "thinking" \/ @,
                    !.blocks = blocks,
                    !.stack = Append(@, i)]
  <2>1. l.next \in Nat /\ (IF l.next > i THEN l.next ELSE i + 1) = i + 1
    BY <1>1
  <2> QED BY <2>1 DEF RecordStart, blocks, block
<1> HIDE DEF m
<1>6. /\ m.next = i + 1 /\ Kept(l, m) /\ m.said = l.said /\ m.thought = l.thought
      /\ m.stack = Append(l.stack, i) /\ m.blocks = blocks
      /\ m.text = (IF type = "text" THEN i ELSE l.text)
      /\ m.thinking = (IF type = "thinking" THEN i ELSE l.thinking)
      /\ m.text_on = (type = "text" \/ l.text_on)
      /\ m.thinking_on = (type = "thinking" \/ l.thinking_on)
  BY <1>1, <1>5 DEF Ledger, Kept
<1>7. m \in Ledger
  <2> DEFINE text == IF type = "text" THEN i ELSE l.text
             thinking == IF type = "thinking" THEN i ELSE l.thinking
             text_on == type = "text" \/ l.text_on
             thinking_on == type = "thinking" \/ l.thinking_on
             next == i + 1
             stack == Append(l.stack, i)
  <2>1. next \in Nat /\ text \in Int /\ thinking \in Int /\ stack \in Seq(Nat)
    <3>1. l.text \in Int /\ l.thinking \in Int
      BY <1>1, LedgerFields
    <3>2. text \in Int
      BY <3>1
    <3>3. thinking \in Int
      BY <3>1
    <3>4. next \in Nat
      OBVIOUS
    <3>5. stack \in Seq(Nat)
      BY <1>4
    <3> QED BY <3>2, <3>3, <3>4, <3>5
  <2>3. text_on \in BOOLEAN /\ thinking_on \in BOOLEAN
    OBVIOUS
  <2>2. m = [l EXCEPT !.next = next, !.text = text, !.text_on = text_on, !.thinking = thinking,
                      !.thinking_on = thinking_on, !.blocks = blocks, !.stack = stack]
    BY <1>5
  <2> HIDE DEF text, thinking, text_on, thinking_on, next, stack
  <2> QED BY <1>1, <1>3, <2>1, <2>2, <2>3 DEF Ledger
<1>8. StartedAt(l, m, i, type)
  BY <1>3, <1>4, <1>6 DEF StartedAt, block
<1>9. Sound(m)
  <2>1. \A x \in DOMAIN m.blocks : x < m.next
    <3>1. l.next \in Nat /\ DOMAIN l.blocks \subseteq Nat /\ \A x \in DOMAIN l.blocks : x < l.next
      BY <1>1, SoundBlocks DEF Sound, Ledger
    <3> QED BY <1>3, <1>6, <3>1
  <2>2. Distinct(m.stack) /\ Range(m.stack) \subseteq DOMAIN m.blocks
    BY <1>3, <1>4, <1>6 DEF Sound
  <2>3. m.text_on => m.text \in Range(m.stack) /\ m.blocks[m.text].type = "text"
    <3>1. CASE type = "text"
      BY <1>3, <1>4, <1>6, <3>1 DEF block
    <3>2. CASE type # "text"
      BY <1>3, <1>4, <1>6, <3>2 DEF Sound
    <3> QED BY <3>1, <3>2
  <2>4. m.thinking_on => m.thinking \in Range(m.stack) /\ m.blocks[m.thinking].type = "thinking"
    <3>1. CASE type = "thinking"
      BY <1>3, <1>4, <1>6, <3>1 DEF block
    <3>2. CASE type # "thinking"
      BY <1>3, <1>4, <1>6, <3>2 DEF Sound
    <3> QED BY <3>1, <3>2
  <2>5. HasContentBlock(m)
    BY <1>3, <1>6 DEF HasContentBlock
  <2> QED BY <1>7, <2>1, <2>2, <2>3, <2>4, <2>5 DEF Sound
<1> QED BY <1>8, <1>9 DEF m

GrownAt(l, m, i, data) ==
  /\ Kept(l, m) /\ m.next = l.next /\ m.stack = l.stack
  /\ m.text = l.text /\ m.thinking = l.thinking
  /\ m.text_on = l.text_on /\ m.thinking_on = l.thinking_on
  /\ DOMAIN m.blocks = DOMAIN l.blocks
  /\ m.blocks[i] = [type |-> l.blocks[i].type, parts |-> l.blocks[i].parts \o data]
  /\ \A x \in DOMAIN l.blocks \ {i} : m.blocks[x] = l.blocks[x]
  /\ m.said = (IF l.blocks[i].type = "text" THEN l.said \o data ELSE l.said)
  /\ m.thought = (IF l.blocks[i].type = "thinking" THEN l.thought \o data ELSE l.thought)

LEMMA DeltaRecorded ==
  ASSUME NEW l, Sound(l), NEW i \in DOMAIN l.blocks, NEW data \in Seq(Nat)
  PROVE  Sound(RecordDelta(l, i, data)) /\ GrownAt(l, RecordDelta(l, i, data), i, data)
<1> DEFINE type == l.blocks[i].type
           block == [l.blocks[i] EXCEPT !.parts = @ \o data]
           blocks == [l.blocks EXCEPT ![i] = block]
           m == RecordDelta(l, i, data)
<1>1. /\ l \in Ledger /\ l.blocks \in Blocks /\ DOMAIN l.blocks \subseteq Nat
      /\ l.blocks = [x \in DOMAIN l.blocks |-> l.blocks[x]]
      /\ \A x \in DOMAIN l.blocks : l.blocks[x] \in BlockRecord
  BY SoundBlocks, LedgerFields DEF Sound
<1>2. block \in BlockRecord /\ block = [type |-> type, parts |-> l.blocks[i].parts \o data]
  <2>1. \A r \in BlockRecord : /\ [r EXCEPT !.parts = @ \o data] \in BlockRecord
                               /\ [r EXCEPT !.parts = @ \o data]
                                    = [type |-> r.type, parts |-> r.parts \o data]
    <3> SUFFICES ASSUME NEW r \in BlockRecord
                 PROVE  /\ [r EXCEPT !.parts = @ \o data] \in BlockRecord
                        /\ [r EXCEPT !.parts = @ \o data]
                             = [type |-> r.type, parts |-> r.parts \o data]
      OBVIOUS
    <3>1. r = [type |-> r.type, parts |-> r.parts] /\ r.type \in BlockType /\ r.parts \in Seq(Nat)
      BY DEF BlockRecord
    <3>2. r.parts \o data \in Seq(Nat)
      BY <3>1, ConcatProperties
    <3> DEFINE longer == r.parts \o data
    <3> HIDE DEF longer
    <3>3. [r EXCEPT !.parts = longer] = [type |-> r.type, parts |-> longer]
      BY <3>1
    <3> QED BY <3>1, <3>2, <3>3 DEF BlockRecord, longer
  <2> QED BY <1>1, <2>1
<1> HIDE DEF block
<1>3. /\ blocks \in Blocks /\ DOMAIN blocks = DOMAIN l.blocks /\ blocks[i] = block
      /\ \A x \in DOMAIN l.blocks \ {i} : blocks[x] = l.blocks[x]
  <2>1. blocks \in [DOMAIN l.blocks -> BlockRecord] /\ DOMAIN blocks = DOMAIN l.blocks
    BY <1>1, <1>2
  <2>2. blocks \in Blocks
    <3> HIDE DEF blocks
    <3> QED BY <1>1, <2>1, PartialIs DEF Blocks
  <2> QED BY <1>1, <2>1, <2>2
<1> HIDE DEF blocks
<1>4. m = [l EXCEPT !.blocks = blocks,
                    !.said = IF type = "text" THEN @ \o data ELSE @,
                    !.thought = IF type = "thinking" THEN @ \o data ELSE @]
  BY <1>1 DEF RecordDelta, blocks, block, Ledger
<1> HIDE DEF m
<1>5. /\ Kept(l, m) /\ m.next = l.next /\ m.stack = l.stack /\ m.blocks = blocks
      /\ m.text = l.text /\ m.thinking = l.thinking
      /\ m.text_on = l.text_on /\ m.thinking_on = l.thinking_on
      /\ m.said = (IF type = "text" THEN l.said \o data ELSE l.said)
      /\ m.thought = (IF type = "thinking" THEN l.thought \o data ELSE l.thought)
  BY <1>1, <1>4 DEF Ledger, Kept
<1>6. m \in Ledger
  <2>1. l.said \o data \in Seq(Nat) /\ l.thought \o data \in Seq(Nat)
    BY <1>1, LedgerFields, ConcatProperties
  <2> HIDE DEF type
  <2> QED BY <1>1, <1>3, <1>4, <2>1 DEF Ledger
<1>7. GrownAt(l, m, i, data)
  BY <1>2, <1>3, <1>5 DEF GrownAt
<1>8. \A x \in DOMAIN l.blocks : m.blocks[x].type = l.blocks[x].type
  <2>1. block.type = type
    BY <1>2
  <2> QED BY <2>1, <1>3, <1>5
<1>9. Sound(m)
  <2>1. /\ Distinct(m.stack) /\ Range(m.stack) \subseteq DOMAIN m.blocks
        /\ \A x \in DOMAIN m.blocks : x < m.next
    BY <1>3, <1>5 DEF Sound
  <2>2. m.text_on => m.text \in Range(m.stack) /\ m.blocks[m.text].type = "text"
    BY <1>5, <1>8 DEF Sound
  <2>3. m.thinking_on => m.thinking \in Range(m.stack) /\ m.blocks[m.thinking].type = "thinking"
    BY <1>5, <1>8 DEF Sound
  <2>4. HasContentBlock(m)
    BY <1>3, <1>5 DEF HasContentBlock
  <2> QED BY <1>6, <2>1, <2>2, <2>3, <2>4 DEF Sound
<1> QED BY <1>7, <1>9 DEF m

StoppedAt(l, m, i) ==
  /\ Kept(l, m) /\ m.next = l.next /\ m.blocks = l.blocks
  /\ m.said = l.said /\ m.thought = l.thought
  /\ m.text = l.text /\ m.thinking = l.thinking
  /\ m.stack = Unstacked(l.stack, i) /\ Range(m.stack) = Range(l.stack) \ {i}
  /\ m.text_on = (l.text_on /\ i # l.text)
  /\ m.thinking_on = (l.thinking_on /\ i # l.thinking)

LEMMA StopRecorded ==
  ASSUME NEW l, Sound(l), NEW i \in Range(l.stack)
  PROVE  Sound(RecordStop(l, i)) /\ StoppedAt(l, RecordStop(l, i), i)
<1> DEFINE m == RecordStop(l, i)
           stack == Unstacked(l.stack, i)
<1>1. l \in Ledger /\ l.stack \in Seq(Nat)
  BY DEF Sound, Ledger
<1>2. stack \in Seq(Nat) /\ Distinct(stack) /\ Range(stack) = Range(l.stack) \ {i}
  BY <1>1, UnstackedIs DEF Sound
<1> HIDE DEF stack
<1>3. m = [l EXCEPT !.text_on = @ /\ ~ (i \in DOMAIN l.blocks /\ l.blocks[i].type = "text" /\ l.text = i),
                    !.thinking_on = @ /\ ~ (i \in DOMAIN l.blocks /\ l.blocks[i].type = "thinking"
                                            /\ l.thinking = i),
                    !.stack = stack]
  BY <1>1 DEF RecordStop, Deactivate, stack, Ledger
<1> HIDE DEF m
<1>4. /\ Kept(l, m) /\ m.next = l.next /\ m.blocks = l.blocks
      /\ m.said = l.said /\ m.thought = l.thought
      /\ m.text = l.text /\ m.thinking = l.thinking /\ m.stack = stack
      /\ m.text_on = (l.text_on /\ ~ (i \in DOMAIN l.blocks /\ l.blocks[i].type = "text" /\ l.text = i))
      /\ m.thinking_on = (l.thinking_on /\ ~ (i \in DOMAIN l.blocks /\ l.blocks[i].type = "thinking"
                                              /\ l.thinking = i))
  BY <1>1, <1>3 DEF Ledger, Kept
<1>5. m \in Ledger
  BY <1>1, <1>2, <1>3 DEF Ledger
<1>6. m.text_on = (l.text_on /\ i # l.text) /\ m.thinking_on = (l.thinking_on /\ i # l.thinking)
  <2>1. i \in DOMAIN l.blocks /\ l.text_on \in BOOLEAN /\ l.thinking_on \in BOOLEAN
    BY <1>1 DEF Sound, Ledger
  <2>2. l.text_on /\ i = l.text => l.blocks[i].type = "text"
    BY DEF Sound
  <2>3. l.thinking_on /\ i = l.thinking => l.blocks[i].type = "thinking"
    BY DEF Sound
  <2> QED BY <1>4, <2>1, <2>2, <2>3
<1>7. StoppedAt(l, m, i)
  BY <1>2, <1>4, <1>6 DEF StoppedAt, stack
<1>8. Sound(m)
  BY <1>2, <1>4, <1>5, <1>6 DEF Sound, HasContentBlock, Unsaid
<1> QED BY <1>7, <1>8 DEF m
-----------------------------------------------------------------------------
(* What a client is after the next event.                                   *)

TextAfter(c, e) ==
  IF e.name = "content_block_delta" /\ e.type = "text" THEN c.text \o e.data ELSE c.text
ArgsAfter(c, e) ==
  IF e.name = "content_block_start" /\ e.type = "tool_use" THEN Put(c.args, e.i, <<>>)
  ELSE IF e.name = "content_block_delta" /\ e.type = "tool_use" /\ e.i \in DOMAIN c.args
  THEN Put(c.args, e.i, c.args[e.i] \o e.data) ELSE c.args
OpenAfter(c, e) ==
  IF e.name = "content_block_start" THEN c.open \cup {[i |-> e.i, type |-> e.type]}
  ELSE IF e.name = "content_block_stop" THEN {b \in c.open : b.i # e.i} ELSE c.open
PhaseAfter(c, e) ==
  IF e.name = "message_start" THEN "open"
  ELSE IF e.name = "message_stop" THEN "stopped" ELSE c.phase
EventAfter(e) ==
  [name |-> e.name, i |-> e.i,
   type |-> IF e.name = "content_block_stop" \/ e.i = NoIndex THEN "" ELSE e.type]

LEMMA ReadIs ==
  ASSUME NEW c \in Client, NEW e \in Event
  PROVE  /\ Read(c, e) = [phase |-> PhaseAfter(c, e), open |-> OpenAfter(c, e),
                          seen |-> IF e.name = "content_block_start" THEN c.seen \cup {e.i}
                                   ELSE c.seen,
                          text |-> TextAfter(c, e), args |-> ArgsAfter(c, e),
                          error |-> e.name = "error" \/ c.error, event |-> EventAfter(e)]
<1>1. e.name \in {"message_start", "content_block_start", "content_block_delta",
                  "content_block_stop", "message_delta", "message_stop", "error"}
  BY DEF Event
<1>2. c = [phase |-> c.phase, open |-> c.open, seen |-> c.seen, text |-> c.text,
           args |-> c.args, error |-> c.error, event |-> c.event] /\ c.error \in BOOLEAN
  BY DEF Client
<1> USE DEF Read, TextAfter, ArgsAfter, OpenAfter, PhaseAfter, EventAfter
<1>3. CASE e.name = "message_start"
  BY <1>2, <1>3
<1>4. CASE e.name = "content_block_start"
  BY <1>2, <1>4
<1>5. CASE e.name = "content_block_delta"
  BY <1>2, <1>5
<1>6. CASE e.name = "content_block_stop"
  BY <1>2, <1>6
<1>7. CASE e.name = "message_delta"
  BY <1>2, <1>7
<1>8. CASE e.name = "message_stop"
  BY <1>2, <1>8
<1>9. CASE e.name = "error"
  BY <1>2, <1>9
<1> QED BY <1>1, <1>3, <1>4, <1>5, <1>6, <1>7, <1>8, <1>9

LEMMA ReadFields ==
  ASSUME NEW c \in Client, NEW e \in Event
  PROVE  /\ Read(c, e).phase = PhaseAfter(c, e) /\ Read(c, e).open = OpenAfter(c, e)
         /\ Read(c, e).seen = (IF e.name = "content_block_start" THEN c.seen \cup {e.i} ELSE c.seen)
         /\ Read(c, e).text = TextAfter(c, e) /\ Read(c, e).args = ArgsAfter(c, e)
         /\ Read(c, e).error = (e.name = "error" \/ c.error) /\ Read(c, e).event = EventAfter(e)
BY ReadIs

LEMMA ReadClient ==
  ASSUME NEW c \in Client, NEW e \in Event, Legal(c, e)
  PROVE  Read(c, e) \in Client
<1>1. /\ c.phase \in {"new", "open", "stopped"} /\ c.open \in SUBSET [i : Nat, type : BlockType]
      /\ c.seen \in SUBSET Nat /\ c.text \in Seq(Nat) /\ c.args \in Args /\ c.error \in BOOLEAN
  BY DEF Client
<1>2. /\ e.name \in EventName /\ e.i \in Int /\ e.type \in EventType /\ e.data \in Seq(Nat)
  BY DEF Event, EventName, EventType
<1>3. e.name = "content_block_start" => e.i \in Nat /\ e.type \in BlockType
  BY DEF Legal
<1>4. PhaseAfter(c, e) \in {"new", "open", "stopped"}
  BY <1>1 DEF PhaseAfter
<1>5. OpenAfter(c, e) \in SUBSET [i : Nat, type : BlockType]
  BY <1>1, <1>3 DEF OpenAfter
<1>6. TextAfter(c, e) \in Seq(Nat)
  BY <1>1, <1>2, ConcatProperties DEF TextAfter
<1>7. ArgsAfter(c, e) \in Args
  <2>1. CASE e.name = "content_block_start" /\ e.type = "tool_use"
    <3>1. <<>> \in Seq(Nat)
      OBVIOUS
    <3> DEFINE z == <<>>
    <3> HIDE DEF z
    <3>2. Put(c.args, e.i, z) \in Args
      BY <1>1, <1>3, <2>1, <3>1, PutIn DEF Args, z
    <3> QED BY <2>1, <3>2 DEF ArgsAfter, z
  <2>2. CASE e.name = "content_block_delta" /\ e.type = "tool_use" /\ e.i \in DOMAIN c.args
    <3>1. e.i \in Nat /\ c.args[e.i] \in Seq(Nat)
      BY <1>1, <2>2, PartialIs DEF Args
    <3> DEFINE z == c.args[e.i] \o e.data
    <3>2. z \in Seq(Nat)
      BY <1>2, <3>1, ConcatProperties
    <3> HIDE DEF z
    <3>3. Put(c.args, e.i, z) \in Args
      BY <1>1, <3>1, <3>2, PutIn DEF Args
    <3> QED BY <2>2, <3>3 DEF ArgsAfter, z
  <2> QED BY <1>1, <2>1, <2>2 DEF ArgsAfter
<1>8. EventAfter(e) \in [name : EventName, i : Int, type : EventType]
  <2>1. (IF e.name = "content_block_stop" \/ e.i = NoIndex THEN "" ELSE e.type) \in EventType
    BY <1>2 DEF EventType
  <2> QED BY <1>2, <2>1 DEF EventAfter
<1>9. (IF e.name = "content_block_start" THEN c.seen \cup {e.i} ELSE c.seen) \in SUBSET Nat
  BY <1>1, <1>3
<1>10. (e.name = "error" \/ c.error) \in BOOLEAN
  OBVIOUS
<1> DEFINE p == PhaseAfter(c, e)
           o == OpenAfter(c, e)
           s == IF e.name = "content_block_start" THEN c.seen \cup {e.i} ELSE c.seen
           t == TextAfter(c, e)
           a == ArgsAfter(c, e)
           r == e.name = "error" \/ c.error
           v == EventAfter(e)
<1>11. Read(c, e) = [phase |-> p, open |-> o, seen |-> s, text |-> t, args |-> a, error |-> r,
                     event |-> v]
  BY ReadIs
<1>12. /\ p \in {"new", "open", "stopped"} /\ o \in SUBSET [i : Nat, type : BlockType]
       /\ s \in SUBSET Nat /\ t \in Seq(Nat) /\ a \in Args /\ r \in BOOLEAN
       /\ v \in [name : EventName, i : Int, type : EventType]
  BY <1>4, <1>5, <1>6, <1>7, <1>8, <1>9, <1>10
<1> HIDE DEF p, o, s, t, a, r, v
<1> QED BY <1>11, <1>12 DEF Client

-----------------------------------------------------------------------------
(* Each operation of the ledger tells a client that listens.                *)

\* One more event, after which the client agrees with the next ledger.
LEMMA OneMore ==
  ASSUME NEW c, NEW w, Tells(c, w), NEW l, NEW e \in Event, Sound(l),
         \A d \in Client : Agrees(d, w.l) => Legal(d, e) /\ Agrees(Read(d, e), l)
  PROVE  Tells(c, Emit(w, l, e))
<1>1. PICK d : Knows(c, w, d)
  BY DEF Tells
<1>2. w.out \in Seq(Event)
  BY DEF Tells, WorkRecord
<1>3. Legal(d, e) /\ Agrees(Read(d, e), l) /\ Read(d, e) \in Client
  BY <1>1, ReadClient DEF Knows
<1>4. Path(c.from, Append(w.out, e), Read(d, e))
  BY <1>1, <1>2, <1>3, PathAppend DEF Knows
<1>7. c.error => Read(d, e).error
  BY <1>1, ReadFields DEF Knows
<1>5. Emit(w, l, e) = [l |-> l, out |-> Append(w.out, e)] /\ Append(w.out, e) \in Seq(Event)
  BY <1>2 DEF Emit
<1> DEFINE es == Append(w.out, e)
<1> HIDE DEF es
<1>6. Emit(w, l, e) \in WorkRecord
  BY <1>5 DEF WorkRecord, es, Sound
<1> QED BY <1>3, <1>4, <1>5, <1>6, <1>7 DEF Tells, Knows

LEMMA ToldFields ==
  ASSUME NEW c, NEW w, Tells(c, w)
  PROVE  /\ w \in WorkRecord /\ w.l \in Ledger /\ Sound(w.l) /\ w.out \in Seq(Event)
         /\ w = [l |-> w.l, out |-> w.out]
BY DEF Tells, WorkRecord

LEMMA EmitIs ==
  ASSUME NEW w, NEW l, NEW e
  PROVE  Emit(w, l, e).l = l /\ Emit(w, l, e).out = Append(w.out, e)
BY DEF Emit

\* A block that starts at a new index.
LEMMA StartTold ==
  ASSUME NEW c, NEW w, Tells(c, w), Speaks(w), NEW i \in Nat, i >= w.l.next, NEW type \in BlockType
  PROVE  /\ Tells(c, BlockStart(w, i, type)) /\ Speaks(BlockStart(w, i, type))
         /\ StartedAt(w.l, BlockStart(w, i, type).l, i, type)
<1> DEFINE l == w.l
           m == RecordStart(w.l, i, type)
           e == Ev("content_block_start", i, type, <<>>)
<1>1. /\ Sound(l) /\ Sound(m) /\ StartedAt(l, m, i, type)
  BY ToldFields, StartRecorded
<1>2. e \in Event /\ e.name = "content_block_start" /\ e.i = i /\ e.type = type /\ e.data = <<>>
  <2>1. <<>> \in Seq(Nat)
    OBVIOUS
  <2>2. i \in Int
    OBVIOUS
  <2>3. type \in EventType
    BY DEF EventType
  <2> QED BY <2>1, <2>2, <2>3 DEF Ev, Event, EventType
<1>3. i \notin DOMAIN l.blocks /\ Range(l.stack) \subseteq DOMAIN l.blocks
  <2>1. l.next \in Nat /\ DOMAIN l.blocks \subseteq Nat
    BY <1>1, LedgerFields, SoundBlocks DEF Sound
  <2> QED BY <1>1, <2>1 DEF Sound
<1>4. BlockStart(w, i, type) = Emit(w, m, e)
  BY DEF BlockStart
<1> HIDE DEF m, e
<1>5. ASSUME NEW d \in Client, Agrees(d, l)
      PROVE  Legal(d, e) /\ Agrees(Read(d, e), m)
  <2>1. Legal(d, e)
    BY <1>2, <1>3, <1>5 DEF Legal, Agrees, PhaseOf, Speaks
  <2>2. PhaseAfter(d, e) = PhaseOf(m)
    BY <1>1, <1>2, <1>5 DEF PhaseAfter, PhaseOf, Agrees, StartedAt, Kept
  <2>3. OpenAfter(d, e) = OpenOf(m)
    <3>1. OpenOf(m) = OpenOf(l) \cup {[i |-> i, type |-> type]}
      <4>1. m.blocks[i].type = type /\ \A x \in Range(l.stack) : m.blocks[x] = l.blocks[x]
        BY <1>1, <1>3 DEF StartedAt
      <4> QED BY <1>1, <4>1 DEF OpenOf, StartedAt
    <3> QED BY <1>2, <1>5, <3>1 DEF OpenAfter, Agrees
  <2>4. d.seen \cup {i} = DOMAIN m.blocks
    BY <1>1, <1>5 DEF Agrees, StartedAt
  <2>5. TextAfter(d, e) = m.said
    BY <1>1, <1>2, <1>5 DEF TextAfter, Agrees, StartedAt
  <2>6. ArgsAfter(d, e) = ArgsOf(m)
    <3>1. d.args = ArgsOf(l)
      BY <1>5 DEF Agrees
    <3>2. CASE type = "tool_use"
      <4>1. ToolBlocks(m) = ToolBlocks(l) \cup {i} /\ m.blocks[i].parts = <<>>
        BY <1>1, <1>3, <3>2 DEF ToolBlocks, StartedAt
      <4>2. \A x \in ToolBlocks(l) : x # i /\ m.blocks[x] = l.blocks[x]
        BY <1>1, <1>3 DEF ToolBlocks, StartedAt
      <4>3. Put(ArgsOf(l), i, <<>>) = ArgsOf(m)
        BY <4>1, <4>2 DEF Put, ArgsOf
      <4> QED BY <1>2, <3>1, <3>2, <4>3 DEF ArgsAfter
    <3>3. CASE type # "tool_use"
      <4>1. ToolBlocks(m) = ToolBlocks(l)
        BY <1>1, <1>3, <3>3 DEF ToolBlocks, StartedAt
      <4>2. \A x \in ToolBlocks(l) : m.blocks[x] = l.blocks[x]
        BY <1>1, <1>3 DEF ToolBlocks, StartedAt
      <4>3. ArgsOf(l) = ArgsOf(m)
        BY <4>1, <4>2 DEF ArgsOf
      <4> QED BY <1>2, <3>1, <3>3, <4>3 DEF ArgsAfter
    <3> QED BY <3>2, <3>3
  <2> QED BY <1>2, <2>1, <2>2, <2>3, <2>4, <2>5, <2>6, ReadFields DEF Agrees
<1>6. Tells(c, Emit(w, m, e))
  BY <1>1, <1>2, <1>5, OneMore
<1>7. Emit(w, m, e).l = m
  BY EmitIs
<1>8. Speaks(Emit(w, m, e))
  BY <1>1, <1>7 DEF Speaks, StartedAt, Kept
<1> QED BY <1>1, <1>4, <1>6, <1>7, <1>8
\* A block that is open grows.
LEMMA GrowthTold ==
  ASSUME NEW c, NEW w, Tells(c, w), Speaks(w), NEW i \in Range(w.l.stack), NEW data \in Seq(Nat),
         NEW type, type = w.l.blocks[i].type, type # "redacted_thinking"
  PROVE  /\ Tells(c, BlockDelta(w, i, type, data)) /\ Speaks(BlockDelta(w, i, type, data))
         /\ GrownAt(w.l, BlockDelta(w, i, type, data).l, i, data)
<1> DEFINE l == w.l
           m == RecordDelta(w.l, i, data)
           e == Ev("content_block_delta", i, type, data)
<1>1. Sound(l) /\ i \in DOMAIN l.blocks /\ i \in Nat /\ type \in BlockType
  <2>1. Sound(l)
    BY ToldFields
  <2>2. i \in DOMAIN l.blocks
    BY <2>1 DEF Sound
  <2> QED BY <2>1, <2>2, SoundBlocks
<1>2. Sound(m) /\ GrownAt(l, m, i, data)
  BY <1>1, DeltaRecorded
<1>3. e \in Event /\ e.name = "content_block_delta" /\ e.i = i /\ e.type = type /\ e.data = data
  <2>1. i \in Int
    BY <1>1
  <2>2. type \in EventType
    BY <1>1 DEF EventType
  <2> QED BY <2>1, <2>2 DEF Ev, Event, EventType
<1>4. BlockDelta(w, i, type, data) = Emit(w, m, e)
  BY DEF BlockDelta
<1> HIDE DEF m, e
<1>5. ASSUME NEW d \in Client, Agrees(d, l)
      PROVE  Legal(d, e) /\ Agrees(Read(d, e), m)
  <2>1. Legal(d, e)
    <3>1. [i |-> i, type |-> type] \in OpenOf(l)
      BY DEF OpenOf
    <3> QED BY <1>1, <1>3, <1>5, <3>1 DEF Legal, Agrees, PhaseOf, Speaks
  <2>2. PhaseAfter(d, e) = PhaseOf(m)
    BY <1>2, <1>3, <1>5 DEF PhaseAfter, PhaseOf, Agrees, GrownAt, Kept
  <2>3. OpenAfter(d, e) = OpenOf(m)
    <3>1. \A x \in DOMAIN l.blocks : m.blocks[x].type = l.blocks[x].type
      BY <1>2 DEF GrownAt
    <3>2. OpenOf(m) = OpenOf(l)
      BY <1>1, <1>2, <3>1 DEF OpenOf, GrownAt, Sound
    <3> QED BY <1>3, <1>5, <3>2 DEF OpenAfter, Agrees
  <2>4. d.seen = DOMAIN m.blocks
    BY <1>2, <1>5 DEF Agrees, GrownAt
  <2>5. TextAfter(d, e) = m.said
    BY <1>2, <1>3, <1>5 DEF TextAfter, Agrees, GrownAt
  <2>6. ArgsAfter(d, e) = ArgsOf(m)
    <3>1. d.args = ArgsOf(l)
      BY <1>5 DEF Agrees
    <3>2. ToolBlocks(m) = ToolBlocks(l)
      <4>1. \A x \in DOMAIN l.blocks : m.blocks[x].type = l.blocks[x].type
        BY <1>2 DEF GrownAt
      <4> QED BY <1>2, <4>1 DEF ToolBlocks, GrownAt
    <3>3. CASE type = "tool_use"
      <4>1. i \in ToolBlocks(l) /\ DOMAIN ArgsOf(l) = ToolBlocks(l)
        BY <1>1, <3>3 DEF ToolBlocks, ArgsOf
      <4>2. m.blocks[i].parts = l.blocks[i].parts \o data /\ ArgsOf(l)[i] = l.blocks[i].parts
        BY <1>2, <4>1 DEF GrownAt, ArgsOf
      <4>3. \A x \in ToolBlocks(l) \ {i} : m.blocks[x] = l.blocks[x]
        BY <1>2 DEF ToolBlocks, GrownAt
      <4>4. Put(ArgsOf(l), i, ArgsOf(l)[i] \o data) = ArgsOf(m)
        BY <3>2, <4>1, <4>2, <4>3 DEF Put, ArgsOf
      <4> QED BY <1>3, <3>1, <3>3, <4>1, <4>4 DEF ArgsAfter
    <3>4. CASE type # "tool_use"
      <4>1. i \notin ToolBlocks(l)
        BY <3>4 DEF ToolBlocks
      <4>2. \A x \in ToolBlocks(l) : m.blocks[x] = l.blocks[x]
        BY <1>2, <4>1 DEF ToolBlocks, GrownAt
      <4>3. ArgsOf(l) = ArgsOf(m)
        BY <3>2, <4>2 DEF ArgsOf
      <4> QED BY <1>3, <3>1, <3>4, <4>3 DEF ArgsAfter
    <3> QED BY <3>3, <3>4
  <2> QED BY <1>3, <2>1, <2>2, <2>3, <2>4, <2>5, <2>6, ReadFields DEF Agrees
<1>6. Tells(c, Emit(w, m, e))
  BY <1>2, <1>3, <1>5, OneMore
<1>7. Emit(w, m, e).l = m
  BY EmitIs
<1>8. Speaks(Emit(w, m, e))
  BY <1>2, <1>7 DEF Speaks, GrownAt, Kept
<1> QED BY <1>2, <1>4, <1>6, <1>7, <1>8

\* A block that is open stops.
LEMMA StopTold ==
  ASSUME NEW c, NEW w, Tells(c, w), Speaks(w), NEW i \in Range(w.l.stack)
  PROVE  /\ Tells(c, BlockStop(w, i)) /\ Speaks(BlockStop(w, i))
         /\ StoppedAt(w.l, BlockStop(w, i).l, i)
<1> DEFINE l == w.l
           m == RecordStop(w.l, i)
           e == Ev("content_block_stop", i, "", <<>>)
<1>1. Sound(l) /\ i \in DOMAIN l.blocks /\ i \in Nat
  <2>1. Sound(l)
    BY ToldFields
  <2>2. i \in DOMAIN l.blocks
    BY <2>1 DEF Sound
  <2> QED BY <2>1, <2>2, SoundBlocks
<1>2. Sound(m) /\ StoppedAt(l, m, i)
  BY <1>1, StopRecorded
<1>3. e \in Event /\ e.name = "content_block_stop" /\ e.i = i /\ e.type = "" /\ e.data = <<>>
  <2>1. i \in Int
    BY <1>1
  <2>2. <<>> \in Seq(Nat)
    OBVIOUS
  <2> QED BY <2>1, <2>2 DEF Ev, Event
<1>4. BlockStop(w, i) = Emit(w, m, e)
  BY DEF BlockStop
<1> HIDE DEF m, e
<1>5. ASSUME NEW d \in Client, Agrees(d, l)
      PROVE  Legal(d, e) /\ Agrees(Read(d, e), m)
  <2>1. Legal(d, e)
    <3> DEFINE b == [i |-> i, type |-> l.blocks[i].type]
    <3>1. b \in d.open /\ b.i = i
      BY <1>5 DEF Agrees, OpenOf
    <3>2. \A x \in d.open : x.i = i => x = b
      BY <1>5 DEF Agrees, OpenOf
    <3>3. d.open \ {b} = {x \in d.open : x.i # i}
      BY <3>1, <3>2
    <3>4. d.phase = "open"
      BY <1>5 DEF Agrees, PhaseOf, Speaks
    <3> HIDE DEF b
    <3> QED BY <1>1, <1>3, <3>1, <3>3, <3>4 DEF Legal
  <2>2. PhaseAfter(d, e) = PhaseOf(m)
    BY <1>2, <1>3, <1>5 DEF PhaseAfter, PhaseOf, Agrees, StoppedAt, Kept
  <2>3. OpenAfter(d, e) = OpenOf(m)
    <3>1. OpenOf(m) = {b \in OpenOf(l) : b.i # i}
      BY <1>2 DEF OpenOf, StoppedAt
    <3> QED BY <1>3, <1>5, <3>1 DEF OpenAfter, Agrees
  <2>4. d.seen = DOMAIN m.blocks /\ ToolBlocks(m) = ToolBlocks(l)
    BY <1>2, <1>5 DEF Agrees, StoppedAt, ToolBlocks
  <2>5. TextAfter(d, e) = m.said
    BY <1>2, <1>3, <1>5 DEF TextAfter, Agrees, StoppedAt
  <2>6. ArgsAfter(d, e) = ArgsOf(m)
    BY <1>2, <1>3, <1>5, <2>4 DEF ArgsAfter, ArgsOf, Agrees, StoppedAt
  <2> QED BY <1>3, <2>1, <2>2, <2>3, <2>4, <2>5, <2>6, ReadFields DEF Agrees
<1>6. Tells(c, Emit(w, m, e))
  BY <1>2, <1>3, <1>5, OneMore
<1>7. Emit(w, m, e).l = m
  BY EmitIs
<1>8. Speaks(Emit(w, m, e))
  BY <1>2, <1>7 DEF Speaks, StoppedAt, Kept
<1> QED BY <1>2, <1>4, <1>6, <1>7, <1>8

\* Everything but what an event of the whole message sets.
Same(l, m) ==
  /\ m.next = l.next /\ m.text = l.text /\ m.thinking = l.thinking /\ m.text_on = l.text_on
  /\ m.thinking_on = l.thinking_on /\ m.tools = l.tools /\ m.stack = l.stack
  /\ m.blocks = l.blocks /\ m.said = l.said /\ m.thought = l.thought

LEMMA SameSound ==
  ASSUME NEW l, Sound(l), NEW m \in Ledger, Same(l, m)
  PROVE  /\ Sound(m) /\ OpenOf(m) = OpenOf(l) /\ ArgsOf(m) = ArgsOf(l)
         /\ HasToolBlock(m) = HasToolBlock(l)
<1>1. Sound(m)
  BY DEF Sound, Same, HasContentBlock, Unsaid
<1>2. ToolBlocks(m) = ToolBlocks(l)
  BY DEF ToolBlocks, Same
<1>3. OpenOf(m) = OpenOf(l)
  BY DEF OpenOf, Same
<1>4. ArgsOf(m) = ArgsOf(l)
  BY <1>2 DEF ArgsOf, Same
<1> QED BY <1>1, <1>2, <1>3, <1>4 DEF HasToolBlock

\* An event of the whole message.
LEMMA NoticeTold ==
  ASSUME NEW c, NEW w, Tells(c, w), NEW l \in Ledger, Same(w.l, l),
         NEW e \in Event, e.name \in {"message_start", "message_delta", "message_stop", "error"},
         \A d \in Client : Agrees(d, w.l) => Legal(d, e) /\ PhaseAfter(d, e) = PhaseOf(l)
  PROVE  Tells(c, Emit(w, l, e)) /\ Emit(w, l, e).l = l
<1>1. Sound(w.l)
  BY ToldFields
<1>2. Sound(l) /\ OpenOf(l) = OpenOf(w.l) /\ ArgsOf(l) = ArgsOf(w.l)
  BY <1>1, SameSound
<1>3. ASSUME NEW d \in Client, Agrees(d, w.l)
      PROVE  Legal(d, e) /\ Agrees(Read(d, e), l)
  <2>1. /\ OpenAfter(d, e) = d.open /\ TextAfter(d, e) = d.text /\ ArgsAfter(d, e) = d.args
        /\ Read(d, e).seen = d.seen
    BY ReadFields DEF OpenAfter, TextAfter, ArgsAfter
  <2>2. Legal(d, e) /\ PhaseAfter(d, e) = PhaseOf(l)
    BY <1>3
  <2>3. Read(d, e).phase = PhaseOf(l) /\ Read(d, e).open = d.open
        /\ Read(d, e).text = d.text /\ Read(d, e).args = d.args
    BY <2>1, <2>2, ReadFields
  <2>4. d.open = OpenOf(l) /\ d.seen = DOMAIN l.blocks /\ d.text = l.said /\ d.args = ArgsOf(l)
    BY <1>2, <1>3, Zenon DEF Agrees, Same
  <2> QED BY <2>1, <2>2, <2>3, <2>4, Zenon DEF Agrees
<1>4. Tells(c, Emit(w, l, e))
  BY <1>2, <1>3, OneMore
<1> QED BY <1>4, EmitIs
LEMMA NothingIs == <<>> \in Seq(Nat)
OBVIOUS

LEMMA MessageStartTold ==
  ASSUME NEW c, NEW w, Tells(c, w), ~ w.l.started, ~ w.l.stopped
  PROVE  /\ Tells(c, MessageStart(w)) /\ Speaks(MessageStart(w)) /\ Same(w.l, MessageStart(w).l)
         /\ MessageStart(w).l.stop_reason = w.l.stop_reason
         /\ MessageStart(w).out = Append(w.out, Ev("message_start", NoIndex, "", <<>>))
<1> DEFINE l == w.l
           m == [w.l EXCEPT !.started = TRUE]
           e == Ev("message_start", NoIndex, "", <<>>)
<1>1. l \in Ledger
  BY ToldFields
<1>2. m \in Ledger
  BY <1>1 DEF Ledger
<1>3. Same(l, m) /\ m.started = TRUE /\ m.stopped = l.stopped /\ m.stop_reason = l.stop_reason
  BY <1>1 DEF Ledger, Same
<1>4. e \in Event /\ e.name = "message_start"
  <2>1. <<>> \in Seq(Nat)
    OBVIOUS
  <2> QED BY <2>1 DEF Ev, Event, NoIndex
<1>5. MessageStart(w) = Emit(w, m, e)
  BY DEF MessageStart
<1> HIDE DEF m, e
<1>6. \A d \in Client : Agrees(d, w.l) => Legal(d, e) /\ PhaseAfter(d, e) = PhaseOf(m)
  BY <1>3, <1>4 DEF Agrees, PhaseOf, Legal, PhaseAfter
<1>7. Tells(c, Emit(w, m, e)) /\ Emit(w, m, e).l = m
  BY <1>2, <1>3, <1>4, <1>6, NoticeTold
<1>8. MessageStart(w).out = Append(w.out, e)
  BY <1>5, EmitIs
<1>9. Speaks(MessageStart(w))
  BY <1>3, <1>5, <1>7 DEF Speaks
<1> QED BY <1>3, <1>5, <1>7, <1>8, <1>9 DEF e

LEMMA MessageDeltaTold ==
  ASSUME NEW c, NEW w, Tells(c, w), Speaks(w), NEW reason \in {"end_turn", "tool_use"}
  PROVE  /\ Tells(c, MessageDelta(w, reason)) /\ Speaks(MessageDelta(w, reason))
         /\ Same(w.l, MessageDelta(w, reason).l)
         /\ MessageDelta(w, reason).l.stop_reason = reason
<1> DEFINE l == w.l
           m == [w.l EXCEPT !.stop_reason = reason]
           e == Ev("message_delta", NoIndex, reason, <<>>)
<1>1. l \in Ledger
  BY ToldFields
<1>2. m \in Ledger
  <2>1. reason \in StopReason
    BY Zenon DEF StopReason
  <2> QED BY <1>1, <2>1 DEF Ledger
<1>3. Same(l, m) /\ m.started = l.started /\ m.stopped = l.stopped /\ m.stop_reason = reason
  BY <1>1 DEF Ledger, Same
<1>4. e \in Event /\ e.name = "message_delta"
  <2>1. <<>> \in Seq(Nat)
    BY NothingIs
  <2>3. CASE reason = "end_turn"
    BY <2>1, <2>3 DEF Ev, Event, NoIndex
  <2>4. CASE reason = "tool_use"
    BY <2>1, <2>4 DEF Ev, Event, NoIndex
  <2> QED BY <2>3, <2>4
<1>5. MessageDelta(w, reason) = Emit(w, m, e)
  BY DEF MessageDelta
<1> HIDE DEF m, e
<1>6. \A d \in Client : Agrees(d, w.l) => Legal(d, e) /\ PhaseAfter(d, e) = PhaseOf(m)
  BY <1>3, <1>4 DEF Agrees, PhaseOf, Legal, PhaseAfter, Speaks
<1>7. Tells(c, Emit(w, m, e)) /\ Emit(w, m, e).l = m
  BY <1>2, <1>3, <1>4, <1>6, NoticeTold
<1> QED BY <1>3, <1>5, <1>7 DEF Speaks

LEMMA TopLevelErrorTold ==
  ASSUME NEW c, NEW w, Tells(c, w), Speaks(w)
  PROVE  /\ Tells(c, TopLevelError(w)) /\ Speaks(TopLevelError(w)) /\ TopLevelError(w).l = w.l
         /\ \A b : b.from = c.from => Tells(b, TopLevelError(w))
<1> DEFINE l == w.l
           e == Ev("error", NoIndex, "", <<>>)
<1>1. l \in Ledger
  BY ToldFields
<1>2. Same(l, l)
  BY DEF Same
<1>3. e \in Event /\ e.name = "error"
  <2>1. <<>> \in Seq(Nat)
    OBVIOUS
  <2> QED BY <2>1 DEF Ev, Event, NoIndex
<1>4. TopLevelError(w) = Emit(w, l, e)
  BY DEF TopLevelError
<1> HIDE DEF e
<1>5. \A d \in Client : Agrees(d, l) => Legal(d, e) /\ PhaseAfter(d, e) = PhaseOf(l)
  BY <1>3 DEF Agrees, PhaseOf, Legal, PhaseAfter, Speaks
<1>6. Tells(c, Emit(w, l, e)) /\ Emit(w, l, e).l = l
  BY <1>1, <1>2, <1>3, <1>5, NoticeTold
<1>7. PICK d : Knows(c, w, d)
  BY DEF Tells
<1>8. /\ Legal(d, e) /\ Read(d, e).error /\ Read(d, e) \in Client /\ Agrees(Read(d, e), l)
  <2>1. /\ OpenAfter(d, e) = d.open /\ TextAfter(d, e) = d.text /\ ArgsAfter(d, e) = d.args
        /\ Read(d, e).seen = d.seen /\ PhaseAfter(d, e) = d.phase
    BY <1>3, <1>7, ReadFields DEF OpenAfter, TextAfter, ArgsAfter, PhaseAfter, Knows
  <2>2. d \in Client /\ Agrees(d, l) /\ Legal(d, e)
    BY <1>5, <1>7 DEF Knows
  <2>3. Read(d, e) \in Client /\ Read(d, e).error
    BY <1>3, <2>2, ReadClient, ReadFields
  <2>4. Agrees(Read(d, e), l)
    BY <1>3, <2>1, <2>2, ReadFields DEF Agrees
  <2> QED BY <2>2, <2>3, <2>4
<1>9. Path(c.from, Append(w.out, e), Read(d, e))
  BY <1>3, <1>7, <1>8, ToldFields, PathAppend DEF Knows
<1>10. \A b : b.from = c.from => Tells(b, Emit(w, l, e))
  <2>1. /\ Emit(w, l, e) \in WorkRecord /\ Sound(Emit(w, l, e).l)
        /\ Emit(w, l, e).out = Append(w.out, e)
    BY <1>6, EmitIs DEF Tells
  <2> SUFFICES ASSUME NEW b, b.from = c.from PROVE Knows(b, Emit(w, l, e), Read(d, e))
    BY <2>1 DEF Tells
  <2> QED BY <1>6, <1>8, <1>9, <2>1 DEF Knows
<1> QED BY <1>4, <1>6, <1>10 DEF Speaks

LEMMA MessageStopTold ==
  ASSUME NEW c, NEW w, Tells(c, w), Speaks(w), Range(w.l.stack) = {}, HasContentBlock(w.l)
  PROVE  /\ Tells(c, MessageStop(w)) /\ MessageStop(w).l.stopped /\ MessageStop(w).l.started
         /\ Same(w.l, MessageStop(w).l) /\ MessageStop(w).l.stop_reason = w.l.stop_reason
<1> DEFINE l == w.l
           m == [w.l EXCEPT !.stopped = TRUE]
           e == Ev("message_stop", NoIndex, "", <<>>)
<1>1. l \in Ledger
  BY ToldFields
<1>2. m \in Ledger
  BY <1>1 DEF Ledger
<1>3. Same(l, m) /\ m.stopped = TRUE /\ m.started = l.started /\ m.stop_reason = l.stop_reason
  BY <1>1 DEF Ledger, Same
<1>4. e \in Event /\ e.name = "message_stop"
  <2>1. <<>> \in Seq(Nat)
    OBVIOUS
  <2> QED BY <2>1 DEF Ev, Event, NoIndex
<1>5. MessageStop(w) = Emit(w, m, e)
  BY DEF MessageStop
<1> HIDE DEF m, e
<1>6. ASSUME NEW d \in Client, Agrees(d, l)
      PROVE  Legal(d, e) /\ PhaseAfter(d, e) = PhaseOf(m)
  <2>1. d.open = {} /\ d.seen # {}
    BY <1>6 DEF Agrees, OpenOf, HasContentBlock
  <2> QED BY <1>3, <1>4, <1>6, <2>1 DEF Agrees, PhaseOf, Legal, PhaseAfter, Speaks
<1>7. Tells(c, Emit(w, m, e)) /\ Emit(w, m, e).l = m
  BY <1>2, <1>3, <1>4, <1>6, NoticeTold
<1> QED BY <1>3, <1>5, <1>7 DEF Speaks
-----------------------------------------------------------------------------
(* Text and thinking.                                                       *)

\* The open blocks but the active text and the active thinking.
Rest(l) == {i \in Range(l.stack) : ~ (l.text_on /\ i = l.text) /\ ~ (l.thinking_on /\ i = l.thinking)}

\* What operations on text and thinking leave alone.
Content(l, m) ==
  /\ Kept(l, m) /\ DOMAIN l.blocks \subseteq DOMAIN m.blocks
  /\ \A i \in DOMAIN l.blocks : m.blocks[i].type = l.blocks[i].type
  /\ \A i \in ToolBlocks(l) : m.blocks[i] = l.blocks[i]
  /\ Rest(m) = Rest(l)

LEMMA ContentSelf ==
  ASSUME NEW l
  PROVE  Content(l, l)
BY DEF Content, Kept

LEMMA ContentTwice ==
  ASSUME NEW l, NEW m, NEW n, Content(l, m), Content(m, n)
  PROVE  Content(l, n)
<1>1. ToolBlocks(l) \subseteq ToolBlocks(m)
  BY DEF Content, ToolBlocks
<1>2. Kept(l, n)
  BY DEF Content, Kept
<1> QED BY <1>1, <1>2 DEF Content

LEMMA ContentHas ==
  ASSUME NEW l, NEW m, Content(l, m)
  PROVE  (HasContentBlock(l) => HasContentBlock(m)) /\ (HasToolBlock(l) => HasToolBlock(m))
BY DEF Content, HasContentBlock, HasToolBlock, ToolBlocks

\* The active blocks are different ones.
LEMMA OneActive ==
  ASSUME NEW l, Sound(l), l.text_on, l.thinking_on
  PROVE  l.text # l.thinking
BY DEF Sound

LEMMA StopTextTold ==
  ASSUME NEW c, NEW w, Tells(c, w), Speaks(w)
  PROVE  /\ Tells(c, StopText(w)) /\ Speaks(StopText(w)) /\ Content(w.l, StopText(w).l)
         /\ StopText(w).l.said = w.l.said /\ StopText(w).l.thought = w.l.thought
         /\ StopText(w).l.text = w.l.text /\ ~ StopText(w).l.text_on
         /\ StopText(w).l.thinking_on = w.l.thinking_on
         /\ StopText(w).l.blocks = w.l.blocks
<1> DEFINE l == w.l
<1>1. Sound(l) /\ l.text_on \in BOOLEAN /\ l.thinking_on \in BOOLEAN
  BY ToldFields, LedgerFields
<1>2. CASE l.text_on
  <2> DEFINE v == BlockStop(w, l.text)
  <2>1. StopText(w) = v
    BY <1>2 DEF StopText
  <2>2. l.text \in Range(l.stack) /\ l.blocks[l.text].type = "text"
    BY <1>1, <1>2 DEF Sound
  <2>3. Tells(c, v) /\ Speaks(v) /\ StoppedAt(l, v.l, l.text)
    BY <2>2, StopTold
  <2> HIDE DEF v
  <2>4. v.l.thinking_on = l.thinking_on
    BY <1>1, <1>2, <2>3, OneActive DEF StoppedAt
  <2>5. ~ v.l.text_on
    BY <2>3 DEF StoppedAt
  <2>6. Rest(v.l) = Rest(l)
    BY <1>2, <2>3, <2>4, <2>5 DEF Rest, StoppedAt
  <2>7. Content(l, v.l)
    BY <2>3, <2>6 DEF Content, StoppedAt
  <2> QED BY <2>1, <2>3, <2>4, <2>5, <2>7 DEF StoppedAt
<1>3. CASE ~ l.text_on
  <2>1. StopText(w) = w
    BY <1>3 DEF StopText
  <2> QED BY <1>3, <2>1, ContentSelf
<1> QED BY <1>2, <1>3

LEMMA StopThinkingTold ==
  ASSUME NEW c, NEW w, Tells(c, w), Speaks(w)
  PROVE  /\ Tells(c, StopThinking(w)) /\ Speaks(StopThinking(w)) /\ Content(w.l, StopThinking(w).l)
         /\ StopThinking(w).l.said = w.l.said /\ StopThinking(w).l.thought = w.l.thought
         /\ StopThinking(w).l.text = w.l.text /\ ~ StopThinking(w).l.thinking_on
         /\ StopThinking(w).l.text_on = w.l.text_on
         /\ StopThinking(w).l.blocks = w.l.blocks
<1> DEFINE l == w.l
<1>1. Sound(l) /\ l.text_on \in BOOLEAN /\ l.thinking_on \in BOOLEAN
  BY ToldFields, LedgerFields
<1>2. CASE l.thinking_on
  <2> DEFINE v == BlockStop(w, l.thinking)
  <2>1. StopThinking(w) = v
    BY <1>2 DEF StopThinking
  <2>2. l.thinking \in Range(l.stack) /\ l.blocks[l.thinking].type = "thinking"
    BY <1>1, <1>2 DEF Sound
  <2>3. Tells(c, v) /\ Speaks(v) /\ StoppedAt(l, v.l, l.thinking)
    BY <2>2, StopTold
  <2> HIDE DEF v
  <2>4. v.l.text_on = l.text_on
    BY <1>1, <1>2, <2>3, OneActive DEF StoppedAt
  <2>5. ~ v.l.thinking_on
    BY <2>3 DEF StoppedAt
  <2>6. Rest(v.l) = Rest(l)
    BY <1>2, <2>3, <2>4, <2>5 DEF Rest, StoppedAt
  <2>7. Content(l, v.l)
    BY <2>3, <2>6 DEF Content, StoppedAt
  <2> QED BY <2>1, <2>3, <2>4, <2>5, <2>7 DEF StoppedAt
<1>3. CASE ~ l.thinking_on
  <2>1. StopThinking(w) = w
    BY <1>3 DEF StopThinking
  <2> QED BY <1>3, <2>1, ContentSelf
<1> QED BY <1>2, <1>3

\* A block of text or thinking started where none is active.
LEMMA StartContent ==
  ASSUME NEW l, Sound(l), NEW m, NEW i \in Nat, i >= l.next, StartedAt(l, m, i, "text"), ~ l.text_on
  PROVE  Content(l, m) /\ m.text_on /\ m.thinking_on = l.thinking_on
<1>1. i \notin DOMAIN l.blocks /\ Range(l.stack) \subseteq DOMAIN l.blocks
  <2>1. l.next \in Nat /\ DOMAIN l.blocks \subseteq Nat
    BY LedgerFields, SoundBlocks DEF Sound
  <2> QED BY <2>1 DEF Sound
<1>2. m.text_on /\ m.thinking_on = l.thinking_on /\ m.text = i /\ m.thinking = l.thinking
  <2>1. l.thinking_on \in BOOLEAN
    BY LedgerFields DEF Sound
  <2>2. m.thinking_on = l.thinking_on
    BY <2>1 DEF StartedAt
  <2> QED BY <2>2 DEF StartedAt
<1>3. Rest(m) = Rest(l)
  BY <1>1, <1>2 DEF Rest, StartedAt
<1> QED BY <1>1, <1>2, <1>3 DEF Content, StartedAt, ToolBlocks

LEMMA StartThinkingContent ==
  ASSUME NEW l, Sound(l), NEW m, NEW i \in Nat, i >= l.next, StartedAt(l, m, i, "thinking"),
         ~ l.thinking_on
  PROVE  Content(l, m) /\ m.thinking_on /\ m.text_on = l.text_on
<1>1. i \notin DOMAIN l.blocks /\ Range(l.stack) \subseteq DOMAIN l.blocks
  <2>1. l.next \in Nat /\ DOMAIN l.blocks \subseteq Nat
    BY LedgerFields, SoundBlocks DEF Sound
  <2> QED BY <2>1 DEF Sound
<1>2. m.thinking_on /\ m.text_on = l.text_on /\ m.thinking = i /\ m.text = l.text
  <2>1. l.text_on \in BOOLEAN
    BY LedgerFields DEF Sound
  <2>2. m.text_on = l.text_on
    BY <2>1 DEF StartedAt
  <2> QED BY <2>2 DEF StartedAt
<1>3. Rest(m) = Rest(l)
  BY <1>1, <1>2 DEF Rest, StartedAt
<1> QED BY <1>1, <1>2, <1>3 DEF Content, StartedAt, ToolBlocks

LEMMA EnsureTextTold ==
  ASSUME NEW c, NEW w, Tells(c, w), Speaks(w)
  PROVE  /\ Tells(c, EnsureText(w)) /\ Speaks(EnsureText(w)) /\ Content(w.l, EnsureText(w).l)
         /\ EnsureText(w).l.said = w.l.said /\ EnsureText(w).l.thought = w.l.thought
         /\ EnsureText(w).l.text_on /\ ToolBlocks(EnsureText(w).l) = ToolBlocks(w.l)
<1> DEFINE v == StopThinking(w)
           u == BlockStart(v, v.l.next, "text")
<1>1. /\ Tells(c, v) /\ Speaks(v) /\ Content(w.l, v.l) /\ v.l.said = w.l.said
      /\ v.l.thought = w.l.thought
  BY StopThinkingTold
<1>5. ToolBlocks(v.l) = ToolBlocks(w.l)
  BY StopThinkingTold DEF ToolBlocks
<1>2. EnsureText(w) = IF v.l.text_on THEN v ELSE u
  BY DEF EnsureText, StartText
<1> HIDE DEF v
<1>3. CASE v.l.text_on
  BY <1>1, <1>2, <1>3, <1>5
<1>4. CASE ~ v.l.text_on
  <2>0. Sound(v.l) /\ v.l.next \in Nat /\ "text" \in BlockType
    BY <1>1, ToldFields, LedgerFields DEF BlockType
  <2>1. v.l.next >= v.l.next
    BY <2>0
  <2>2. Tells(c, u) /\ Speaks(u) /\ StartedAt(v.l, u.l, v.l.next, "text")
    BY <1>1, <2>0, <2>1, StartTold
  <2> HIDE DEF u
  <2>3. Content(v.l, u.l) /\ u.l.text_on
    BY <1>4, <2>0, <2>1, <2>2, StartContent
  <2>4. u.l.said = v.l.said /\ u.l.thought = v.l.thought
    BY <2>2 DEF StartedAt
  <2>5. Content(w.l, u.l)
    BY <1>1, <2>3, ContentTwice
  <2>6. ToolBlocks(u.l) = ToolBlocks(v.l)
    BY <2>2 DEF StartedAt, ToolBlocks
  <2> QED BY <1>1, <1>2, <1>4, <1>5, <2>2, <2>3, <2>4, <2>5, <2>6
<1> QED BY <1>3, <1>4

LEMMA EnsureThinkingTold ==
  ASSUME NEW c, NEW w, Tells(c, w), Speaks(w)
  PROVE  /\ Tells(c, EnsureThinking(w)) /\ Speaks(EnsureThinking(w))
         /\ Content(w.l, EnsureThinking(w).l)
         /\ EnsureThinking(w).l.said = w.l.said /\ EnsureThinking(w).l.thought = w.l.thought
         /\ EnsureThinking(w).l.thinking_on /\ ToolBlocks(EnsureThinking(w).l) = ToolBlocks(w.l)
<1> DEFINE v == StopText(w)
           u == BlockStart(v, v.l.next, "thinking")
<1>1. /\ Tells(c, v) /\ Speaks(v) /\ Content(w.l, v.l) /\ v.l.said = w.l.said
      /\ v.l.thought = w.l.thought
  BY StopTextTold
<1>5. ToolBlocks(v.l) = ToolBlocks(w.l)
  BY StopTextTold DEF ToolBlocks
<1>2. EnsureThinking(w) = IF v.l.thinking_on THEN v ELSE u
  BY DEF EnsureThinking, StartThinking
<1> HIDE DEF v
<1>3. CASE v.l.thinking_on
  BY <1>1, <1>2, <1>3, <1>5
<1>4. CASE ~ v.l.thinking_on
  <2>0. Sound(v.l) /\ v.l.next \in Nat /\ "thinking" \in BlockType
    BY <1>1, ToldFields, LedgerFields DEF BlockType
  <2>1. v.l.next >= v.l.next
    BY <2>0
  <2>2. Tells(c, u) /\ Speaks(u) /\ StartedAt(v.l, u.l, v.l.next, "thinking")
    BY <1>1, <2>0, <2>1, StartTold
  <2> HIDE DEF u
  <2>3. Content(v.l, u.l) /\ u.l.thinking_on
    BY <1>4, <2>0, <2>1, <2>2, StartThinkingContent
  <2>4. u.l.said = v.l.said /\ u.l.thought = v.l.thought
    BY <2>2 DEF StartedAt
  <2>5. Content(w.l, u.l)
    BY <1>1, <2>3, ContentTwice
  <2>6. ToolBlocks(u.l) = ToolBlocks(v.l)
    BY <2>2 DEF StartedAt, ToolBlocks
  <2> QED BY <1>1, <1>2, <1>4, <1>5, <2>2, <2>3, <2>4, <2>5, <2>6
<1> QED BY <1>3, <1>4

LEMMA CloseContentTold ==
  ASSUME NEW c, NEW w, Tells(c, w), Speaks(w)
  PROVE  /\ Tells(c, CloseContent(w)) /\ Speaks(CloseContent(w)) /\ Content(w.l, CloseContent(w).l)
         /\ CloseContent(w).l.said = w.l.said /\ CloseContent(w).l.thought = w.l.thought
         /\ CloseContent(w).l.text = w.l.text /\ CloseContent(w).l.blocks = w.l.blocks
         /\ ~ CloseContent(w).l.text_on /\ ~ CloseContent(w).l.thinking_on
         /\ Range(CloseContent(w).l.stack) = Rest(w.l)
<1> DEFINE v == StopThinking(w)
           u == StopText(v)
<1>1. /\ Tells(c, v) /\ Speaks(v) /\ Content(w.l, v.l) /\ v.l.said = w.l.said
      /\ v.l.thought = w.l.thought /\ v.l.text = w.l.text /\ ~ v.l.thinking_on
      /\ v.l.blocks = w.l.blocks
  BY StopThinkingTold
<1> HIDE DEF v
<1>2. /\ Tells(c, u) /\ Speaks(u) /\ Content(v.l, u.l) /\ u.l.said = v.l.said
      /\ u.l.thought = v.l.thought /\ u.l.text = v.l.text /\ ~ u.l.text_on
      /\ u.l.thinking_on = v.l.thinking_on /\ u.l.blocks = v.l.blocks
  BY <1>1, StopTextTold
<1>3. CloseContent(w) = u
  BY DEF CloseContent, v
<1> HIDE DEF u
<1>4. Content(w.l, u.l)
  BY <1>1, <1>2, ContentTwice
<1>5. Range(u.l.stack) = Rest(u.l)
  BY <1>1, <1>2 DEF Rest
<1> QED BY <1>1, <1>2, <1>3, <1>4, <1>5 DEF Content
LEMMA GrownContent ==
  ASSUME NEW l, Sound(l), NEW m, NEW i \in DOMAIN l.blocks, NEW data, GrownAt(l, m, i, data),
         l.blocks[i].type # "tool_use"
  PROVE  Content(l, m)
<1>1. \A x \in DOMAIN l.blocks : m.blocks[x].type = l.blocks[x].type
  BY DEF GrownAt
<1>2. \A x \in ToolBlocks(l) : m.blocks[x] = l.blocks[x]
  BY DEF GrownAt, ToolBlocks
<1>3. Rest(m) = Rest(l)
  BY DEF Rest, GrownAt
<1> QED BY <1>1, <1>2, <1>3 DEF Content, GrownAt

LEMMA SayTold ==
  ASSUME NEW c, NEW w, Tells(c, w), Speaks(w), NEW data \in Seq(Nat)
  PROVE  /\ Tells(c, Say(w, data)) /\ Speaks(Say(w, data)) /\ Content(w.l, Say(w, data).l)
         /\ Say(w, data).l.said = w.l.said \o data /\ Say(w, data).l.thought = w.l.thought
         /\ ToolBlocks(Say(w, data).l) = ToolBlocks(w.l)
         /\ data = <<>> => Say(w, data) = w
         /\ data # <<>> => HasContentBlock(Say(w, data).l)
<1>1. CASE data = <<>>
  <2>1. Say(w, data) = w
    BY <1>1 DEF Say
  <2>2. w.l.said \o data = w.l.said
    <3>1. w.l.said \in Seq(Nat)
      BY ToldFields, LedgerFields
    <3> QED BY <1>1, <3>1, ConcatEmptySeq
  <2> QED BY <1>1, <2>1, <2>2, ContentSelf
<1>2. CASE data # <<>>
  <2> DEFINE v == EnsureText(w)
             u == BlockDelta(v, v.l.text, "text", data)
  <2>1. /\ Tells(c, v) /\ Speaks(v) /\ Content(w.l, v.l) /\ v.l.said = w.l.said
        /\ v.l.thought = w.l.thought /\ v.l.text_on /\ ToolBlocks(v.l) = ToolBlocks(w.l)
    BY EnsureTextTold
  <2>2. Say(w, data) = u
    BY <1>2 DEF Say, TextDelta
  <2> HIDE DEF v
  <2>3. /\ Sound(v.l) /\ v.l.text \in Range(v.l.stack) /\ v.l.text \in DOMAIN v.l.blocks
        /\ v.l.blocks[v.l.text].type = "text"
    BY <2>1, ToldFields DEF Sound
  <2>4. Tells(c, u) /\ Speaks(u) /\ GrownAt(v.l, u.l, v.l.text, data)
    BY <2>1, <2>3, GrowthTold
  <2> HIDE DEF u
  <2>5. Content(v.l, u.l)
    BY <2>3, <2>4, GrownContent
  <2>6. Content(w.l, u.l)
    BY <2>1, <2>5, ContentTwice
  <2>7. u.l.said = w.l.said \o data /\ u.l.thought = w.l.thought
    BY <2>1, <2>3, <2>4 DEF GrownAt
  <2>8. HasContentBlock(u.l)
    BY <2>3, <2>4 DEF GrownAt, HasContentBlock
  <2>9. ToolBlocks(u.l) = ToolBlocks(w.l)
    <3>1. \A x \in DOMAIN v.l.blocks : u.l.blocks[x].type = v.l.blocks[x].type
      BY <2>4, <2>5, Zenon DEF GrownAt, Content
    <3>2. DOMAIN u.l.blocks = DOMAIN v.l.blocks
      BY <2>4, <2>5, Zenon DEF GrownAt, Content
    <3>3. ToolBlocks(u.l) = ToolBlocks(v.l)
      BY <3>1, <3>2 DEF ToolBlocks
    <3> QED BY <2>1, <3>3, Zenon
  <2> QED BY <1>2, <2>2, <2>4, <2>6, <2>7, <2>8, <2>9
<1> QED BY <1>1, <1>2

LEMMA ThinkTold ==
  ASSUME NEW c, NEW w, Tells(c, w), Speaks(w), NEW data \in Seq(Nat)
  PROVE  /\ Tells(c, Think(w, data)) /\ Speaks(Think(w, data)) /\ Content(w.l, Think(w, data).l)
         /\ Think(w, data).l.said = w.l.said /\ Think(w, data).l.thought = w.l.thought \o data
         /\ ToolBlocks(Think(w, data).l) = ToolBlocks(w.l)
         /\ data = <<>> => Think(w, data) = w
         /\ data # <<>> => HasContentBlock(Think(w, data).l)
<1>1. CASE data = <<>>
  <2>1. Think(w, data) = w
    BY <1>1 DEF Think
  <2>2. w.l.thought \o data = w.l.thought
    <3>1. w.l.thought \in Seq(Nat)
      BY ToldFields, LedgerFields
    <3> QED BY <1>1, <3>1, ConcatEmptySeq
  <2> QED BY <1>1, <2>1, <2>2, ContentSelf
<1>2. CASE data # <<>>
  <2> DEFINE v == EnsureThinking(w)
             u == BlockDelta(v, v.l.thinking, "thinking", data)
  <2>1. /\ Tells(c, v) /\ Speaks(v) /\ Content(w.l, v.l) /\ v.l.said = w.l.said
        /\ v.l.thought = w.l.thought /\ v.l.thinking_on /\ ToolBlocks(v.l) = ToolBlocks(w.l)
    BY EnsureThinkingTold
  <2>2. Think(w, data) = u
    BY <1>2 DEF Think, ThinkingDelta
  <2> HIDE DEF v
  <2>3. /\ Sound(v.l) /\ v.l.thinking \in Range(v.l.stack) /\ v.l.thinking \in DOMAIN v.l.blocks
        /\ v.l.blocks[v.l.thinking].type = "thinking"
    BY <2>1, ToldFields DEF Sound
  <2>4. Tells(c, u) /\ Speaks(u) /\ GrownAt(v.l, u.l, v.l.thinking, data)
    BY <2>1, <2>3, GrowthTold
  <2> HIDE DEF u
  <2>5. Content(v.l, u.l)
    BY <2>3, <2>4, GrownContent
  <2>6. Content(w.l, u.l)
    BY <2>1, <2>5, ContentTwice
  <2>7. u.l.said = w.l.said /\ u.l.thought = w.l.thought \o data
    BY <2>1, <2>3, <2>4 DEF GrownAt
  <2>8. HasContentBlock(u.l)
    BY <2>3, <2>4 DEF GrownAt, HasContentBlock
  <2>9. ToolBlocks(u.l) = ToolBlocks(w.l)
    <3>1. \A x \in DOMAIN v.l.blocks : u.l.blocks[x].type = v.l.blocks[x].type
      BY <2>4, <2>5, Zenon DEF GrownAt, Content
    <3>2. DOMAIN u.l.blocks = DOMAIN v.l.blocks
      BY <2>4, <2>5, Zenon DEF GrownAt, Content
    <3>3. ToolBlocks(u.l) = ToolBlocks(v.l)
      BY <3>1, <3>2 DEF ToolBlocks
    <3> QED BY <2>1, <3>3, Zenon
  <2> QED BY <1>2, <2>2, <2>4, <2>6, <2>7, <2>8, <2>9
<1> QED BY <1>1, <1>2

\* A whole block was added.
BlockAdded(c, w, u, type, data) ==
  /\ Tells(c, u) /\ Speaks(u) /\ Content(w.l, u.l)
  /\ ~ u.l.text_on /\ ~ u.l.thinking_on /\ Range(u.l.stack) = Range(w.l.stack)
  /\ w.l.next \notin DOMAIN w.l.blocks
  /\ DOMAIN u.l.blocks = DOMAIN w.l.blocks \cup {w.l.next}
  /\ u.l.blocks[w.l.next].type = type /\ u.l.blocks[w.l.next].parts = data
  /\ u.l.said = (IF type = "text" THEN w.l.said \o data ELSE w.l.said)
  /\ u.l.thought = w.l.thought

\* A block that starts, grows once and stops.
LEMMA BlockTold ==
  ASSUME NEW c, NEW w, Tells(c, w), Speaks(w), ~ w.l.text_on, ~ w.l.thinking_on,
         NEW type \in {"text", "tool_use"}, NEW data \in Seq(Nat), NEW u,
         u = BlockStop(BlockDelta(BlockStart(w, w.l.next, type), w.l.next, type, data), w.l.next)
  PROVE  BlockAdded(c, w, u, type, data)
<1> DEFINE i == w.l.next
           v == BlockStart(w, i, type)
           z == BlockDelta(v, i, type, data)
<1>1. i \in Nat /\ type \in BlockType /\ Sound(w.l) /\ DOMAIN w.l.blocks \subseteq Nat
  BY ToldFields, LedgerFields, SoundBlocks DEF BlockType
<1>2. i >= w.l.next
  BY <1>1
<1>3. i \notin DOMAIN w.l.blocks /\ Range(w.l.stack) \subseteq DOMAIN w.l.blocks
  BY <1>1 DEF Sound
<1>4. Tells(c, v) /\ Speaks(v) /\ StartedAt(w.l, v.l, i, type)
  BY <1>1, <1>2, StartTold
<1>5. u = BlockStop(z, i)
  OBVIOUS
<1> HIDE DEF i, v
<1>6. i \in Range(v.l.stack) /\ v.l.blocks[i].type = type /\ v.l.blocks[i].parts = <<>>
  BY <1>4 DEF StartedAt
<1>7. Tells(c, z) /\ Speaks(z) /\ GrownAt(v.l, z.l, i, data)
  BY <1>4, <1>6, GrowthTold
<1> HIDE DEF z
<1>8. Tells(c, u) /\ Speaks(u) /\ StoppedAt(z.l, u.l, i)
  <2>1. i \in Range(z.l.stack)
    BY <1>6, <1>7 DEF GrownAt
  <2> QED BY <1>5, <1>7, <2>1, StopTold
<1>9. Range(u.l.stack) = Range(w.l.stack)
  BY <1>3, <1>4, <1>7, <1>8 DEF StartedAt, GrownAt, StoppedAt
<1>10. /\ DOMAIN u.l.blocks = DOMAIN w.l.blocks \cup {i}
       /\ \A x \in DOMAIN w.l.blocks : u.l.blocks[x] = w.l.blocks[x]
  BY <1>3, <1>4, <1>7, <1>8 DEF StartedAt, GrownAt, StoppedAt
<1>11. u.l.blocks[i].type = type /\ u.l.blocks[i].parts = data
  <2>1. u.l.blocks[i] = [type |-> type, parts |-> <<>> \o data]
    BY <1>6, <1>7, <1>8 DEF GrownAt, StoppedAt
  <2>2. <<>> \o data = data
    BY ConcatEmptySeq
  <2> QED BY <2>1, <2>2
<1>12. ~ u.l.text_on /\ ~ u.l.thinking_on
  <2>1. type = "text" => v.l.text = i
    BY <1>4 DEF StartedAt
  <2>2. v.l.text_on => type = "text"
    BY <1>4 DEF StartedAt
  <2>3. ~ v.l.thinking_on
    BY <1>4 DEF StartedAt
  <2> QED BY <1>7, <1>8, <2>1, <2>2, <2>3 DEF GrownAt, StoppedAt
<1>13. u.l.said = (IF type = "text" THEN w.l.said \o data ELSE w.l.said) /\ u.l.thought = w.l.thought
  BY <1>4, <1>6, <1>7, <1>8 DEF StartedAt, GrownAt, StoppedAt
<1>14. Kept(w.l, u.l)
  BY <1>4, <1>7, <1>8 DEF StartedAt, GrownAt, StoppedAt, Kept
<1>15. Rest(u.l) = Rest(w.l)
  BY <1>9, <1>12 DEF Rest
<1>16. Content(w.l, u.l)
  BY <1>10, <1>14, <1>15 DEF Content, ToolBlocks
<1> QED BY <1>3, <1>8, <1>9, <1>10, <1>11, <1>12, <1>13, <1>16, Zenon DEF BlockAdded, i

LEMMA DataIs == EmptyObject \in Seq(Nat) /\ Whole \in Seq(Nat) /\ EmptyObject # <<>> /\ Whole # <<>>
BY DEF EmptyObject, Whole

\* The error is told in a text block of its own.
LEMMA EmitErrorTold ==
  ASSUME NEW c, NEW w, Tells(c, w), Speaks(w), ~ w.l.text_on, ~ w.l.thinking_on
  PROVE  /\ Tells(c, EmitError(w)) /\ Speaks(EmitError(w)) /\ Content(w.l, EmitError(w).l)
         /\ Range(EmitError(w).l.stack) = Range(w.l.stack) /\ HasContentBlock(EmitError(w).l)
         /\ EmitError(w).l.said = w.l.said \o EmptyObject
         /\ ToolBlocks(EmitError(w).l) = ToolBlocks(w.l)
<1> DEFINE u == EmitError(w)
<1>1. u = BlockStop(BlockDelta(BlockStart(w, w.l.next, "text"), w.l.next, "text", EmptyObject),
                    w.l.next)
  BY DEF EmitError
<1> HIDE DEF u
<1>2. /\ Tells(c, u) /\ Speaks(u) /\ Content(w.l, u.l)
      /\ Range(u.l.stack) = Range(w.l.stack)
      /\ DOMAIN u.l.blocks = DOMAIN w.l.blocks \cup {w.l.next}
      /\ u.l.blocks[w.l.next].type = "text"
      /\ u.l.said = w.l.said \o EmptyObject
  <2> DEFINE type == "text"
             data == EmptyObject
  <2>1. type \in {"text", "tool_use"} /\ data \in Seq(Nat) /\ type = "text"
    BY DataIs
  <2>2. u = BlockStop(BlockDelta(BlockStart(w, w.l.next, type), w.l.next, type, data), w.l.next)
    BY <1>1
  <2> HIDE DEF type, data
  <2>4. BlockAdded(c, w, u, type, data)
    BY <2>1, <2>2, BlockTold
  <2>3. /\ Tells(c, u) /\ Speaks(u) /\ Content(w.l, u.l)
        /\ ~ u.l.text_on /\ ~ u.l.thinking_on /\ Range(u.l.stack) = Range(w.l.stack)
        /\ w.l.next \notin DOMAIN w.l.blocks
        /\ DOMAIN u.l.blocks = DOMAIN w.l.blocks \cup {w.l.next}
        /\ u.l.blocks[w.l.next].type = type /\ u.l.blocks[w.l.next].parts = data
        /\ u.l.said = (IF type = "text" THEN w.l.said \o data ELSE w.l.said)
        /\ u.l.thought = w.l.thought
    BY <2>4, Zenon DEF BlockAdded
  <2> QED BY <2>1, <2>3 DEF data
<1>3. HasContentBlock(u.l)
  BY <1>2 DEF HasContentBlock
<1>4. ToolBlocks(u.l) = ToolBlocks(w.l)
  BY <1>2 DEF Content, ToolBlocks
<1> QED BY <1>2, <1>3, <1>4 DEF u

\* A tool written as text, complete.
LEMMA HeuristicToolTold ==
  ASSUME NEW c, NEW w, Tells(c, w), Speaks(w)
  PROVE  /\ Tells(c, HeuristicTool(w)) /\ Speaks(HeuristicTool(w))
         /\ Content(w.l, HeuristicTool(w).l)
         /\ HeuristicTool(w).l.said = w.l.said /\ HeuristicTool(w).l.thought = w.l.thought
         /\ HasToolBlock(HeuristicTool(w).l) /\ HasContentBlock(HeuristicTool(w).l)
         /\ \A i \in ToolBlocks(HeuristicTool(w).l) \ ToolBlocks(w.l) :
              i \notin DOMAIN w.l.blocks /\ HeuristicTool(w).l.blocks[i].parts = Whole
<1> DEFINE v == CloseContent(w)
           u == HeuristicTool(w)
<1>1. /\ Tells(c, v) /\ Speaks(v) /\ Content(w.l, v.l) /\ ~ v.l.text_on /\ ~ v.l.thinking_on
      /\ v.l.said = w.l.said /\ v.l.thought = w.l.thought /\ v.l.blocks = w.l.blocks
  BY CloseContentTold
<1>2. u = BlockStop(BlockDelta(BlockStart(v, v.l.next, "tool_use"), v.l.next, "tool_use", Whole),
                    v.l.next)
  BY DEF HeuristicTool
<1> HIDE DEF u, v
<1>3. /\ Tells(c, u) /\ Speaks(u) /\ Content(v.l, u.l)
      /\ v.l.next \notin DOMAIN v.l.blocks
      /\ DOMAIN u.l.blocks = DOMAIN v.l.blocks \cup {v.l.next}
      /\ u.l.blocks[v.l.next].type = "tool_use" /\ u.l.blocks[v.l.next].parts = Whole
      /\ u.l.said = v.l.said /\ u.l.thought = v.l.thought
  <2> DEFINE type == "tool_use"
             data == Whole
  <2>1. type \in {"text", "tool_use"} /\ data \in Seq(Nat) /\ type = "tool_use"
    BY DataIs
  <2>2. u = BlockStop(BlockDelta(BlockStart(v, v.l.next, type), v.l.next, type, data), v.l.next)
    BY <1>2
  <2> HIDE DEF type, data
  <2>4. BlockAdded(c, v, u, type, data)
    BY <1>1, <2>1, <2>2, BlockTold
  <2>3. /\ Tells(c, u) /\ Speaks(u) /\ Content(v.l, u.l)
        /\ ~ u.l.text_on /\ ~ u.l.thinking_on /\ Range(u.l.stack) = Range(v.l.stack)
        /\ v.l.next \notin DOMAIN v.l.blocks
        /\ DOMAIN u.l.blocks = DOMAIN v.l.blocks \cup {v.l.next}
        /\ u.l.blocks[v.l.next].type = type /\ u.l.blocks[v.l.next].parts = data
        /\ u.l.said = (IF type = "text" THEN v.l.said \o data ELSE v.l.said)
        /\ u.l.thought = v.l.thought
    BY <2>4, Zenon DEF BlockAdded
  <2> QED BY <2>1, <2>3 DEF data
<1>4. Content(w.l, u.l)
  BY <1>1, <1>3, ContentTwice
<1>5. HasToolBlock(u.l) /\ HasContentBlock(u.l)
  BY <1>3 DEF HasToolBlock, ToolBlocks, HasContentBlock
<1>6. \A i \in ToolBlocks(u.l) \ ToolBlocks(w.l) : i = v.l.next
  BY <1>1, <1>3 DEF Content, ToolBlocks
<1> QED BY <1>1, <1>3, <1>4, <1>5, <1>6 DEF u
-----------------------------------------------------------------------------
(* Closing everything.                                                      *)

\* Whatever the stack says is open stops, the top first.
LEMMA CloseUnclosedTold ==
  ASSUME NEW c, NEW w, Tells(c, w), Speaks(w)
  PROVE  /\ Tells(c, CloseUnclosed(w)) /\ Speaks(CloseUnclosed(w))
         /\ Range(CloseUnclosed(w).l.stack) = {} /\ Kept(w.l, CloseUnclosed(w).l)
         /\ CloseUnclosed(w).l.blocks = w.l.blocks
         /\ CloseUnclosed(w).l.said = w.l.said /\ CloseUnclosed(w).l.thought = w.l.thought
         /\ ~ CloseUnclosed(w).l.text_on /\ ~ CloseUnclosed(w).l.thinking_on
<1> DEFINE s == w.l.stack
           N == Len(s)
<1>0. s \in Seq(Nat) /\ N \in Nat /\ Distinct(s) /\ DOMAIN s = 1 .. N
  <2>1. s \in Seq(Nat) /\ Distinct(s)
    BY ToldFields, LedgerFields DEF Sound
  <2> HIDE DEF s
  <2> QED BY <2>1
<1>1. \E g : g = [k \in 0 .. N |-> IF k = 0 THEN w ELSE BlockStop(g[k - 1], s[N + 1 - k])]
  <2> DEFINE T == {n \in Nat : \E g : g = [k \in 0 .. n |-> IF k = 0 THEN w
                                                     ELSE BlockStop(g[k - 1], s[N + 1 - k])]}
  <2>1. 0 \in T
    <3> DEFINE g == [k \in 0 .. 0 |-> w]
    <3>1. g = [k \in 0 .. 0 |-> IF k = 0 THEN w ELSE BlockStop(g[k - 1], s[N + 1 - k])]
      OBVIOUS
    <3> HIDE DEF g
    <3> QED BY <3>1
  <2>2. ASSUME NEW n \in Nat, n \in T PROVE n + 1 \in T
    <3>1. PICK g : g = [k \in 0 .. n |-> IF k = 0 THEN w ELSE BlockStop(g[k - 1], s[N + 1 - k])]
      BY <2>2
    <3> DEFINE h == [k \in 0 .. n + 1 |-> IF k <= n THEN g[k] ELSE BlockStop(g[n], s[N + 1 - (n + 1)])]
    <3>2. ASSUME NEW k \in 0 .. n + 1
          PROVE  h[k] = IF k = 0 THEN w ELSE BlockStop(h[k - 1], s[N + 1 - k])
      <4>1. CASE k = 0
        BY <3>1, <4>1
      <4>2. CASE k \in 1 .. n
        <5>1. h[k] = g[k] /\ h[k - 1] = g[k - 1]
          BY <4>2
        <5>2. g[k] = BlockStop(g[k - 1], s[N + 1 - k])
          BY <3>1, <4>2
        <5> QED BY <4>2, <5>1, <5>2
      <4>3. CASE k = n + 1
        <5>1. h[k] = BlockStop(g[n], s[N + 1 - (n + 1)]) /\ h[k - 1] = g[n] /\ k # 0
          BY <4>3
        <5> QED BY <4>3, <5>1
      <4> QED BY <4>1, <4>2, <4>3
    <3>3. h = [k \in 0 .. n + 1 |-> IF k = 0 THEN w ELSE BlockStop(h[k - 1], s[N + 1 - k])]
      <4>1. h = [k \in 0 .. n + 1 |-> h[k]]
        OBVIOUS
      <4> HIDE DEF h
      <4> QED BY <3>2, <4>1
    <3>4. \E y : y = [k \in 0 .. n + 1 |-> IF k = 0 THEN w ELSE BlockStop(y[k - 1], s[N + 1 - k])]
      <4> WITNESS h
      <4> QED BY <3>3
    <3>5. n + 1 \in Nat
      OBVIOUS
    <3> HIDE DEF h
    <3> QED BY <3>4, <3>5, Zenon
  <2>3. Nat \subseteq T
    <3> HIDE DEF T
    <3> QED BY <2>1, <2>2, EveryNumber
  <2>4. N \in T
    <3> HIDE DEF T, N
    <3> QED BY <1>0, <2>3
  <2> QED BY <2>4
<1> DEFINE f == CHOOSE g : g = [k \in 0 .. N |-> IF k = 0 THEN w ELSE BlockStop(g[k - 1], s[N + 1 - k])]
<1>2. f = [k \in 0 .. N |-> IF k = 0 THEN w ELSE BlockStop(f[k - 1], s[N + 1 - k])]
  BY <1>1
<1>3. f[0] = w /\ \A k \in 1 .. N : f[k] = BlockStop(f[k - 1], s[N + 1 - k])
  <2> HIDE DEF f
  <2>1. 0 \in 0 .. N /\ \A k \in 1 .. N : k \in 0 .. N /\ k # 0
    OBVIOUS
  <2> QED BY <1>2, <2>1
<1>4. CloseUnclosed(w) = f[N]
  BY DEF CloseUnclosed
<1> HIDE DEF f, s, N
<1> DEFINE After(n) == /\ Tells(c, f[n]) /\ Speaks(f[n]) /\ Kept(w.l, f[n].l)
                       /\ Range(f[n].l.stack) = {s[k] : k \in 1 .. N - n}
                       /\ f[n].l.blocks = w.l.blocks
                       /\ f[n].l.said = w.l.said /\ f[n].l.thought = w.l.thought
           U == {n \in Nat : n <= N => After(n)}
<1>5. 0 \in U
  <2>1. Range(s) = {s[k] : k \in 1 .. N - 0}
    BY <1>0 DEF Range
  <2> QED BY <1>3, <2>1 DEF Kept, s
<1>6. ASSUME NEW n \in Nat, n \in U PROVE n + 1 \in U
  <2> SUFFICES ASSUME n + 1 <= N PROVE After(n + 1)
    OBVIOUS
  <2>1. After(n) /\ n + 1 \in 1 .. N /\ N - n \in 1 .. N /\ N + 1 - (n + 1) = N - n
    BY <1>0, <1>6
  <2> DEFINE i == s[N - n]
  <2>2. f[n + 1] = BlockStop(f[n], i)
    <3>1. f[n + 1] = BlockStop(f[(n + 1) - 1], s[N + 1 - (n + 1)])
      BY <1>3, <2>1
    <3> QED BY <2>1, <3>1
  <2>3. i \in Range(f[n].l.stack)
    BY <2>1
  <2>4. Tells(c, f[n + 1]) /\ Speaks(f[n + 1]) /\ StoppedAt(f[n].l, f[n + 1].l, i)
    BY <2>1, <2>2, <2>3, StopTold
  <2>5. {s[k] : k \in 1 .. N - n} \ {i} = {s[k] : k \in 1 .. N - (n + 1)}
    <3>1. \A k \in 1 .. N - n : k \in DOMAIN s /\ (k = N - n \/ k \in 1 .. N - (n + 1))
      BY <1>0
    <3>2. \A k \in 1 .. N - (n + 1) : k \in DOMAIN s /\ k # N - n /\ k \in 1 .. N - n
      BY <1>0
    <3>3. N - n \in DOMAIN s
      BY <1>0, <2>1
    <3> QED BY <1>0, <3>1, <3>2, <3>3 DEF Distinct
  <2>6. Range(f[n + 1].l.stack) = {s[k] : k \in 1 .. N - (n + 1)}
    BY <2>1, <2>4, <2>5 DEF StoppedAt
  <2> QED BY <2>1, <2>4, <2>6 DEF StoppedAt, Kept
<1>7. After(N)
  <2>1. Nat \subseteq U
    <3> HIDE DEF U
    <3> QED BY <1>5, <1>6, EveryNumber
  <2>2. N \in U /\ N <= N
    <3> HIDE DEF U
    <3> QED BY <1>0, <2>1
  <2> QED BY <2>2
<1>8. {s[k] : k \in 1 .. N - N} = {}
  BY <1>0
<1>9. Sound(f[N].l)
  BY <1>7, ToldFields
<1> QED BY <1>4, <1>7, <1>8, <1>9 DEF Sound
-----------------------------------------------------------------------------
(* Tool calls of a chat upstream.                                           *)

\* The first fragments of some arguments.
Part(a) == IF a = 0 THEN <<>> ELSE IF a = 1 THEN <<1>> ELSE <<1, 2>>

LEMMA PartIs ==
  ASSUME NEW a \in 0 .. 2
  PROVE  /\ Part(a) \in Seq(Nat) /\ SubSeq(Whole, 1, a) = Part(a) /\ Part(2) = Whole
         /\ (Part(a) = Whole <=> a = 2) /\ (Part(a) = <<>> <=> a = 0)
         /\ a < 2 => Part(a) \o <<a + 1>> = Part(a + 1)
<1>1. /\ Part(0) = <<>> /\ Part(1) = <<1>> /\ Part(2) = <<1, 2>> /\ Whole = <<1, 2>>
  BY DEF Part, Whole
<1>2. /\ <<>> \in Seq(Nat) /\ <<1>> \in Seq(Nat) /\ <<1, 2>> \in Seq(Nat)
  OBVIOUS
<1>3. Len(<<>>) = 0 /\ Len(<<1>>) = 1 /\ Len(<<1, 2>>) = 2
  OBVIOUS
<1>4. <<1>> # <<>> /\ <<1, 2>> # <<>> /\ <<1>> # <<1, 2>>
  BY <1>3
<1>5. SubSeq(Whole, 1, 0) = Part(0)
  <2>1. SubSeq(Whole, 1, 0) \in Seq(Nat) /\ Len(SubSeq(Whole, 1, 0)) = 0
    BY <1>1, <1>2, <1>3, SubSeqProperties
  <2>2. \A s \in Seq(Nat) : Len(s) = 0 => s = <<>>
    OBVIOUS
  <2> QED BY <1>1, <2>1, <2>2, Zenon
<1>6. SubSeq(Whole, 1, 1) = Part(1)
  <2>1. /\ SubSeq(Whole, 1, 1) \in Seq(Nat) /\ Len(SubSeq(Whole, 1, 1)) = 1
        /\ SubSeq(Whole, 1, 1)[1] = Whole[1]
    BY <1>1, <1>2, <1>3, SubSeqProperties
  <2>2. Whole[1] = 1 /\ <<1>>[1] = 1
    BY <1>1
  <2> QED BY <1>1, <1>2, <1>3, <2>1, <2>2, SeqEqual
<1>7. SubSeq(Whole, 1, 2) = Part(2)
  <2>1. /\ SubSeq(Whole, 1, 2) \in Seq(Nat) /\ Len(SubSeq(Whole, 1, 2)) = 2
        /\ \A k \in 1 .. 2 : SubSeq(Whole, 1, 2)[k] = Whole[k]
    BY <1>1, <1>2, <1>3, SubSeqProperties
  <2> QED BY <1>1, <1>2, <1>3, <2>1, SeqEqual
<1>8. Part(0) \o <<0 + 1>> = Part(1)
  <2>1. 0 + 1 = 1
    OBVIOUS
  <2>2. <<>> \o <<1>> = <<1>>
    OBVIOUS
  <2> QED BY <1>1, <2>1, <2>2
<1>9. Part(1) \o <<1 + 1>> = Part(2)
  <2>1. <<1>> \in Seq(Nat) /\ <<2>> \in Seq(Nat) /\ Len(<<2>>) = 1 /\ 1 + 1 = 2
    OBVIOUS
  <2> DEFINE both == <<1>> \o <<2>>
  <2>2. both \in Seq(Nat) /\ Len(both) = 2 /\ both[1] = <<1>>[1] /\ both[2] = <<2>>[1]
    BY <1>3, <2>1, ConcatProperties
  <2>3. <<1>>[1] = 1 /\ <<2>>[1] = 2 /\ <<1, 2>>[1] = 1 /\ <<1, 2>>[2] = 2
    OBVIOUS
  <2>4. \A k \in 1 .. 2 : k = 1 \/ k = 2
    OBVIOUS
  <2> HIDE DEF both
  <2>5. both = <<1, 2>>
    BY <1>2, <1>3, <2>2, <2>3, <2>4, SeqEqual
  <2> QED BY <1>1, <2>1, <2>5 DEF both
<1> HIDE DEF Part
<1>10. Part(a) \in Seq(Nat) /\ SubSeq(Whole, 1, a) = Part(a) /\ Part(2) = Whole
  <2>1. a = 0 \/ a = 1 \/ a = 2
    OBVIOUS
  <2>2. Part(0) \in Seq(Nat) /\ Part(1) \in Seq(Nat) /\ Part(2) \in Seq(Nat) /\ Part(2) = Whole
    BY <1>1, <1>2, Zenon
  <2> QED BY <1>5, <1>6, <1>7, <2>1, <2>2, Zenon
<1>11. (Part(a) = Whole <=> a = 2) /\ (Part(a) = <<>> <=> a = 0)
  <2>1. a = 0 \/ a = 1 \/ a = 2
    OBVIOUS
  <2>2. 0 # 1 /\ 0 # 2 /\ 1 # 2
    OBVIOUS
  <2>3. Part(0) # Part(1) /\ Part(0) # Part(2) /\ Part(1) # Part(2)
    BY <1>1, <1>4, Zenon
  <2>4. Whole = Part(2) /\ <<>> = Part(0)
    BY <1>1, Zenon
  <2> QED BY <2>1, <2>2, <2>3, <2>4, Zenon
<1>12. a < 2 => Part(a) \o <<a + 1>> = Part(a + 1)
  <2>1. a < 2 => a = 0 \/ a = 1
    OBVIOUS
  <2>2. a = 0 => a + 1 = 1
    OBVIOUS
  <2>3. a = 1 => a + 1 = 2
    OBVIOUS
  <2>4. 0 + 1 = 1 /\ 1 + 1 = 2
    OBVIOUS
  <2> QED BY <1>8, <1>9, <2>1, <2>2, <2>3, <2>4
<1> QED BY <1>10, <1>11, <1>12

\* Every call that was started has a block of its own, open, and nothing else is open
\* but the active text and thinking.
Shape(l, n) ==
  /\ n \in Nat /\ DOMAIN l.tools = 1 .. n
  /\ \A t \in 1 .. n : l.tools[t].block # NoIndex =>
       l.tools[t].block \in Rest(l) /\ l.blocks[l.tools[t].block].type = "tool_use"
  /\ \A t, u \in 1 .. n :
       l.tools[t].block # NoIndex /\ l.tools[t].block = l.tools[u].block => t = u
  /\ \A i \in Rest(l) : \E t \in 1 .. n : l.tools[t].block = i

\* What a call's block and its buffers hold after a fragments of its arguments.
CallOf(l, t, a) ==
  /\ a \in 0 .. 2
  /\ l.tools[t].block = NoIndex =>
       l.tools[t].early = Part(a) /\ l.tools[t].buffer = <<>> /\ ~ l.tools[t].emitted
  /\ l.tools[t].block # NoIndex =>
       /\ l.tools[t].name \in ToolName
       /\ l.tools[t].name = "plain" =>
            l.tools[t].buffer = <<>> /\ l.blocks[l.tools[t].block].parts = Part(a)
       /\ l.tools[t].name # "plain" =>
            IF a = 2 THEN l.tools[t].buffer = <<>> /\ l.blocks[l.tools[t].block].parts = Whole
            ELSE /\ l.tools[t].buffer = Part(a) /\ l.blocks[l.tools[t].block].parts = <<>>
                 /\ ~ l.tools[t].emitted
Calls(l, n, args) == Shape(l, n) /\ \A t \in 1 .. n : CallOf(l, t, args[t])

LEMMA RestOpen ==
  ASSUME NEW l, Sound(l)
  PROVE  Rest(l) \subseteq Range(l.stack) /\ Rest(l) \subseteq DOMAIN l.blocks /\ Rest(l) \subseteq Nat
<1>1. DOMAIN l.blocks \subseteq Nat
  BY SoundBlocks
<1> QED BY <1>1 DEF Rest, Sound

LEMMA CallsContent ==
  ASSUME NEW l, Sound(l), NEW m, Content(l, m), NEW n, Shape(l, n)
  PROVE  /\ Shape(m, n)
         /\ \A t \in 1 .. n : \A a : CallOf(l, t, a) => CallOf(m, t, a)
<1>1. m.tools = l.tools /\ Rest(m) = Rest(l)
  BY DEF Content, Kept
<1>2. ASSUME NEW t \in 1 .. n, l.tools[t].block # NoIndex
      PROVE  m.blocks[l.tools[t].block] = l.blocks[l.tools[t].block]
  BY <1>2, RestOpen DEF Shape, Content, ToolBlocks
<1>3. Shape(m, n)
  BY <1>1, <1>2 DEF Shape
<1>4. \A t \in 1 .. n : \A a : CallOf(l, t, a) => CallOf(m, t, a)
  BY <1>1, <1>2 DEF CallOf
<1> QED BY <1>3, <1>4

LEMMA ToolsAre ==
  ASSUME NEW tools \in Tools, NEW t \in DOMAIN tools
  PROVE  /\ DOMAIN tools \subseteq Nat /\ tools = [u \in DOMAIN tools |-> tools[u]]
         /\ tools[t] \in ToolRecord
         /\ tools[t].block \in Int /\ tools[t].name \in CallName
         /\ tools[t].buffer \in Seq(Nat) /\ tools[t].emitted \in BOOLEAN
         /\ tools[t].early \in Seq(Nat)
<1>1. DOMAIN tools \subseteq Nat /\ tools \in [DOMAIN tools -> ToolRecord]
  BY PartialIs DEF Tools
<1>2. tools[t] \in ToolRecord /\ tools = [u \in DOMAIN tools |-> tools[u]]
  BY <1>1
<1>3. /\ tools[t].block \in Int /\ tools[t].name \in CallName
      /\ tools[t].buffer \in Seq(Nat) /\ tools[t].emitted \in BOOLEAN
      /\ tools[t].early \in Seq(Nat)
  BY <1>2 DEF ToolRecord
<1> QED BY <1>1, <1>2, <1>3

\* What other calls hold does not change.
OtherCalls(l, m, n, t) == \A x \in 1 .. n \ {t} : \A a : CallOf(l, x, a) => CallOf(m, x, a)

\* What operations on calls leave alone: the text, and the blocks that are there.
Follows(l, m) ==
  /\ m.said = l.said /\ m.thought = l.thought /\ m.stop_reason = l.stop_reason
  /\ DOMAIN l.blocks \subseteq DOMAIN m.blocks
  /\ \A i \in DOMAIN l.blocks : m.blocks[i].type = l.blocks[i].type

LEMMA FollowsTwice ==
  ASSUME NEW l, NEW m, NEW n, Follows(l, m), Follows(m, n)
  PROVE  Follows(l, n)
BY DEF Follows

LEMMA FollowsHas ==
  ASSUME NEW l, NEW m, Follows(l, m)
  PROVE  (HasContentBlock(l) => HasContentBlock(m)) /\ (HasToolBlock(l) => HasToolBlock(m))
BY DEF Follows, HasContentBlock, HasToolBlock, ToolBlocks

LEMMA NothingBefore ==
  ASSUME NEW s \in Seq(Nat)
  PROVE  <<>> \o s = s
OBVIOUS

\* The block of a started call grows.
Grows(c, w, n, t) ==
  /\ Tells(c, w) /\ Speaks(w) /\ Shape(w.l, n) /\ t \in 1 .. n
  /\ w.l.tools[t].block # NoIndex
Grew(c, w, u, n, t, data) ==
  /\ Tells(c, u) /\ Speaks(u) /\ Shape(u.l, n)
  /\ GrownAt(w.l, u.l, w.l.tools[t].block, data) /\ u.l.tools = w.l.tools
  /\ u.l.blocks[w.l.tools[t].block].parts = w.l.blocks[w.l.tools[t].block].parts \o data
  /\ u.l.blocks[w.l.tools[t].block].type = "tool_use"
  /\ u.l.said = w.l.said /\ u.l.thought = w.l.thought
  /\ Follows(w.l, u.l) /\ OtherCalls(w.l, u.l, n, t)

LEMMA ToolDeltaTold ==
  ASSUME NEW c, NEW w, NEW n, NEW t, Grows(c, w, n, t), NEW data \in Seq(Nat)
  PROVE  Grew(c, w, ToolDelta(w, t, data), n, t, data)
<1> USE DEF Grows
<1> DEFINE l == w.l
           i == w.l.tools[t].block
           u == ToolDelta(w, t, data)
<1>1. /\ Sound(l) /\ i \in Rest(l) /\ i \in Range(l.stack) /\ i \in DOMAIN l.blocks
      /\ l.blocks[i].type = "tool_use"
  BY ToldFields, RestOpen DEF Shape
<1> DEFINE type == "tool_use"
<1>2. u = BlockDelta(w, i, type, data) /\ type = l.blocks[i].type /\ type # "redacted_thinking"
  BY <1>1 DEF ToolDelta
<1> HIDE DEF type, i, u
<1>3. Tells(c, u) /\ Speaks(u) /\ GrownAt(l, u.l, i, data)
  BY <1>1, <1>2, GrowthTold
<1>4. u.l.tools = l.tools /\ Rest(u.l) = Rest(l)
  BY <1>3 DEF GrownAt, Kept, Rest
<1>5. \A x \in DOMAIN l.blocks : u.l.blocks[x].type = l.blocks[x].type
  BY <1>3 DEF GrownAt
<1>6. Shape(u.l, n)
  <2>1. Rest(l) \subseteq DOMAIN l.blocks
    BY <1>1, RestOpen
  <2>2. ASSUME NEW x \in 1 .. n, l.tools[x].block # NoIndex
        PROVE  l.tools[x].block \in Rest(l) /\ u.l.blocks[l.tools[x].block].type = "tool_use"
    BY <1>5, <2>1, <2>2 DEF Shape
  <2> QED BY <1>4, <2>2 DEF Shape
<1>7. ASSUME NEW x \in 1 .. n \ {t}, NEW a, CallOf(l, x, a)
      PROVE  CallOf(u.l, x, a)
  <2>1. l.tools[x].block # NoIndex => l.tools[x].block # i /\ l.tools[x].block \in DOMAIN l.blocks
    BY <1>1, <1>7, RestOpen DEF Shape, i
  <2>2. l.tools[x].block # NoIndex => u.l.blocks[l.tools[x].block] = l.blocks[l.tools[x].block]
    BY <1>3, <2>1 DEF GrownAt
  <2> QED BY <1>4, <1>7, <2>2 DEF CallOf
<1>8. /\ u.l.blocks[i].parts = l.blocks[i].parts \o data
      /\ u.l.said = l.said /\ u.l.thought = l.thought
  BY <1>1, <1>3 DEF GrownAt
<1>10. Follows(l, u.l) /\ u.l.blocks[i].type = "tool_use"
  BY <1>1, <1>3 DEF GrownAt, Kept, Follows
<1>9. OtherCalls(l, u.l, n, t)
  BY <1>7 DEF OtherCalls
<1> QED BY <1>3, <1>4, <1>6, <1>8, <1>9, <1>10, Zenon DEF i, u, Grew

\* A call's buffers change, not its block.
SetTool(w, t, r) == [l |-> [w.l EXCEPT !.tools = [w.l.tools EXCEPT ![t] = r]], out |-> w.out]

Sets(c, w, n, t, r) ==
  /\ Tells(c, w) /\ Shape(w.l, n) /\ t \in 1 .. n
  /\ r \in ToolRecord /\ r.block = w.l.tools[t].block
WasSet(c, w, u, n, t, r) ==
  /\ Tells(c, u) /\ (Speaks(w) => Speaks(u)) /\ Shape(u.l, n) /\ u.l.tools[t] = r
  /\ u.l.blocks = w.l.blocks /\ u.l.said = w.l.said /\ u.l.thought = w.l.thought
  /\ u.l.stack = w.l.stack /\ u.l.stop_reason = w.l.stop_reason /\ u.l.text = w.l.text
  /\ u.l.text_on = w.l.text_on /\ u.l.thinking_on = w.l.thinking_on /\ u.out = w.out
  /\ Follows(w.l, u.l) /\ OtherCalls(w.l, u.l, n, t)

LEMMA SetToolTold ==
  ASSUME NEW c, NEW w, NEW n, NEW t, NEW r, Sets(c, w, n, t, r)
  PROVE  WasSet(c, w, SetTool(w, t, r), n, t, r)
<1> USE DEF Sets
<1> DEFINE u == SetTool(w, t, r)
           l == w.l
           tools == [l.tools EXCEPT ![t] = r]
           m == [l EXCEPT !.tools = tools]
<1>1. /\ Sound(l) /\ l \in Ledger /\ l.tools \in Tools /\ DOMAIN l.tools = 1 .. n
  <2>1. Sound(l) /\ l \in Ledger
    BY ToldFields
  <2>2. l.tools \in Tools
    BY <2>1, LedgerFields
  <2> QED BY <2>1, <2>2 DEF Shape
<1>2. tools \in Tools /\ DOMAIN tools = 1 .. n /\ tools[t] = r
      /\ \A x \in 1 .. n \ {t} : tools[x] = l.tools[x]
  <2>1. l.tools \in [1 .. n -> ToolRecord] /\ 1 .. n \subseteq Nat
    BY <1>1, PartialIs DEF Tools
  <2>2. tools \in [1 .. n -> ToolRecord] /\ DOMAIN tools = 1 .. n
    BY <2>1
  <2>3. tools \in Tools
    <3> HIDE DEF tools
    <3> QED BY <2>1, <2>2, PartialIs DEF Tools
  <2> QED BY <2>1, <2>2, <2>3
<1>3. u = [l |-> m, out |-> w.out]
  BY DEF SetTool
<1> HIDE DEF tools, u
<1>4. /\ m \in Ledger /\ m.tools = tools /\ m.blocks = l.blocks /\ m.said = l.said
      /\ m.thought = l.thought /\ m.stack = l.stack /\ m.stop_reason = l.stop_reason
      /\ m.text = l.text /\ m.text_on = l.text_on /\ m.thinking = l.thinking
      /\ m.thinking_on = l.thinking_on /\ m.next = l.next
      /\ m.started = l.started /\ m.stopped = l.stopped
  BY <1>1, <1>2 DEF Ledger
<1> HIDE DEF m
<1>5. u.l = m /\ u.out = w.out
  BY <1>3
<1>6. Sound(m)
  BY <1>1, <1>4 DEF Sound, HasContentBlock, Unsaid
<1>7. ToolBlocks(m) = ToolBlocks(l)
  BY <1>4 DEF ToolBlocks
<1>8. /\ PhaseOf(m) = PhaseOf(l) /\ OpenOf(m) = OpenOf(l) /\ ArgsOf(m) = ArgsOf(l)
  BY <1>4, <1>7 DEF PhaseOf, OpenOf, ArgsOf
<1>9. Tells(c, u)
  <2>1. PICK d : Knows(c, w, d)
    BY DEF Tells
  <2>2. Knows(c, u, d)
    BY <1>4, <1>5, <1>8, <2>1 DEF Knows, Agrees
  <2>3. u \in WorkRecord
    BY <1>3, <1>4, ToldFields DEF WorkRecord
  <2> QED BY <1>5, <1>6, <2>2, <2>3 DEF Tells
<1>10. Rest(m) = Rest(l)
  BY <1>4 DEF Rest
<1>11. \A x \in 1 .. n : tools[x].block = l.tools[x].block
  BY <1>2
<1>12. Shape(m, n)
  BY <1>1, <1>2, <1>4, <1>10, <1>11 DEF Shape
<1>13. ASSUME NEW x \in 1 .. n \ {t}, NEW a, CallOf(l, x, a)
       PROVE  CallOf(m, x, a)
  BY <1>2, <1>4, <1>13 DEF CallOf
<1>14. Speaks(w) => Speaks(u)
  BY <1>4, <1>5 DEF Speaks
<1>15. OtherCalls(l, m, n, t)
  BY <1>13 DEF OtherCalls
<1>16. Follows(l, m)
  BY <1>4 DEF Follows
<1>17. m.tools[t] = r
  BY <1>2, <1>4
<1> QED BY <1>4, <1>5, <1>9, <1>12, <1>14, <1>15, <1>16, <1>17 DEF u, WasSet
\* The fields of a call, changed one by one as the source does.
SetBuffer(w, t, b) == [w EXCEPT !.l.tools[t].buffer = b]
SetEarly(w, t, b) == [w EXCEPT !.l.tools[t].early = b]
SetSent(w, t, b, e) == [w EXCEPT !.l.tools[t].buffer = b, !.l.tools[t].emitted = e]
Buffered(r, b) == [r EXCEPT !.buffer = b]
Early(r, b) == [r EXCEPT !.early = b]
Sent(r, b, e) == [r EXCEPT !.buffer = b, !.emitted = e]

LEMMA SetFields ==
  ASSUME NEW w \in WorkRecord, NEW t \in DOMAIN w.l.tools, NEW b, NEW e
  PROVE  /\ SetBuffer(w, t, b) = SetTool(w, t, Buffered(w.l.tools[t], b))
         /\ SetEarly(w, t, b) = SetTool(w, t, Early(w.l.tools[t], b))
         /\ SetSent(w, t, b, e) = SetTool(w, t, Sent(w.l.tools[t], b, e))
<1>1. w = [l |-> w.l, out |-> w.out] /\ w.l \in Ledger
  BY DEF WorkRecord
<1>2. w.l.tools \in Tools
  BY <1>1, LedgerFields
<1>3. w.l.tools = [u \in DOMAIN w.l.tools |-> w.l.tools[u]] /\ w.l.tools[t] \in ToolRecord
  BY <1>2, ToolsAre
<1>4. [w EXCEPT !.l.tools[t].buffer = b] = SetTool(w, t, [w.l.tools[t] EXCEPT !.buffer = b])
  BY <1>1 DEF SetTool
<1>5. [w EXCEPT !.l.tools[t].early = b] = SetTool(w, t, [w.l.tools[t] EXCEPT !.early = b])
  BY <1>1 DEF SetTool
<1>6. [w EXCEPT !.l.tools[t].buffer = b, !.l.tools[t].emitted = e]
              = SetTool(w, t, [w.l.tools[t] EXCEPT !.buffer = b, !.emitted = e])
  <2> DEFINE v == [w EXCEPT !.l.tools[t].buffer = b]
  <2>1. [w EXCEPT !.l.tools[t].buffer = b, !.l.tools[t].emitted = e]
        = [v EXCEPT !.l.tools[t].emitted = e]
    OBVIOUS
  <2>2. v = SetTool(w, t, [w.l.tools[t] EXCEPT !.buffer = b])
    BY <1>4
  <2> HIDE DEF v
  <2>3. /\ v = [l |-> v.l, out |-> w.out] /\ v.l = [w.l EXCEPT !.tools = v.l.tools]
        /\ v.l.tools = [w.l.tools EXCEPT ![t] = [w.l.tools[t] EXCEPT !.buffer = b]]
    BY <1>1, <2>2 DEF SetTool, Ledger
  <2>4. v.l.tools[t] = [w.l.tools[t] EXCEPT !.buffer = b] /\ t \in DOMAIN v.l.tools
    BY <1>3, <2>3
  <2>5. [v EXCEPT !.l.tools[t].emitted = e]
        = [l |-> [v.l EXCEPT !.tools = [v.l.tools EXCEPT ![t] = [v.l.tools[t] EXCEPT !.emitted = e]]],
           out |-> w.out]
    BY <2>3
  <2>6. [v.l.tools[t] EXCEPT !.emitted = e] = [w.l.tools[t] EXCEPT !.buffer = b, !.emitted = e]
    BY <2>4
  <2>7. [v.l.tools EXCEPT ![t] = [w.l.tools[t] EXCEPT !.buffer = b, !.emitted = e]]
        = [w.l.tools EXCEPT ![t] = [w.l.tools[t] EXCEPT !.buffer = b, !.emitted = e]]
    BY <1>3, <2>3
  <2> DEFINE both == [w.l.tools EXCEPT ![t] = [w.l.tools[t] EXCEPT !.buffer = b, !.emitted = e]]
  <2>8. [v.l EXCEPT !.tools = both] = [w.l EXCEPT !.tools = both]
    <3> HIDE DEF both
    <3> QED BY <1>1, <2>3 DEF Ledger
  <2> QED BY <2>1, <2>5, <2>6, <2>7, <2>8 DEF SetTool
<1> QED BY <1>4, <1>5, <1>6 DEF SetBuffer, SetEarly, SetSent, Buffered, Early, Sent

LEMMA RecordFields ==
  ASSUME NEW r \in ToolRecord, NEW b \in Seq(Nat), NEW e \in BOOLEAN
  PROVE  /\ Buffered(r, b) \in ToolRecord /\ Early(r, b) \in ToolRecord
         /\ Sent(r, b, e) \in ToolRecord
         /\ Buffered(r, b).block = r.block /\ Buffered(r, b).name = r.name
         /\ Buffered(r, b).buffer = b /\ Buffered(r, b).emitted = r.emitted
         /\ Buffered(r, b).early = r.early
         /\ Early(r, b).block = r.block /\ Early(r, b).name = r.name
         /\ Early(r, b).buffer = r.buffer /\ Early(r, b).emitted = r.emitted
         /\ Early(r, b).early = b
         /\ Sent(r, b, e).block = r.block /\ Sent(r, b, e).name = r.name
         /\ Sent(r, b, e).buffer = b
BY DEF ToolRecord, Buffered, Early, Sent
LEMMA OtherCallsTwice ==
  ASSUME NEW l, NEW m, NEW k, NEW n, NEW t, OtherCalls(l, m, n, t), OtherCalls(m, k, n, t)
  PROVE  OtherCalls(l, k, n, t)
BY DEF OtherCalls

\* What EmitArgs does, case by case.
LEMMA EmitArgsIs ==
  ASSUME NEW w, NEW t, NEW args
  PROVE  LET s == Tool(w.l, t)
             whole == s.buffer \o args
         IN  /\ args = <<>> => EmitArgs(w, t, args) = w
             /\ s.name = "Task" /\ s.emitted => EmitArgs(w, t, args) = w
             /\ args # <<>> /\ s.name = "plain" => EmitArgs(w, t, args) = ToolDelta(w, t, args)
             /\ args # <<>> /\ ~ s.emitted /\ s.name # "plain" /\ whole = Whole
                  => EmitArgs(w, t, args)
                       = SetSent(ToolDelta(w, t, whole), t, <<>>, s.name = "Task")
             /\ args # <<>> /\ ~ s.emitted /\ s.name # "plain" /\ whole # Whole
                  => EmitArgs(w, t, args) = SetBuffer(w, t, whole)
<1>1. "plain" # "Task"
  OBVIOUS
<1> DEFINE s == Tool(w.l, t)
           whole == s.buffer \o args
           kept == SetBuffer(w, t, whole)
           sent == SetSent(ToolDelta(w, t, whole), t, <<>>, s.name = "Task")
           P == s.name = "plain"
           K == s.name = "Task"
           done == EmitArgs(w, t, args)
<1>2. done = IF args = <<>> \/ (K /\ s.emitted) THEN w
             ELSE IF P THEN ToolDelta(w, t, args)
             ELSE IF whole = Whole THEN sent ELSE kept
  BY DEF EmitArgs, SetBuffer, SetSent
<1>3. ~ (P /\ K)
  BY <1>1
<1> HIDE DEF kept, sent, done, whole
<1>4. /\ args = <<>> => done = w
      /\ K /\ s.emitted => done = w
      /\ args # <<>> /\ P => done = ToolDelta(w, t, args)
      /\ args # <<>> /\ ~ s.emitted /\ ~ P /\ whole = Whole => done = sent
      /\ args # <<>> /\ ~ s.emitted /\ ~ P /\ whole # Whole => done = kept
  <2> HIDE DEF P, K, s
  <2> QED BY <1>2, <1>3, Zenon
<1> QED BY <1>4, Zenon DEF kept, sent, done, whole
\* The fragments that turn the first a into the first b.
More(args, a, b) ==
  /\ args \in Seq(Nat) /\ a \in 0 .. 2 /\ b \in 0 .. 2 /\ a <= b
  /\ Part(a) \o args = Part(b) /\ (args = <<>> <=> a = b)

\* More of a call's arguments: passed on at once, or kept until they are whole.
LEMMA EmitArgsTold ==
  ASSUME NEW c, NEW w, Tells(c, w), Speaks(w), NEW n, Shape(w.l, n), NEW t \in 1 .. n,
         w.l.tools[t].block # NoIndex, NEW a, NEW b, CallOf(w.l, t, a), NEW args, More(args, a, b),
         NEW u, u = EmitArgs(w, t, args)
  PROVE  /\ Tells(c, u) /\ Speaks(u) /\ Shape(u.l, n) /\ Follows(w.l, u.l) /\ CallOf(u.l, t, b)
         /\ OtherCalls(w.l, u.l, n, t)
<1> DEFINE l == w.l
           s == Tool(l, t)
           whole == s.buffer \o args
           i == l.tools[t].block
<1>1. /\ w \in WorkRecord /\ l \in Ledger /\ Sound(l) /\ l.tools \in Tools
  <2>1. w \in WorkRecord /\ l \in Ledger /\ Sound(l)
    BY ToldFields
  <2> QED BY <2>1, LedgerFields
<1>2. t \in DOMAIN l.tools /\ s = l.tools[t] /\ i = s.block
  BY DEF Shape, Tool
<1>3. s \in ToolRecord /\ s.buffer \in Seq(Nat) /\ s.emitted \in BOOLEAN
  BY <1>1, <1>2, ToolsAre
<1>4. i \in DOMAIN l.blocks
  BY <1>1, RestOpen DEF Shape
<1>5. /\ s.name \in ToolName
      /\ s.name = "plain" => s.buffer = <<>> /\ l.blocks[i].parts = Part(a)
      /\ s.name # "plain" /\ a # 2 =>
           s.buffer = Part(a) /\ l.blocks[i].parts = <<>> /\ ~ s.emitted
  BY <1>2, Zenon DEF CallOf
<1>0. args \in Seq(Nat)
  BY DEF More
<1>6. b \in 0 .. 2 /\ Part(0) = <<>> /\ Part(2) = Whole /\ (Part(b) = Whole <=> b = 2)
  <2>1. b \in 0 .. 2 /\ 0 \in 0 .. 2 /\ 2 \in 0 .. 2
    BY DEF More
  <2> QED BY <2>1, PartIs
<1>7. /\ args = <<>> => u = w
      /\ s.name = "Task" /\ s.emitted => u = w
      /\ args # <<>> /\ s.name = "plain" => u = ToolDelta(w, t, args)
      /\ args # <<>> /\ ~ s.emitted /\ s.name # "plain" /\ whole = Whole
           => u = SetSent(ToolDelta(w, t, whole), t, <<>>, s.name = "Task")
      /\ args # <<>> /\ ~ s.emitted /\ s.name # "plain" /\ whole # Whole
           => u = SetBuffer(w, t, whole)
  BY EmitArgsIs
<1>8. Follows(l, l) /\ OtherCalls(l, l, n, t)
  BY DEF Follows, OtherCalls
<1> HIDE DEF s, i
<1>9. CASE args = <<>>
  <2>1. u = w /\ a = b
    BY <1>7, <1>9 DEF More
  <2> QED BY <1>8, <2>1
<1>10. CASE args # <<>> /\ s.name = "plain"
  <2>1. u = ToolDelta(w, t, args)
    BY <1>7, <1>10
  <2>0. Grew(c, w, u, n, t, args)
    <3>1. Grows(c, w, n, t)
      BY DEF Grows
    <3> QED BY <1>0, <2>1, <3>1, ToolDeltaTold
  <2>2. /\ Tells(c, u) /\ Speaks(u) /\ Shape(u.l, n) /\ u.l.tools = l.tools
        /\ u.l.blocks[i].parts = l.blocks[i].parts \o args
        /\ Follows(l, u.l) /\ OtherCalls(l, u.l, n, t)
    BY <2>0, Zenon DEF i, Grew
  <2>5. u.l.blocks[i].parts = Part(b)
    BY <1>5, <1>10, <2>2, Zenon DEF More
  <2>6. u.l.tools[t] = s /\ s.block = i /\ i # NoIndex
    BY <1>2, <2>2, Zenon DEF i
  <2>7. CallOf(u.l, t, b)
    BY <1>5, <1>6, <1>10, <2>5, <2>6, Zenon DEF CallOf
  <2> QED BY <2>2, <2>7
<1>11. CASE args # <<>> /\ s.name # "plain"
  <2>1. a # b /\ a # 2
    BY <1>11 DEF More
  <2>2. s.buffer = Part(a) /\ l.blocks[i].parts = <<>> /\ ~ s.emitted
    BY <1>5, <1>11, <2>1
  <2>3. whole = Part(b) /\ whole \in Seq(Nat)
    BY <1>0, <1>3, <2>2 DEF More
  <2> HIDE DEF whole
  <2>4. CASE whole = Whole
    <3>1. b = 2
      BY <1>6, <2>3, <2>4
    <3> DEFINE v == ToolDelta(w, t, whole)
               e == s.name = "Task"
               r == Sent(v.l.tools[t], <<>>, e)
    <3>2. u = SetSent(v, t, <<>>, e)
      BY <1>7, <1>11, <2>2, <2>4
    <3> HIDE DEF v, e
    <3>3. Grew(c, w, v, n, t, whole)
      <4>1. Grows(c, w, n, t)
        BY DEF Grows
      <4> QED BY <2>3, <4>1, ToolDeltaTold DEF v
    <3>4. /\ Tells(c, v) /\ Speaks(v) /\ Shape(v.l, n) /\ v.l.tools = l.tools
          /\ v.l.blocks[i].parts = l.blocks[i].parts \o whole
          /\ Follows(l, v.l) /\ OtherCalls(l, v.l, n, t)
      BY <3>3, Zenon DEF i, Grew
    <3>5. v \in WorkRecord /\ t \in DOMAIN v.l.tools /\ v.l.tools[t] = s
      BY <1>2, <3>4, ToldFields, Zenon
    <3>6. u = SetTool(v, t, r)
      BY <3>2, <3>5, SetFields
    <3>7. r \in ToolRecord /\ r.block = v.l.tools[t].block /\ r.name = s.name /\ r.buffer = <<>>
      <4>1. e \in BOOLEAN /\ <<>> \in Seq(Nat)
        BY NothingIs DEF e
      <4> DEFINE none == <<>>
                 q == Sent(s, none, e)
      <4>2. none \in Seq(Nat)
        BY <4>1
      <4> HIDE DEF none
      <4>3. q \in ToolRecord /\ q.block = s.block /\ q.name = s.name /\ q.buffer = none
        BY <1>3, <4>1, <4>2, RecordFields
      <4>4. r = q
        BY <3>5 DEF none
      <4> HIDE DEF q, r
      <4>5. none = <<>>
        BY DEF none
      <4> QED BY <3>5, <4>3, <4>4, <4>5, Zenon
    <3> HIDE DEF r
    <3>8. WasSet(c, v, u, n, t, r)
      <4>1. Sets(c, v, n, t, r)
        BY <3>4, <3>7 DEF Sets
      <4> QED BY <3>6, <4>1, SetToolTold
    <3>12. /\ Tells(c, u) /\ Speaks(u) /\ Shape(u.l, n) /\ u.l.tools[t] = r
          /\ u.l.blocks = v.l.blocks /\ Follows(v.l, u.l) /\ OtherCalls(v.l, u.l, n, t)
      BY <3>4, <3>8 DEF WasSet
    <3>9. u.l.blocks[i].parts = Whole
      BY <2>2, <2>4, <3>4, <3>12, NothingBefore, DataIs
    <3>10. CallOf(u.l, t, b)
      <4>1. u.l.tools[t].block = i /\ i # NoIndex /\ u.l.tools[t].name = s.name
            /\ u.l.tools[t].buffer = <<>>
        BY <1>2, <3>5, <3>7, <3>12 DEF i
      <4> QED BY <1>5, <1>6, <1>11, <3>1, <3>9, <4>1, Zenon DEF CallOf
    <3> QED BY <3>4, <3>12, <3>10, FollowsTwice, OtherCallsTwice
  <2>5. CASE whole # Whole
    <3>1. b # 2
      BY <1>6, <2>3, <2>5
    <3> DEFINE r == Buffered(l.tools[t], whole)
    <3>2. u = SetBuffer(w, t, whole)
      BY <1>7, <1>11, <2>2, <2>5
    <3>3. u = SetTool(w, t, r)
      BY <1>1, <1>2, <3>2, SetFields
    <3>4. r \in ToolRecord /\ r.block = l.tools[t].block /\ r.name = s.name /\ r.buffer = whole
          /\ r.emitted = s.emitted
      BY <1>2, <1>3, <2>3, RecordFields
    <3> HIDE DEF r
    <3>8. WasSet(c, w, u, n, t, r)
      <4>1. Sets(c, w, n, t, r)
        BY <3>4 DEF Sets
      <4> QED BY <3>3, <4>1, SetToolTold
    <3>5. /\ Tells(c, u) /\ Speaks(u) /\ Shape(u.l, n) /\ u.l.tools[t] = r
          /\ u.l.blocks = l.blocks /\ Follows(l, u.l) /\ OtherCalls(l, u.l, n, t)
      BY <3>8 DEF WasSet
    <3>6. CallOf(u.l, t, b)
      <4>1. /\ u.l.tools[t].block = i /\ i # NoIndex /\ u.l.tools[t].name = s.name
            /\ u.l.tools[t].buffer = Part(b) /\ ~ u.l.tools[t].emitted
            /\ u.l.blocks[i].parts = <<>>
        BY <1>2, <2>2, <2>3, <3>4, <3>5 DEF i
      <4> QED BY <1>5, <1>6, <1>11, <3>1, <4>1, Zenon DEF CallOf
    <3> QED BY <3>5, <3>6
  <2> QED BY <2>4, <2>5
<1> QED BY <1>9, <1>10, <1>11
\* Other calls than before.
WithTools(w, tools) == [l |-> [w.l EXCEPT !.tools = tools], out |-> w.out]
Retooled(c, w, u, tools) ==
  /\ Tells(c, u) /\ (Speaks(w) => Speaks(u)) /\ u.l.tools = tools /\ u.out = w.out
  /\ u.l.blocks = w.l.blocks /\ u.l.said = w.l.said /\ u.l.thought = w.l.thought
  /\ u.l.stack = w.l.stack /\ u.l.text = w.l.text /\ u.l.thinking = w.l.thinking
  /\ u.l.text_on = w.l.text_on /\ u.l.thinking_on = w.l.thinking_on /\ u.l.next = w.l.next
  /\ u.l.stop_reason = w.l.stop_reason /\ Rest(u.l) = Rest(w.l) /\ Follows(w.l, u.l)

LEMMA ToolsTold ==
  ASSUME NEW c, NEW w, Tells(c, w), NEW tools \in Tools
  PROVE  Retooled(c, w, WithTools(w, tools), tools)
<1> DEFINE u == WithTools(w, tools)
           l == w.l
           m == [l EXCEPT !.tools = tools]
<1>1. /\ Sound(l) /\ l \in Ledger
  BY ToldFields
<1>2. u = [l |-> m, out |-> w.out]
  BY DEF WithTools
<1>3. /\ m \in Ledger /\ m.tools = tools /\ m.blocks = l.blocks /\ m.said = l.said
      /\ m.thought = l.thought /\ m.stack = l.stack /\ m.stop_reason = l.stop_reason
      /\ m.text = l.text /\ m.text_on = l.text_on /\ m.thinking = l.thinking
      /\ m.thinking_on = l.thinking_on /\ m.next = l.next
      /\ m.started = l.started /\ m.stopped = l.stopped
  BY <1>1 DEF Ledger
<1> HIDE DEF m, u
<1>4. u.l = m /\ u.out = w.out
  BY <1>2
<1>5. Sound(m)
  BY <1>1, <1>3 DEF Sound, HasContentBlock, Unsaid
<1>6. ToolBlocks(m) = ToolBlocks(l)
  BY <1>3 DEF ToolBlocks
<1>7. /\ PhaseOf(m) = PhaseOf(l) /\ OpenOf(m) = OpenOf(l) /\ ArgsOf(m) = ArgsOf(l)
  BY <1>3, <1>6 DEF PhaseOf, OpenOf, ArgsOf
<1>8. Tells(c, u)
  <2>1. PICK d : Knows(c, w, d)
    BY DEF Tells
  <2>2. Knows(c, u, d)
    BY <1>3, <1>4, <1>7, <2>1 DEF Knows, Agrees
  <2>3. u \in WorkRecord
    BY <1>2, <1>3, ToldFields DEF WorkRecord
  <2> QED BY <1>4, <1>5, <2>2, <2>3 DEF Tells
<1>9. Rest(m) = Rest(l)
  BY <1>3 DEF Rest
<1>10. Speaks(w) => Speaks(u)
  BY <1>3, <1>4 DEF Speaks
<1>11. Follows(l, m)
  BY <1>3 DEF Follows
<1> QED BY <1>3, <1>4, <1>8, <1>9, <1>10, <1>11 DEF u, Retooled

PutAt(f, g, k, r) ==
  /\ g \in Tools /\ DOMAIN g = DOMAIN f \cup {k} /\ g[k] = r
  /\ \A x \in DOMAIN f \ {k} : g[x] = f[x]

LEMMA PutTool ==
  ASSUME NEW f \in Tools, NEW k \in Nat, NEW r \in ToolRecord
  PROVE  PutAt(f, Put(f, k, r), k, r)
<1> DEFINE g == Put(f, k, r)
<1>1. DOMAIN f \subseteq Nat /\ f \in [DOMAIN f -> ToolRecord]
  BY PartialIs DEF Tools
<1>2. /\ g \in [DOMAIN f \cup {k} -> ToolRecord] /\ DOMAIN g = DOMAIN f \cup {k}
      /\ g[k] = r /\ \A x \in DOMAIN f \ {k} : g[x] = f[x]
  BY <1>1 DEF Put
<1> HIDE DEF g
<1>3. DOMAIN g \subseteq Nat /\ g \in [DOMAIN g -> ToolRecord]
  BY <1>1, <1>2
<1>4. g \in Tools
  BY <1>3, PartialIs DEF Tools
<1> QED BY <1>2, <1>4 DEF PutAt, g

LEMMA EarlyFields ==
  ASSUME NEW r \in ToolRecord, NEW b \in Seq(Nat)
  PROVE  /\ Early(r, b) \in ToolRecord /\ Early(r, b).block = r.block
         /\ Early(r, b).name = r.name /\ Early(r, b).buffer = r.buffer
         /\ Early(r, b).emitted = r.emitted /\ Early(r, b).early = b
BY DEF ToolRecord, Early

\* A call that is heard of for the first time.
NewCall(w, t) == [w EXCEPT !.l.tools = Put(@, t, NewTool)]
Called(c, w, u, n, m, t) ==
  /\ Tells(c, u) /\ Speaks(u) /\ Shape(u.l, m) /\ Follows(w.l, u.l)
  /\ OtherCalls(w.l, u.l, n, t)

LEMMA NewCallTold ==
  ASSUME NEW c, NEW w, Tells(c, w), Speaks(w), NEW n, Shape(w.l, n)
  PROVE  /\ Called(c, w, NewCall(w, n + 1), n, n + 1, n + 1)
         /\ CallOf(NewCall(w, n + 1).l, n + 1, 0)
         /\ NewCall(w, n + 1).l.tools[n + 1].block = NoIndex
<1> DEFINE t == n + 1
           tools == Put(w.l.tools, t, NewTool)
           u == NewCall(w, t)
<1>1. n \in Nat /\ t \in Nat /\ t \notin 1 .. n /\ 1 .. t = 1 .. n \cup {t} /\ DOMAIN w.l.tools = 1 .. n
  BY DEF Shape
<1>2. w \in WorkRecord /\ w.l \in Ledger /\ w = [l |-> w.l, out |-> w.out]
  BY ToldFields
<1>3. w.l.tools \in Tools
  BY <1>2, LedgerFields
<1>4. u = WithTools(w, tools)
  BY <1>2 DEF NewCall, WithTools
<1>5. NewTool \in ToolRecord /\ NewTool.block = NoIndex /\ NewTool.early = <<>>
      /\ NewTool.buffer = <<>> /\ ~ NewTool.emitted
  <2>1. "" \in CallName
    BY Zenon DEF CallName
  <2>2. <<>> \in Seq(Nat)
    BY NothingIs
  <2> DEFINE name == ""
  <2>3. NewTool = [block |-> NoIndex, name |-> name, buffer |-> <<>>, emitted |-> FALSE,
                   early |-> <<>>]
    BY Zenon DEF NewTool
  <2>4. name \in CallName
    BY <2>1, Zenon
  <2> HIDE DEF name
  <2> QED BY <2>2, <2>3, <2>4 DEF ToolRecord, NoIndex
<1> HIDE DEF t
<1>6. /\ tools \in Tools /\ DOMAIN tools = 1 .. n \cup {t} /\ tools[t] = NewTool
      /\ \A x \in 1 .. n : tools[x] = w.l.tools[x]
  <2>1. /\ tools \in Tools /\ DOMAIN tools = DOMAIN w.l.tools \cup {t}
        /\ tools[t] = NewTool /\ \A x \in DOMAIN w.l.tools \ {t} : tools[x] = w.l.tools[x]
    <3>1. PutAt(w.l.tools, tools, t, NewTool)
      BY <1>1, <1>3, <1>5, PutTool
    <3> HIDE DEF tools
    <3> QED BY <3>1 DEF PutAt
  <2> QED BY <1>1, <2>1
<1> HIDE DEF tools, u
<1>7. Retooled(c, w, u, tools)
  BY <1>4, <1>6, ToolsTold
<1>8. /\ Tells(c, u) /\ Speaks(u) /\ u.l.tools = tools /\ u.l.blocks = w.l.blocks
      /\ Rest(u.l) = Rest(w.l) /\ Follows(w.l, u.l)
  BY <1>7 DEF Retooled
<1>9. Shape(u.l, t)
  <2>1. t \in Nat /\ DOMAIN u.l.tools = 1 .. t
    BY <1>1, <1>6, <1>8
  <2>2. \A x \in 1 .. t : tools[x].block # NoIndex => x \in 1 .. n /\ tools[x] = w.l.tools[x]
    BY <1>1, <1>5, <1>6
  <2>3. \A x \in 1 .. t : tools[x].block # NoIndex =>
          tools[x].block \in Rest(w.l) /\ w.l.blocks[tools[x].block].type = "tool_use"
    BY <2>2 DEF Shape
  <2>4. \A x, y \in 1 .. t : tools[x].block # NoIndex /\ tools[x].block = tools[y].block => x = y
    BY <2>2 DEF Shape
  <2>5. \A i \in Rest(w.l) : \E x \in 1 .. t : tools[x].block = i
    BY <1>1, <1>6 DEF Shape
  <2> QED BY <1>8, <2>1, <2>3, <2>4, <2>5 DEF Shape
<1>10. OtherCalls(w.l, u.l, n, t)
  BY <1>6, <1>8 DEF OtherCalls, CallOf
<1>11. CallOf(u.l, t, 0)
  <2>1. 0 \in 0 .. 2 /\ Part(0) = <<>>
    BY DEF Part
  <2>2. u.l.tools[t] = NewTool
    BY <1>6, <1>8
  <2> QED BY <1>5, <2>1, <2>2, Zenon DEF CallOf
<1>12. u.l.tools[t].block = NoIndex
  BY <1>5, <1>6, <1>8
<1> QED BY <1>8, <1>9, <1>10, <1>11, <1>12 DEF Called, t, u
\* A call whose name is known gets a block of its own.
StartNamed(w, t, name) == SetEarly(StartTool(w, t, name), t, <<>>)

LEMMA StartNamedTold ==
  ASSUME NEW c, NEW w, Tells(c, w), Speaks(w), NEW n, Shape(w.l, n), NEW t \in 1 .. n,
         w.l.tools[t].block = NoIndex, NEW a, CallOf(w.l, t, a), NEW name \in ToolName
  PROVE  /\ Called(c, w, StartNamed(w, t, name), n, n, t) /\ CallOf(StartNamed(w, t, name).l, t, 0)
         /\ StartNamed(w, t, name).l.tools[t].block # NoIndex
<1> DEFINE l == w.l
           i == l.next
           b == BlockStart(w, i, "tool_use")
           r0 == [Tool(b.l, t) EXCEPT !.block = i, !.name = name]
           r == Early(r0, <<>>)
           v == StartTool(w, t, name)
           u == StartNamed(w, t, name)
<1>1. w \in WorkRecord /\ l \in Ledger /\ Sound(l) /\ i \in Nat /\ i >= i /\ n \in Nat
  <2>1. w \in WorkRecord /\ l \in Ledger /\ Sound(l)
    BY ToldFields
  <2> QED BY <2>1, LedgerFields DEF Shape
<1>2. Tells(c, b) /\ Speaks(b) /\ StartedAt(l, b.l, i, "tool_use")
  BY <1>1, StartTold DEF BlockType
<1>3. /\ b.l.tools = l.tools /\ b.l.said = l.said /\ b.l.thought = l.thought
      /\ b.l.stop_reason = l.stop_reason /\ Range(b.l.stack) = Range(l.stack) \cup {i}
      /\ DOMAIN b.l.blocks = DOMAIN l.blocks \cup {i}
      /\ b.l.blocks[i] = [type |-> "tool_use", parts |-> <<>>]
      /\ \A x \in DOMAIN l.blocks : b.l.blocks[x] = l.blocks[x]
      /\ b.l.text = l.text /\ b.l.thinking = l.thinking
      /\ b.l.text_on = l.text_on /\ b.l.thinking_on = l.thinking_on
  <2> DEFINE type == "tool_use"
  <2>1. type # "text" /\ type # "thinking"
    OBVIOUS
  <2>2. StartedAt(l, b.l, i, type)
    BY <1>2
  <2>3. l.text_on \in BOOLEAN /\ l.thinking_on \in BOOLEAN /\ b.l.text_on \in BOOLEAN
        /\ b.l.thinking_on \in BOOLEAN
    BY <1>1, <1>2, ToldFields, LedgerFields
  <2> HIDE DEF type, b, i
  <2>4. b.l.blocks[i] = [type |-> type, parts |-> <<>>]
    BY <2>2, Zenon DEF StartedAt
  <2> QED BY <2>1, <2>2, <2>3, <2>4 DEF StartedAt, Kept, type
<1>4. b \in WorkRecord /\ b.l \in Ledger /\ b = [l |-> b.l, out |-> b.out]
  BY <1>2, ToldFields
<1>5. /\ l.tools \in Tools /\ DOMAIN l.tools = 1 .. n /\ t \in DOMAIN l.tools /\ t \in Nat
      /\ l.tools[t] \in ToolRecord /\ Tool(b.l, t) = l.tools[t]
  <2>1. l.tools \in Tools
    BY <1>1, LedgerFields
  <2>2. DOMAIN l.tools = 1 .. n /\ t \in DOMAIN l.tools /\ t \in Nat
    BY <1>1 DEF Shape
  <2>3. Tool(b.l, t) = l.tools[t]
    BY <1>3, <2>2 DEF Tool
  <2> QED BY <2>1, <2>2, <2>3, ToolsAre
<1>6. name \in CallName
  BY Zenon DEF CallName
<1>7. l.tools[t].buffer = <<>> /\ ~ l.tools[t].emitted
  BY Zenon DEF CallOf
<1> HIDE DEF i, b
<1>8. r0 \in ToolRecord /\ r0.block = i /\ r0.name = name /\ r0.buffer = <<>> /\ ~ r0.emitted
  <2> DEFINE q == Tool(b.l, t)
  <2>1. q \in ToolRecord /\ q.buffer = <<>> /\ ~ q.emitted /\ i \in Int
    BY <1>1, <1>5, <1>7
  <2> HIDE DEF q
  <2>2. /\ [q EXCEPT !.block = i, !.name = name] \in ToolRecord
        /\ [q EXCEPT !.block = i, !.name = name].block = i
        /\ [q EXCEPT !.block = i, !.name = name].name = name
        /\ [q EXCEPT !.block = i, !.name = name].buffer = q.buffer
        /\ [q EXCEPT !.block = i, !.name = name].emitted = q.emitted
    BY <1>6, <2>1 DEF ToolRecord
  <2>3. r0 = [q EXCEPT !.block = i, !.name = name]
    BY DEF q
  <2> HIDE DEF r0
  <2> DEFINE z == [q EXCEPT !.block = i, !.name = name]
  <2> HIDE DEF z
  <2>4. r0 = z
    BY <2>3 DEF z
  <2>5. z \in ToolRecord /\ z.block = i /\ z.name = name /\ z.buffer = q.buffer
        /\ z.emitted = q.emitted
    BY <2>2 DEF z
  <2> QED BY <2>1, <2>4, <2>5
<1> HIDE DEF r0
<1>9. r \in ToolRecord /\ r.block = i /\ r.name = name /\ r.buffer = <<>> /\ ~ r.emitted
  <2> DEFINE none == <<>>
  <2>1. none \in Seq(Nat)
    BY NothingIs
  <2> HIDE DEF none
  <2>2. /\ Early(r0, none) \in ToolRecord /\ Early(r0, none).block = r0.block
        /\ Early(r0, none).name = r0.name /\ Early(r0, none).buffer = r0.buffer
        /\ Early(r0, none).emitted = r0.emitted
    BY <1>8, <2>1, EarlyFields
  <2>3. r = Early(r0, none)
    BY DEF none
  <2> HIDE DEF r
  <2> QED BY <1>8, <2>2, <2>3
<1> HIDE DEF r
<1> DEFINE t0 == Put(l.tools, t, r0)
           t1 == [t0 EXCEPT ![t] = r]
<1>10. /\ t0 \in Tools /\ DOMAIN t0 = DOMAIN l.tools \cup {t} /\ t0[t] = r0
       /\ \A x \in DOMAIN l.tools \ {t} : t0[x] = l.tools[x]
  <2>1. PutAt(l.tools, t0, t, r0)
    BY <1>5, <1>8, PutTool
  <2> HIDE DEF t0
  <2> QED BY <2>1 DEF PutAt
<1>11. v = WithTools(b, t0)
  <2>1. v = [b EXCEPT !.l.tools = Put(@, t, r0)]
    BY DEF StartTool, i, b, r0
  <2> QED BY <1>3, <1>4, <2>1 DEF WithTools
<1> HIDE DEF t0, v
<1>12. Retooled(c, b, v, t0)
  BY <1>2, <1>10, <1>11, ToolsTold
<1>13. /\ Tells(c, v) /\ Speaks(v) /\ v.l.tools = t0 /\ v.l.blocks = b.l.blocks
       /\ v.l.stack = b.l.stack /\ Rest(v.l) = Rest(b.l) /\ Follows(b.l, v.l)
  BY <1>2, <1>12 DEF Retooled
<1>14. /\ t1 \in Tools /\ DOMAIN t1 = 1 .. n /\ t1[t] = r
       /\ \A x \in 1 .. n \ {t} : t1[x] = l.tools[x]
  <2>1. t0 \in [1 .. n -> ToolRecord] /\ 1 .. n \subseteq Nat
    BY <1>5, <1>10, PartialIs DEF Tools
  <2>2. t1 \in [1 .. n -> ToolRecord] /\ DOMAIN t1 = 1 .. n
    BY <1>9, <2>1
  <2>3. t1 \in Tools
    <3> HIDE DEF t1
    <3> QED BY <2>1, <2>2, PartialIs DEF Tools
  <2> QED BY <1>5, <1>10, <2>1, <2>2, <2>3
<1>15. u = WithTools(v, t1)
  <2>1. v \in WorkRecord /\ t \in DOMAIN v.l.tools
    BY <1>5, <1>10, <1>13, ToldFields, Zenon
  <2>2. SetEarly(v, t, <<>>) = SetTool(v, t, Early(v.l.tools[t], <<>>))
    BY <2>1, SetFields, Zenon
  <2>3. v.l.tools[t] = r0
    BY <1>10, <1>13
  <2> QED BY <1>13, <2>2, <2>3 DEF StartNamed, SetTool, WithTools, v, r
<1> HIDE DEF t1, u
<1>16. Retooled(c, v, u, t1)
  BY <1>13, <1>14, <1>15, ToolsTold
<1>17. /\ Tells(c, u) /\ Speaks(u) /\ u.l.tools = t1 /\ u.l.blocks = b.l.blocks
       /\ Rest(u.l) = Rest(b.l) /\ Follows(v.l, u.l)
  BY <1>13, <1>16 DEF Retooled
<1>18. i # NoIndex /\ i \notin DOMAIN l.blocks
  BY <1>1 DEF Sound, NoIndex, i
<1>19. Rest(b.l) = Rest(l) \cup {i}
  <2>1. l.text_on => l.text # i
    BY <1>1, <1>18 DEF Sound
  <2>2. l.thinking_on => l.thinking # i
    BY <1>1, <1>18 DEF Sound
  <2> QED BY <1>3, <2>1, <2>2 DEF Rest
<1>20. Follows(l, u.l)
  <2>1. Follows(l, b.l)
    BY <1>3 DEF Follows
  <2> QED BY <1>13, <1>17, <2>1, FollowsTwice
<1>21. \A x \in 1 .. n \ {t} : l.tools[x].block # NoIndex =>
         l.tools[x].block \in DOMAIN l.blocks /\ l.tools[x].block # i
  BY <1>1, <1>18, RestOpen DEF Shape
<1>22. Shape(u.l, n)
  <2>1. DOMAIN u.l.tools = 1 .. n
    BY <1>14, <1>17
  <2>2. ASSUME NEW x \in 1 .. n, t1[x].block # NoIndex
        PROVE  t1[x].block \in Rest(l) \cup {i} /\ b.l.blocks[t1[x].block].type = "tool_use"
    <3>1. CASE x = t
      BY <1>3, <1>9, <1>14, <3>1
    <3>2. CASE x # t
      <4>1. l.tools[x].block \in Rest(l) /\ l.blocks[l.tools[x].block].type = "tool_use"
        BY <1>14, <2>2, <3>2 DEF Shape
      <4> QED BY <1>3, <1>14, <1>21, <2>2, <3>2, <4>1
    <3> QED BY <3>1, <3>2
  <2>3. ASSUME NEW x \in 1 .. n, NEW y \in 1 .. n, t1[x].block # NoIndex, t1[x].block = t1[y].block
        PROVE  x = y
    <3>1. CASE x = t \/ y = t
      BY <1>9, <1>14, <1>21, <2>3, <3>1
    <3>2. CASE x # t /\ y # t
      BY <1>14, <2>3, <3>2 DEF Shape
    <3> QED BY <3>1, <3>2
  <2>4. ASSUME NEW j \in Rest(l) \cup {i}
        PROVE  \E x \in 1 .. n : t1[x].block = j
    <3>1. CASE j = i
      BY <1>9, <1>14, <3>1
    <3>2. CASE j \in Rest(l)
      <4>1. PICK x \in 1 .. n : l.tools[x].block = j
        BY <3>2 DEF Shape
      <4>2. j \in Nat /\ j # NoIndex
        BY <1>1, <3>2, RestOpen DEF NoIndex
      <4>3. x # t
        BY <4>1, <4>2
      <4> QED BY <1>14, <4>1, <4>3
    <3> QED BY <3>1, <3>2
  <2>5. \A x \in 1 .. n : u.l.tools[x].block # NoIndex =>
          u.l.tools[x].block \in Rest(u.l) /\ u.l.blocks[u.l.tools[x].block].type = "tool_use"
    BY <1>17, <1>19, <2>2
  <2>6. \A x, y \in 1 .. n :
          u.l.tools[x].block # NoIndex /\ u.l.tools[x].block = u.l.tools[y].block => x = y
    BY <1>17, <2>3
  <2>7. \A j \in Rest(u.l) : \E x \in 1 .. n : u.l.tools[x].block = j
    BY <1>17, <1>19, <2>4
  <2>8. n \in Nat
    BY <1>1
  <2> QED BY <2>1, <2>5, <2>6, <2>7, <2>8, Zenon DEF Shape
<1>23. OtherCalls(l, u.l, n, t)
  <2>1. \A x \in 1 .. n \ {t} :
          /\ u.l.tools[x] = l.tools[x]
          /\ l.tools[x].block # NoIndex => u.l.blocks[l.tools[x].block] = l.blocks[l.tools[x].block]
    BY <1>3, <1>14, <1>17, <1>21
  <2>2. ASSUME NEW x \in 1 .. n \ {t}, NEW z, CallOf(l, x, z)
        PROVE  CallOf(u.l, x, z)
    BY <2>1, <2>2, Zenon DEF CallOf
  <2> QED BY <2>2 DEF OtherCalls
<1>24. CallOf(u.l, t, 0)
  <2>1. 0 \in 0 .. 2 /\ Part(0) = <<>> /\ 0 # 2
    BY DEF Part
  <2>2. u.l.tools[t] = r /\ u.l.blocks[i].parts = <<>>
    BY <1>3, <1>14, <1>17
  <2> QED BY <1>9, <1>18, <2>1, <2>2, Zenon DEF CallOf
<1>25. u.l.tools[t].block # NoIndex
  BY <1>9, <1>14, <1>17, <1>18
<1> QED BY <1>17, <1>20, <1>22, <1>23, <1>24, <1>25 DEF Called, u
LEMMA EmitArgsCalled ==
  ASSUME NEW c, NEW w, NEW n, NEW t, Grows(c, w, n, t), NEW args, NEW a, NEW b,
         CallOf(w.l, t, a), More(args, a, b)
  PROVE  /\ Called(c, w, EmitArgs(w, t, args), n, n, t)
         /\ CallOf(EmitArgs(w, t, args).l, t, b)
<1>1. /\ Tells(c, w) /\ Speaks(w) /\ Shape(w.l, n) /\ t \in 1 .. n
      /\ w.l.tools[t].block # NoIndex
  BY Zenon DEF Grows
<1> DEFINE u == EmitArgs(w, t, args)
<1>2. u = EmitArgs(w, t, args)
  OBVIOUS
<1> HIDE DEF u
<1>3. /\ Tells(c, u) /\ Speaks(u) /\ Shape(u.l, n) /\ Follows(w.l, u.l) /\ CallOf(u.l, t, b)
      /\ OtherCalls(w.l, u.l, n, t)
  BY <1>1, <1>2, EmitArgsTold
<1> QED BY <1>2, <1>3, Zenon DEF Called

LEMMA CalledTwice ==
  ASSUME NEW c, NEW w, NEW u, NEW v, NEW n \in Nat, NEW m \in Nat, NEW t, n <= m,
         Called(c, w, u, n, m, t), Called(c, u, v, m, m, t)
  PROVE  Called(c, w, v, n, m, t)
<1>1. Follows(w.l, v.l)
  BY FollowsTwice, Zenon DEF Called
<1>2. OtherCalls(w.l, v.l, n, t)
  <2>1. \A x \in 1 .. n \ {t} : x \in 1 .. m \ {t}
    OBVIOUS
  <2>2. OtherCalls(w.l, u.l, n, t) /\ OtherCalls(u.l, v.l, m, t)
    BY Zenon DEF Called
  <2> QED BY <2>1, <2>2, Zenon DEF OtherCalls
<1> QED BY <1>1, <1>2, Zenon DEF Called

\* A call without a name has no block; a name comes once.
Nameless(name) == name = ""
Asks(w, t, name) == name \in CallName /\ (Started(w.l, t) => Nameless(name))

\* What ProcessToolCall does, case by case.
LEMMA ProcessToolCallIs ==
  ASSUME NEW w, NEW t, NEW name, NEW args
  PROVE  LET v == IF t \in DOMAIN w.l.tools THEN w ELSE NewCall(w, t)
             u == IF Started(v.l, t) \/ Nameless(name) THEN v
                  ELSE EmitArgs(StartNamed(v, t, name), t, Tool(v.l, t).early)
         IN  ProcessToolCall(w, t, name, args)
               = IF Started(u.l, t) THEN EmitArgs(u, t, args)
                 ELSE [u EXCEPT !.l.tools[t].early = @ \o args]
BY Zenon DEF ProcessToolCall, NewCall, StartNamed, SetEarly, Nameless

\* A part of a call: its name, some of its arguments, or both.
LEMMA ProcessToolCallTold ==
  ASSUME NEW c, NEW w, Tells(c, w), Speaks(w), NEW n, Shape(w.l, n), NEW t \in 1 .. n + 1,
         NEW a, t \in 1 .. n => CallOf(w.l, t, a), t = n + 1 => a = 0,
         NEW name, Asks(w, t, name),
         NEW args, NEW b, More(args, a, b), NEW m, m = IF t > n THEN t ELSE n
  PROVE  /\ Called(c, w, ProcessToolCall(w, t, name, args), n, m, t) /\ t \in 1 .. m
         /\ CallOf(ProcessToolCall(w, t, name, args).l, t, b) /\ m \in Nat
<1> DEFINE l == w.l
           v == IF t \in DOMAIN w.l.tools THEN w ELSE NewCall(w, t)
           early == Tool(v.l, t).early
           u == IF Started(v.l, t) \/ Nameless(name) THEN v
                ELSE EmitArgs(StartNamed(v, t, name), t, early)
           done == ProcessToolCall(w, t, name, args)
<1>1. done = IF Started(u.l, t) THEN EmitArgs(u, t, args)
             ELSE [u EXCEPT !.l.tools[t].early = @ \o args]
  BY ProcessToolCallIs, Zenon
<1>2. n \in Nat /\ m \in Nat /\ n <= m /\ t \in 1 .. m /\ DOMAIN w.l.tools = 1 .. n
  BY DEF Shape
<1>3. Called(c, w, v, n, m, t) /\ CallOf(v.l, t, a) /\ (Started(v.l, t) => Nameless(name))
  <2>1. CASE t \in 1 .. n
    <3>1. v = w /\ m = n
      BY <1>2, <2>1
    <3>2. Follows(l, l) /\ OtherCalls(l, l, n, t)
      BY DEF Follows, OtherCalls
    <3> QED BY <2>1, <3>1, <3>2, Zenon DEF Called, Asks
  <2>2. CASE t \notin 1 .. n
    <3>1. t = n + 1 /\ m = n + 1 /\ a = 0 /\ v = NewCall(w, t)
      BY <1>2, <2>2
    <3>2. /\ Called(c, w, NewCall(w, n + 1), n, n + 1, n + 1)
          /\ CallOf(NewCall(w, n + 1).l, n + 1, 0)
          /\ NewCall(w, n + 1).l.tools[n + 1].block = NoIndex
      BY NewCallTold
    <3> HIDE DEF v
    <3>3. Called(c, w, v, n, m, t) /\ CallOf(v.l, t, a)
      BY <3>1, <3>2
    <3>4. ~ Started(v.l, t)
      <4>1. v.l.tools[t].block = NoIndex
        BY <3>1, <3>2
      <4> QED BY <4>1 DEF Started
    <3> QED BY <3>3, <3>4
  <2> QED BY <2>1, <2>2
<1>4. /\ Tells(c, v) /\ Speaks(v) /\ Shape(v.l, m) /\ t \in DOMAIN v.l.tools
      /\ Tool(v.l, t) = v.l.tools[t] /\ (Started(v.l, t) <=> v.l.tools[t].block # NoIndex)
  <2>1. Tells(c, v) /\ Speaks(v) /\ Shape(v.l, m)
    BY <1>3, Zenon DEF Called
  <2>2. t \in DOMAIN v.l.tools
    BY <1>2, <2>1, Zenon DEF Shape
  <2> HIDE DEF v
  <2> QED BY <2>1, <2>2 DEF Tool, Started
<1> HIDE DEF v
<1>5. Called(c, v, u, m, m, t) /\ CallOf(u.l, t, a)
  <2>1. CASE Started(v.l, t) \/ Nameless(name)
    <3>1. u = v
      BY <2>1
    <3>2. Follows(v.l, v.l) /\ OtherCalls(v.l, v.l, m, t)
      BY DEF Follows, OtherCalls
    <3> QED BY <1>3, <1>4, <3>1, <3>2, Zenon DEF Called
  <2>2. CASE ~ Started(v.l, t) /\ ~ Nameless(name)
    <3> DEFINE x == StartNamed(v, t, name)
    <3>1. u = EmitArgs(x, t, early)
      BY <2>2
    <3>2. name \in ToolName /\ v.l.tools[t].block = NoIndex
      BY <1>4, <2>2, Zenon DEF CallName, Asks, Nameless
    <3>3. /\ Called(c, v, x, m, m, t) /\ CallOf(x.l, t, 0) /\ x.l.tools[t].block # NoIndex
      BY <1>2, <1>3, <1>4, <3>2, StartNamedTold
    <3>4. More(early, 0, a)
      <4>1. early = Part(a) /\ a \in 0 .. 2
        BY <1>3, <1>4, <3>2, Zenon DEF CallOf
      <4>2. Part(a) \in Seq(Nat) /\ (Part(a) = <<>> <=> a = 0) /\ Part(0) = <<>>
        BY <4>1, PartIs DEF Part
      <4> HIDE DEF early
      <4>3. Part(0) \o early = Part(a)
        BY <4>1, <4>2, NothingBefore
      <4>4. early = <<>> <=> 0 = a
        BY <4>1, <4>2
      <4>5. early \in Seq(Nat) /\ 0 \in 0 .. 2 /\ 0 <= a
        BY <4>1, <4>2
      <4> QED BY <4>1, <4>3, <4>4, <4>5 DEF More
    <3> HIDE DEF x, early
    <3>5. Grows(c, x, m, t)
      BY <1>2, <3>3, Zenon DEF Called, Grows
    <3>6. Called(c, x, u, m, m, t) /\ CallOf(u.l, t, a)
      BY <3>1, <3>3, <3>4, <3>5, EmitArgsCalled
    <3>7. Called(c, v, u, m, m, t)
      BY <1>2, <3>3, <3>6, CalledTwice
    <3> QED BY <3>6, <3>7
  <2> QED BY <2>1, <2>2
<1>6. Tells(c, u) /\ Speaks(u) /\ Shape(u.l, m) /\ t \in DOMAIN u.l.tools
  <2>1. Tells(c, u) /\ Speaks(u) /\ Shape(u.l, m)
    BY <1>5, Zenon DEF Called
  <2> QED BY <1>2, <2>1, Zenon DEF Shape
<1> HIDE DEF u, done
<1>7. Called(c, u, done, m, m, t) /\ CallOf(done.l, t, b)
  <2>1. CASE Started(u.l, t)
    <3>1. done = EmitArgs(u, t, args)
      BY <1>1, <2>1
    <3>2. Grows(c, u, m, t)
      BY <1>2, <1>6, <2>1, Zenon DEF Started, Grows
    <3> QED BY <1>5, <3>1, <3>2, EmitArgsCalled
  <2>2. CASE ~ Started(u.l, t)
    <3> DEFINE s == u.l.tools[t]
               more == s.early \o args
               r == Early(s, more)
    <3>1. s.block = NoIndex
      BY <1>6, <2>2 DEF Started
    <3>2. s.early = Part(a) /\ s.buffer = <<>> /\ ~ s.emitted
      BY <1>5, <3>1, Zenon DEF CallOf
    <3>3. more = Part(b) /\ more \in Seq(Nat) /\ b \in 0 .. 2
      BY <3>2, PartIs DEF More
    <3>4. u \in WorkRecord /\ u.l \in Ledger
      BY <1>6, ToldFields
    <3>5. s \in ToolRecord
      <4>1. u.l.tools \in Tools
        BY <3>4, LedgerFields
      <4> QED BY <1>6, <4>1, ToolsAre
    <3>6. done = SetEarly(u, t, more)
      BY <1>1, <2>2 DEF SetEarly
    <3> HIDE DEF more
    <3>7. done = SetTool(u, t, r)
      BY <1>6, <3>4, <3>6, SetFields
    <3>8. r \in ToolRecord /\ r.block = s.block /\ r.buffer = s.buffer /\ r.emitted = s.emitted
          /\ r.early = more
      BY <3>3, <3>5, EarlyFields
    <3> HIDE DEF r
    <3>9. Sets(c, u, m, t, r)
      BY <1>2, <1>6, <3>8, Zenon DEF Sets
    <3>10. WasSet(c, u, done, m, t, r)
      BY <3>7, <3>9, SetToolTold
    <3>11. Called(c, u, done, m, m, t) /\ done.l.tools[t] = r
      BY <1>6, <3>10, Zenon DEF WasSet, Called
    <3>12. CallOf(done.l, t, b)
      BY <3>1, <3>2, <3>3, <3>8, <3>11, Zenon DEF CallOf
    <3> QED BY <3>11, <3>12
  <2> QED BY <2>1, <2>2
<1>8. Called(c, w, u, n, m, t)
  BY <1>2, <1>3, <1>5, CalledTwice
<1>9. Called(c, w, done, n, m, t)
  BY <1>2, <1>7, <1>8, CalledTwice
<1> QED BY <1>2, <1>7, <1>9 DEF done
-----------------------------------------------------------------------------
(* The end of an answer: what is held back is passed on, everything closed. *)

\* What the calls but one hold.
Untouched(l, m, n, t) ==
  \A x \in 1 .. n \ {t} :
    /\ m.tools[x] = l.tools[x]
    /\ l.tools[x].block # NoIndex => m.blocks[l.tools[x].block] = l.blocks[l.tools[x].block]

\* A call whose arguments are all passed on, or replaced.
FlushedData(name, a) == IF name = "Task" /\ a = 1 THEN EmptyObject ELSE Part(a)
Flushed(l, t, a) ==
  /\ l.tools[t].buffer = <<>>
  /\ l.tools[t].block # NoIndex =>
       l.blocks[l.tools[t].block].parts = FlushedData(l.tools[t].name, a)
EitherOf(l, t, a) == CallOf(l, t, a) \/ Flushed(l, t, a)
FlushedFor(l, t, a, name) == l.tools[t].name = name => Flushed(l, t, a)

LEMMA UntouchedSame ==
  ASSUME NEW l, NEW m, NEW n, NEW t, Untouched(l, m, n, t), NEW x \in 1 .. n \ {t}, NEW a, NEW name
  PROVE  /\ EitherOf(l, x, a) => EitherOf(m, x, a)
         /\ FlushedFor(l, x, a, name) => FlushedFor(m, x, a, name)
         /\ m.tools[x].name = l.tools[x].name
<1>1. /\ m.tools[x] = l.tools[x]
      /\ l.tools[x].block # NoIndex => m.blocks[l.tools[x].block] = l.blocks[l.tools[x].block]
  BY DEF Untouched
<1>2. CallOf(l, x, a) => CallOf(m, x, a)
  BY <1>1, Zenon DEF CallOf
<1>3. Flushed(l, x, a) => Flushed(m, x, a)
  BY <1>1, Zenon DEF Flushed
<1> QED BY <1>1, <1>2, <1>3, Zenon DEF EitherOf, FlushedFor

LEMMA ToolDeltaUntouched ==
  ASSUME NEW c, NEW w, NEW u, NEW n, NEW t, NEW data, Grows(c, w, n, t), Grew(c, w, u, n, t, data)
  PROVE  Untouched(w.l, u.l, n, t)
<1>1. /\ Sound(w.l) /\ Shape(w.l, n) /\ t \in 1 .. n /\ w.l.tools[t].block # NoIndex
  BY ToldFields, Zenon DEF Grows
<1>2. u.l.tools = w.l.tools /\ GrownAt(w.l, u.l, w.l.tools[t].block, data)
  BY Zenon DEF Grew
<1>3. ASSUME NEW x \in 1 .. n \ {t}, w.l.tools[x].block # NoIndex
      PROVE  u.l.blocks[w.l.tools[x].block] = w.l.blocks[w.l.tools[x].block]
  <2>1. w.l.tools[x].block \in DOMAIN w.l.blocks /\ w.l.tools[x].block # w.l.tools[t].block
    BY <1>1, <1>3, RestOpen DEF Shape
  <2> QED BY <1>2, <2>1, Zenon DEF GrownAt
<1> QED BY <1>2, <1>3 DEF Untouched

LEMMA SetToolUntouched ==
  ASSUME NEW c, NEW w, NEW n, NEW t, NEW r, Sets(c, w, n, t, r)
  PROVE  Untouched(w.l, SetTool(w, t, r).l, n, t)
<1> DEFINE tools == [w.l.tools EXCEPT ![t] = r]
           u == SetTool(w, t, r)
<1>1. /\ Tells(c, w) /\ Shape(w.l, n) /\ t \in 1 .. n /\ r \in ToolRecord
  BY Zenon DEF Sets
<1>2. w.l.tools \in Tools /\ DOMAIN w.l.tools = 1 .. n
  BY <1>1, ToldFields, LedgerFields DEF Shape
<1>3. w.l.tools \in [1 .. n -> ToolRecord] /\ 1 .. n \subseteq Nat
  BY <1>2, PartialIs DEF Tools
<1>4. tools \in [1 .. n -> ToolRecord] /\ DOMAIN tools = 1 .. n
      /\ \A x \in 1 .. n \ {t} : tools[x] = w.l.tools[x]
  BY <1>1, <1>3
<1>5. u = WithTools(w, tools)
  BY DEF SetTool, WithTools
<1> HIDE DEF tools, u
<1>6. tools \in Tools
  BY <1>3, <1>4, PartialIs DEF Tools
<1>7. Retooled(c, w, u, tools)
  BY <1>1, <1>5, <1>6, ToolsTold
<1>8. u.l.tools = tools /\ u.l.blocks = w.l.blocks
  BY <1>7, Zenon DEF Retooled
<1> QED BY <1>4, <1>8 DEF Untouched, u

LEMMA UntouchedTwice ==
  ASSUME NEW l, NEW m, NEW k, NEW n, NEW t, Untouched(l, m, n, t), Untouched(m, k, n, t)
  PROVE  Untouched(l, k, n, t)
BY DEF Untouched

\* One call is flushed.
Flushes(c, w, n, t, a) ==
  Tells(c, w) /\ Speaks(w) /\ Shape(w.l, n) /\ t \in 1 .. n /\ EitherOf(w.l, t, a)
DidFlush(c, w, u, n, t, a, name) ==
  /\ Tells(c, u) /\ Speaks(u) /\ Shape(u.l, n) /\ Follows(w.l, u.l) /\ Untouched(w.l, u.l, n, t)
  /\ EitherOf(u.l, t, a) /\ u.l.tools[t].name = w.l.tools[t].name
  /\ FlushedFor(u.l, t, a, name) /\ \A x : FlushedFor(w.l, t, a, x) => FlushedFor(u.l, t, a, x)



LEMMA FlushToolTold ==
  ASSUME NEW c, NEW w, NEW n, NEW t, NEW a, Flushes(c, w, n, t, a), NEW name \in {"aliased", "Task"}
  PROVE  DidFlush(c, w, FlushTool(w, t, name), n, t, a, name)
<1> DEFINE s == w.l.tools[t]
           i == s.block
           u == FlushTool(w, t, name)
<1>1. Tells(c, w) /\ Speaks(w) /\ Shape(w.l, n) /\ t \in 1 .. n /\ EitherOf(w.l, t, a)
  BY Zenon DEF Flushes
<1>2. t \in DOMAIN w.l.tools /\ Tool(w.l, t) = s
  BY <1>1 DEF Shape, Tool
<1>3. w \in WorkRecord /\ Sound(w.l) /\ w.l.tools \in Tools
  BY <1>1, ToldFields, LedgerFields
<1>4. s \in ToolRecord /\ s.buffer \in Seq(Nat)
  BY <1>2, <1>3, ToolsAre
<1>5. CASE s.name # name \/ s.buffer = <<>>
  <2>1. u = w
    <3>1. Tool(w.l, t).name # name \/ Tool(w.l, t).buffer = <<>>
      BY <1>2, <1>5, Zenon
    <3> QED BY <3>1, Zenon DEF FlushTool
  <2>2. Follows(w.l, w.l) /\ Untouched(w.l, w.l, n, t)
    BY DEF Follows, Untouched
  <2>3. FlushedFor(w.l, t, a, name)
    <3>1. CASE s.name # name
      BY <3>1, Zenon DEF FlushedFor
    <3>2. CASE s.name = name /\ s.buffer = <<>>
      <4>1. CASE Flushed(w.l, t, a)
        BY <4>1, Zenon DEF FlushedFor
      <4>2. CASE CallOf(w.l, t, a)
        <5>1. a \in 0 .. 2 /\ (i # NoIndex => s.name \in ToolName)
          BY <4>2, Zenon DEF CallOf
        <5>2. Part(a) = <<>> <=> a = 0
          BY <5>1, PartIs
        <5>3. s.name # "plain"
          BY <3>2
        <5>4. i # NoIndex => w.l.blocks[i].parts = Part(a) /\ (a = 0 \/ a = 2)
          <6>1. CASE i # NoIndex /\ a = 2
            <7>1. w.l.blocks[i].parts = Whole
              BY <4>2, <5>3, <6>1, Zenon DEF CallOf
            <7>2. Part(a) = Whole
              BY <5>1, <6>1, PartIs
            <7> QED BY <6>1, <7>1, <7>2
          <6>2. CASE i # NoIndex /\ a # 2
            <7>1. s.buffer = Part(a) /\ w.l.blocks[i].parts = <<>>
              BY <4>2, <5>3, <6>2, Zenon DEF CallOf
            <7> QED BY <3>2, <5>2, <7>1
          <6> QED BY <6>1, <6>2
        <5>5. i # NoIndex => FlushedData(s.name, a) = Part(a)
          <6>1. i # NoIndex => a # 1
            BY <5>4
          <6> QED BY <6>1, Zenon DEF FlushedData
        <5> QED BY <3>2, <5>4, <5>5, Zenon DEF Flushed, FlushedFor
      <4> QED BY <1>1, <4>1, <4>2, Zenon DEF EitherOf
    <3> QED BY <1>5, <3>1, <3>2
  <2> QED BY <1>1, <2>1, <2>2, <2>3, Zenon DEF DidFlush
<1>6. CASE ~ (s.name # name \/ s.buffer = <<>>)
  <2> DEFINE task == name = "Task"
             data == IF task THEN EmptyObject ELSE s.buffer
             v == ToolDelta(w, t, data)
             r == Sent(v.l.tools[t], <<>>, task)
  <2>1. u = SetSent(v, t, <<>>, task)
    <3> DEFINE q == Tool(w.l, t)
    <3>1. q = s
      BY <1>2
    <3>2. ~ (q.name # name \/ q.buffer = <<>>)
      <4> HIDE DEF q
      <4> QED BY <1>6, <3>1, Zenon
    <3>3. u = SetSent(ToolDelta(w, t, IF name = "Task" THEN EmptyObject ELSE q.buffer),
                      t, <<>>, name = "Task")
      BY <3>2, Zenon DEF FlushTool, SetSent
    <3> HIDE DEF q, u
    <3> QED BY <3>1, <3>3, Zenon
  <2>2. CallOf(w.l, t, a)
    BY <1>1, <1>6, Zenon DEF EitherOf, Flushed
  <2>3. i # NoIndex /\ a = 1 /\ s.buffer = Part(a) /\ w.l.blocks[i].parts = <<>>
    <3>1. i # NoIndex
      BY <1>6, <2>2, Zenon DEF CallOf
    <3>2. s.name # "plain"
      BY <1>6
    <3>3. a \in 0 .. 2 /\ a # 2
      BY <1>6, <2>2, <3>1, <3>2, Zenon DEF CallOf
    <3>4. s.buffer = Part(a) /\ w.l.blocks[i].parts = <<>>
      BY <2>2, <3>1, <3>2, <3>3, Zenon DEF CallOf
    <3>5. a # 0
      BY <1>6, <3>3, <3>4, PartIs
    <3> QED BY <3>1, <3>3, <3>4, <3>5
  <2>4. data \in Seq(Nat) /\ data = FlushedData(s.name, a) /\ task \in BOOLEAN
    <3>1. data \in Seq(Nat)
      BY <1>4, DataIs
    <3>2. data = FlushedData(s.name, a)
      BY <1>6, <2>3, Zenon DEF FlushedData
    <3> QED BY <3>1, <3>2
  <2> HIDE DEF data, task
  <2>5. Grows(c, w, n, t)
    BY <1>1, <2>3, Zenon DEF Grows
  <2>6. Grew(c, w, v, n, t, data)
    BY <2>4, <2>5, ToolDeltaTold
  <2> HIDE DEF v
  <2>7. /\ Tells(c, v) /\ Speaks(v) /\ Shape(v.l, n) /\ v.l.tools = w.l.tools
        /\ v.l.blocks[i].parts = w.l.blocks[i].parts \o data /\ Follows(w.l, v.l)
    BY <2>6, Zenon DEF Grew
  <2>8. v.l.blocks[i].parts = data
    BY <2>3, <2>4, <2>7, NothingBefore
  <2>9. Untouched(w.l, v.l, n, t)
    BY <2>5, <2>6, ToolDeltaUntouched
  <2>10. v \in WorkRecord /\ t \in DOMAIN v.l.tools /\ v.l.tools[t] = s
    <3>1. v \in WorkRecord
      BY <2>7, ToldFields, Zenon
    <3> QED BY <1>2, <2>7, <3>1, Zenon
  <2>11. u = SetTool(v, t, r)
    BY <2>1, <2>10, SetFields, Zenon
  <2>12. r \in ToolRecord /\ r.block = i /\ r.name = s.name /\ r.buffer = <<>>
    <3> DEFINE none == <<>>
    <3>1. none \in Seq(Nat)
      BY NothingIs
    <3> HIDE DEF none
    <3>2. /\ Sent(s, none, task) \in ToolRecord /\ Sent(s, none, task).block = s.block
          /\ Sent(s, none, task).name = s.name /\ Sent(s, none, task).buffer = none
      <4> DEFINE q == s
      <4>1. q \in ToolRecord
        BY <1>4
      <4> HIDE DEF q, task
      <4>2. /\ Sent(q, none, task) \in ToolRecord /\ Sent(q, none, task).block = q.block
            /\ Sent(q, none, task).name = q.name /\ Sent(q, none, task).buffer = none
        BY <2>4, <3>1, <4>1 DEF ToolRecord, Sent
      <4> QED BY <4>2 DEF q
    <3>3. r = Sent(s, none, task)
      BY <2>10 DEF none
    <3> HIDE DEF r
    <3> QED BY <3>2, <3>3 DEF none
  <2> HIDE DEF r
  <2>13. Sets(c, v, n, t, r)
    BY <1>1, <2>7, <2>12, Zenon DEF Sets
  <2> HIDE DEF u
  <2>14. WasSet(c, v, u, n, t, r) /\ Untouched(v.l, u.l, n, t)
    BY <2>11, <2>13, SetToolTold, SetToolUntouched
  <2>15. /\ Tells(c, u) /\ Speaks(u) /\ Shape(u.l, n) /\ u.l.tools[t] = r /\ u.l.blocks = v.l.blocks
         /\ Follows(v.l, u.l)
    BY <2>7, <2>14, Zenon DEF WasSet
  <2>16. Follows(w.l, u.l) /\ Untouched(w.l, u.l, n, t)
    BY <2>7, <2>9, <2>14, <2>15, FollowsTwice, UntouchedTwice, Zenon
  <2>17. Flushed(u.l, t, a)
    BY <2>4, <2>8, <2>12, <2>15, Zenon DEF Flushed
  <2>18. u.l.tools[t].name = s.name
    BY <2>12, <2>15
  <2> QED BY <2>15, <2>16, <2>17, <2>18, Zenon DEF DidFlush, EitherOf, FlushedFor, u
<1> QED BY <1>5, <1>6
LEMMA EitherFlushed ==
  ASSUME NEW l, NEW t, NEW a, EitherOf(l, t, a), FlushedFor(l, t, a, "aliased"),
         FlushedFor(l, t, a, "Task")
  PROVE  Flushed(l, t, a)
<1> SUFFICES ASSUME CallOf(l, t, a) PROVE Flushed(l, t, a)
  BY Zenon DEF EitherOf
<1>1. CASE l.tools[t].block = NoIndex
  BY <1>1, Zenon DEF CallOf, Flushed
<1>2. CASE l.tools[t].block # NoIndex
  <2>1. l.tools[t].name \in ToolName
    BY <1>2, Zenon DEF CallOf
  <2>2. CASE l.tools[t].name = "plain"
    <3>1. "plain" # "Task"
      OBVIOUS
    <3> QED BY <1>2, <2>2, <3>1, Zenon DEF CallOf, Flushed, FlushedData
  <2>3. CASE l.tools[t].name # "plain"
    BY <2>1, <2>3, Zenon DEF ToolName, FlushedFor
  <2> QED BY <2>2, <2>3
<1> QED BY <1>1, <1>2

\* Every call is flushed: the renamed ones, then Task.
AllFlushed(l, n, args) == Shape(l, n) /\ \A x \in 1 .. n : Flushed(l, x, args[x])
FlushStep(g, calls, k) ==
  FlushTool(g, IF k > calls THEN k - calls ELSE k, IF k > calls THEN "Task" ELSE "aliased")

LEMMA FlushToolsTold ==
  ASSUME NEW c, NEW w, Tells(c, w), Speaks(w), NEW n, NEW args, Calls(w.l, n, args)
  PROVE  /\ Tells(c, FlushTools(w)) /\ Speaks(FlushTools(w)) /\ Follows(w.l, FlushTools(w).l)
         /\ AllFlushed(FlushTools(w).l, n, args)
<1> DEFINE calls == Cardinality(DOMAIN w.l.tools)
           N == 2 * calls
<1>a. Shape(w.l, n) /\ n \in Nat /\ DOMAIN w.l.tools = 1 .. n /\ calls = n
  <2>1. Shape(w.l, n) /\ n \in Nat /\ DOMAIN w.l.tools = 1 .. n
    BY DEF Calls, Shape
  <2> QED BY <2>1, FS_Interval
<1>0. N \in Nat /\ calls \in Nat
  BY <1>a
<1>1. \E g : g = [k \in 0 .. N |-> IF k = 0 THEN w ELSE FlushStep(g[k - 1], calls, k)]
  <2> DEFINE T == {q \in Nat : \E g : g = [k \in 0 .. q |-> IF k = 0 THEN w
                                                     ELSE FlushStep(g[k - 1], calls, k)]}
  <2>1. 0 \in T
    <3> DEFINE g == [k \in 0 .. 0 |-> w]
    <3>1. g = [k \in 0 .. 0 |-> IF k = 0 THEN w ELSE FlushStep(g[k - 1], calls, k)]
      OBVIOUS
    <3> HIDE DEF g
    <3> QED BY <3>1
  <2>2. ASSUME NEW q \in Nat, q \in T PROVE q + 1 \in T
    <3>1. PICK g : g = [k \in 0 .. q |-> IF k = 0 THEN w ELSE FlushStep(g[k - 1], calls, k)]
      BY <2>2
    <3> DEFINE h == [k \in 0 .. q + 1 |-> IF k <= q THEN g[k] ELSE FlushStep(g[q], calls, (q + 1))]
    <3>2. ASSUME NEW k \in 0 .. q + 1
          PROVE  h[k] = IF k = 0 THEN w ELSE FlushStep(h[k - 1], calls, k)
      <4>1. CASE k = 0
        BY <3>1, <4>1
      <4>2. CASE k \in 1 .. q
        <5>1. h[k] = g[k] /\ h[k - 1] = g[k - 1]
          BY <4>2
        <5>2. g[k] = FlushStep(g[k - 1], calls, k)
          BY <3>1, <4>2
        <5> QED BY <4>2, <5>1, <5>2
      <4>3. CASE k = q + 1
        <5>1. h[k] = FlushStep(g[q], calls, (q + 1)) /\ h[k - 1] = g[q] /\ k # 0
          BY <4>3
        <5> QED BY <4>3, <5>1
      <4> QED BY <4>1, <4>2, <4>3
    <3>3. h = [k \in 0 .. q + 1 |-> IF k = 0 THEN w ELSE FlushStep(h[k - 1], calls, k)]
      <4>1. h = [k \in 0 .. q + 1 |-> h[k]]
        OBVIOUS
      <4> HIDE DEF h
      <4> QED BY <3>2, <4>1
    <3>4. \E y : y = [k \in 0 .. q + 1 |-> IF k = 0 THEN w ELSE FlushStep(y[k - 1], calls, k)]
      <4> WITNESS h
      <4> QED BY <3>3
    <3>5. q + 1 \in Nat
      OBVIOUS
    <3> HIDE DEF h
    <3> QED BY <3>4, <3>5, Zenon
  <2>3. Nat \subseteq T
    <3> HIDE DEF T
    <3> QED BY <2>1, <2>2, EveryNumber
  <2>4. N \in T
    <3> HIDE DEF T, N
    <3> QED BY <1>0, <2>3
  <2> QED BY <2>4
<1> DEFINE f == CHOOSE g : g = [k \in 0 .. N |-> IF k = 0 THEN w ELSE FlushStep(g[k - 1], calls, k)]
<1>2. f = [k \in 0 .. N |-> IF k = 0 THEN w ELSE FlushStep(f[k - 1], calls, k)]
  BY <1>1
<1>3. f[0] = w /\ \A k \in 1 .. N : f[k] = FlushStep(f[k - 1], calls, k)
  <2> HIDE DEF f
  <2>1. 0 \in 0 .. N /\ \A k \in 1 .. N : k \in 0 .. N /\ k # 0
    BY <1>0
  <2> QED BY <1>2, <2>1
<1>4. FlushTools(w) = f[N]
  BY DEF FlushTools, FlushStep
<1>b. N = n + n
  BY <1>a
<1> HIDE DEF f, N
<1> DEFINE After(m) == /\ Tells(c, f[m]) /\ Speaks(f[m]) /\ Shape(f[m].l, n) /\ Follows(w.l, f[m].l)
                       /\ \A x \in 1 .. n : EitherOf(f[m].l, x, args[x])
                       /\ \A x \in 1 .. n : m >= x => FlushedFor(f[m].l, x, args[x], "aliased")
                       /\ \A x \in 1 .. n : m >= n + x => FlushedFor(f[m].l, x, args[x], "Task")
           U == {m \in Nat : m <= N => After(m)}
<1>5. 0 \in U
  <2>1. \A x \in 1 .. n : EitherOf(w.l, x, args[x])
    BY Zenon DEF Calls, EitherOf
  <2>2. Follows(w.l, w.l)
    BY DEF Follows
  <2>3. \A x \in 1 .. n : ~ (0 >= x) /\ ~ (0 >= n + x)
    BY <1>a
  <2>4. f[0] = w
    BY <1>3
  <2>5. After(0)
    BY <1>a, <2>1, <2>2, <2>3, <2>4
  <2> HIDE DEF After
  <2> QED BY <2>5
<1>6. ASSUME NEW m \in Nat, m \in U PROVE m + 1 \in U
  <2> SUFFICES ASSUME m + 1 <= N PROVE After(m + 1)
    <3> HIDE DEF After
    <3> QED OBVIOUS
  <2>1. After(m)
    <3> HIDE DEF After
    <3> QED BY <1>0, <1>6
  <2> DEFINE late == m + 1 > calls
             t == IF late THEN (m + 1) - calls ELSE m + 1
             name == IF late THEN "Task" ELSE "aliased"
             g == f[m]
             u == f[m + 1]
  <2>2. u = FlushTool(g, t, name)
    <3>1. m + 1 \in 1 .. N /\ (m + 1) - 1 = m
      BY <1>0
    <3>2. f[m + 1] = FlushStep(f[(m + 1) - 1], calls, m + 1)
      BY <1>3, <3>1
    <3>3. f[m + 1] = FlushStep(f[m], calls, m + 1)
      BY <3>1, <3>2
    <3> QED BY <3>3, Zenon DEF FlushStep
  <2>3. t \in 1 .. n
    BY <1>a, <1>b
  <2>4. name \in {"aliased", "Task"}
    OBVIOUS
  <2>5. /\ late => name = "Task" /\ m + 1 = n + t
        /\ ~ late => name = "aliased" /\ m + 1 = t /\ m + 1 <= n
    BY <1>a, <1>b
  <2>13. late \in BOOLEAN
    OBVIOUS
  <2> HIDE DEF g, u, t, name, late
  <2>6. Flushes(c, g, n, t, args[t])
    <3>1. Tells(c, g) /\ Speaks(g) /\ Shape(g.l, n) /\ EitherOf(g.l, t, args[t])
      BY <2>1, <2>3 DEF g
    <3> QED BY <2>3, <3>1, Zenon DEF Flushes
  <2>7. DidFlush(c, g, u, n, t, args[t], name)
    BY <2>2, <2>4, <2>6, FlushToolTold
  <2>8. /\ Tells(c, u) /\ Speaks(u) /\ Shape(u.l, n) /\ Follows(g.l, u.l) /\ Untouched(g.l, u.l, n, t)
        /\ EitherOf(u.l, t, args[t]) /\ FlushedFor(u.l, t, args[t], name)
        /\ \A x : FlushedFor(g.l, t, args[t], x) => FlushedFor(u.l, t, args[t], x)
    BY <2>7, Zenon DEF DidFlush
  <2>9. Follows(w.l, u.l)
    <3>1. Follows(w.l, g.l)
      BY <2>1 DEF g
    <3> QED BY <2>8, <3>1, FollowsTwice
  <2>10. ASSUME NEW x \in 1 .. n PROVE EitherOf(u.l, x, args[x])
    <3>1. CASE x = t
      BY <2>8, <3>1
    <3>2. CASE x # t
      <4>1. EitherOf(g.l, x, args[x]) /\ x \in 1 .. n \ {t}
        BY <2>1, <3>2 DEF g
      <4> QED BY <2>8, <4>1, UntouchedSame
    <3> QED BY <3>1, <3>2
  <2>11. ASSUME NEW x \in 1 .. n, m + 1 >= x PROVE FlushedFor(u.l, x, args[x], "aliased")
    <3> DEFINE some == "aliased"
    <3>1. CASE x = t
      <4>1. CASE late
        <5>1. m >= x
          BY <1>a, <2>3, <2>5, <3>1, <4>1
        <5>2. FlushedFor(g.l, x, args[x], some)
          BY <2>1, <5>1 DEF g
        <5> HIDE DEF some
        <5>3. FlushedFor(u.l, x, args[x], some)
          BY <2>8, <3>1, <5>2
        <5> QED BY <5>3 DEF some
      <4>2. CASE ~ late
        BY <2>5, <2>8, <3>1, <4>2
      <4> QED BY <4>1, <4>2
    <3>2. CASE x # t
      <4>1. CASE m >= x
        <5>1. FlushedFor(g.l, x, args[x], some) /\ x \in 1 .. n \ {t}
          BY <2>1, <3>2, <4>1 DEF g
        <5> HIDE DEF some
        <5>2. FlushedFor(u.l, x, args[x], some)
          BY <2>8, <5>1, UntouchedSame
        <5> QED BY <5>2 DEF some
      <4>2. CASE ~ (m >= x)
        <5>1. m + 1 = x
          BY <1>a, <2>11, <4>2
        <5>2. CASE late
          BY <1>a, <5>1, <5>2 DEF late
        <5>3. CASE ~ late
          BY <2>5, <3>2, <5>1, <5>3
        <5> QED BY <5>2, <5>3
      <4> QED BY <4>1, <4>2
    <3> QED BY <3>1, <3>2
  <2>12. ASSUME NEW x \in 1 .. n, m + 1 >= n + x PROVE FlushedFor(u.l, x, args[x], "Task")
    <3> DEFINE some == "Task"
    <3>1. CASE x = t
      <4>1. late
        BY <1>a, <2>12 DEF late
      <4> QED BY <2>5, <2>8, <3>1, <4>1
    <3>2. CASE x # t
      <4>1. late
        BY <1>a, <2>12 DEF late
      <4>2. m >= n + x
        BY <1>a, <2>3, <2>5, <2>12, <3>2, <4>1
      <4>3. FlushedFor(g.l, x, args[x], some) /\ x \in 1 .. n \ {t}
        BY <2>1, <3>2, <4>2 DEF g
      <4> HIDE DEF some
      <4>4. FlushedFor(u.l, x, args[x], some)
        BY <2>8, <4>3, UntouchedSame
      <4> QED BY <4>4 DEF some
    <3> QED BY <3>1, <3>2
  <2> QED BY <2>8, <2>9, <2>10, <2>11, <2>12 DEF u
<1>7. After(N)
  <2> HIDE DEF After
  <2>1. Nat \subseteq U
    <3> HIDE DEF U
    <3> QED BY <1>5, <1>6, EveryNumber
  <2>2. N \in U /\ N <= N
    <3> HIDE DEF U
    <3> QED BY <1>0, <2>1
  <2> QED BY <2>2
<1>8. ASSUME NEW x \in 1 .. n PROVE Flushed(f[N].l, x, args[x])
  <2>1. N >= x /\ N >= n + x
    BY <1>a, <1>b
  <2>2. /\ EitherOf(f[N].l, x, args[x]) /\ FlushedFor(f[N].l, x, args[x], "aliased")
        /\ FlushedFor(f[N].l, x, args[x], "Task")
    BY <1>7, <2>1
  <2> QED BY <2>2, EitherFlushed
<1> QED BY <1>4, <1>7, <1>8 DEF AllFlushed
\* A repair adds to a started call's block.
Repaired(c, w, u, n) == Tells(c, u) /\ Speaks(u) /\ Shape(u.l, n) /\ Follows(w.l, u.l)

LEMMA MissingSuffixIs ==
  ASSUME NEW s \in Seq(Nat)
  PROVE  MissingSuffix(s) \in Seq(Nat)
<1>1. Len(s) + 1 \in Nat /\ Len(Whole) \in Nat /\ Whole \in Seq(Nat) /\ Len(s) + 1 >= 1
  BY DataIs
<1> DEFINE a == Len(s) + 1
           b == Len(Whole)
<1> HIDE DEF a, b
<1>2. SubSeq(Whole, a, b) \in Seq(Nat)
  <2>1. a \in Nat /\ b \in Nat /\ a >= 1 /\ b = Len(Whole)
    BY <1>1 DEF a, b
  <2>2. \A i \in a .. b : i \in 1 .. Len(Whole) /\ Whole[i] \in Nat
    BY <1>1, <2>1
  <2>3. SubSeq(Whole, a, b) = [i \in 1 .. (1 + b - a) |-> Whole[i + a - 1]]
    BY <1>1, <2>1
  <2> QED BY <1>1, <2>1, <2>2
<1> QED BY <1>2 DEF MissingSuffix, a, b

LEMMA RepairToolTold ==
  ASSUME NEW c, NEW w, Tells(c, w), Speaks(w), NEW n, Shape(w.l, n), NEW t \in 1 .. n
  PROVE  Repaired(c, w, RepairTool(w, t), n)
<1> DEFINE i == w.l.tools[t].block
           parts == w.l.blocks[i].parts
           buffer == w.l.tools[t].buffer
           prefix == IF parts # <<>> THEN parts ELSE buffer
           delta == IF parts # <<>> THEN MissingSuffix(prefix)
                    ELSE prefix \o MissingSuffix(prefix)
           u == RepairTool(w, t)
<1>1. u = IF ~ Started(w.l, t) \/ parts = Whole THEN w ELSE ToolDelta(w, t, delta)
  BY Zenon DEF RepairTool
<1>2. CASE ~ Started(w.l, t) \/ parts = Whole
  <2>1. u = w
    BY <1>1, <1>2
  <2>2. Follows(w.l, w.l)
    BY DEF Follows
  <2> HIDE DEF u
  <2> QED BY <2>1, <2>2 DEF Repaired, u
<1>3. CASE ~ (~ Started(w.l, t) \/ parts = Whole)
  <2>1. u = ToolDelta(w, t, delta)
    BY <1>1, <1>3
  <2>2. i # NoIndex
    BY <1>3 DEF Started
  <2>3. i \in DOMAIN w.l.blocks /\ Sound(w.l) /\ t \in DOMAIN w.l.tools
    BY <2>2, ToldFields, RestOpen DEF Shape
  <2>4. parts \in Seq(Nat)
    BY <2>3, SoundBlocks
  <2>5. buffer \in Seq(Nat)
    <3>1. w.l.tools \in Tools
      BY ToldFields, LedgerFields
    <3> QED BY <2>3, <3>1, ToolsAre
  <2> HIDE DEF parts, buffer
  <2>6. delta \in Seq(Nat)
    <3>1. prefix \in Seq(Nat)
      BY <2>4, <2>5
    <3>2. MissingSuffix(prefix) \in Seq(Nat)
      BY <3>1, MissingSuffixIs
    <3> QED BY <3>1, <3>2
  <2> HIDE DEF delta, u
  <2>7. Grows(c, w, n, t)
    BY <2>2, Zenon DEF Grows
  <2>8. Grew(c, w, u, n, t, delta)
    BY <2>1, <2>6, <2>7, ToolDeltaTold
  <2> QED BY <2>8, Zenon DEF Grew, Repaired, u
<1> QED BY <1>2, <1>3

LEMMA RepairToolsTold ==
  ASSUME NEW c, NEW w, Tells(c, w), Speaks(w), NEW n, Shape(w.l, n)
  PROVE  Repaired(c, w, RepairTools(w), n)
<1> DEFINE N == Cardinality(DOMAIN w.l.tools)
<1>a. n \in Nat /\ DOMAIN w.l.tools = 1 .. n /\ N = n
  <2>1. n \in Nat /\ DOMAIN w.l.tools = 1 .. n
    BY DEF Shape
  <2> QED BY <2>1, FS_Interval
<1>0. N \in Nat
  BY <1>a
<1>1. \E g : g = [k \in 0 .. N |-> IF k = 0 THEN w ELSE RepairTool(g[k - 1], k)]
  <2> DEFINE T == {q \in Nat : \E g : g = [k \in 0 .. q |-> IF k = 0 THEN w
                                                     ELSE RepairTool(g[k - 1], k)]}
  <2>1. 0 \in T
    <3> DEFINE g == [k \in 0 .. 0 |-> w]
    <3>1. g = [k \in 0 .. 0 |-> IF k = 0 THEN w ELSE RepairTool(g[k - 1], k)]
      OBVIOUS
    <3> HIDE DEF g
    <3> QED BY <3>1
  <2>2. ASSUME NEW q \in Nat, q \in T PROVE q + 1 \in T
    <3>1. PICK g : g = [k \in 0 .. q |-> IF k = 0 THEN w ELSE RepairTool(g[k - 1], k)]
      BY <2>2
    <3> DEFINE h == [k \in 0 .. q + 1 |-> IF k <= q THEN g[k] ELSE RepairTool(g[q], (q + 1))]
    <3>2. ASSUME NEW k \in 0 .. q + 1
          PROVE  h[k] = IF k = 0 THEN w ELSE RepairTool(h[k - 1], k)
      <4>1. CASE k = 0
        BY <3>1, <4>1
      <4>2. CASE k \in 1 .. q
        <5>1. h[k] = g[k] /\ h[k - 1] = g[k - 1]
          BY <4>2
        <5>2. g[k] = RepairTool(g[k - 1], k)
          BY <3>1, <4>2
        <5> QED BY <4>2, <5>1, <5>2
      <4>3. CASE k = q + 1
        <5>1. h[k] = RepairTool(g[q], (q + 1)) /\ h[k - 1] = g[q] /\ k # 0
          BY <4>3
        <5> QED BY <4>3, <5>1
      <4> QED BY <4>1, <4>2, <4>3
    <3>3. h = [k \in 0 .. q + 1 |-> IF k = 0 THEN w ELSE RepairTool(h[k - 1], k)]
      <4>1. h = [k \in 0 .. q + 1 |-> h[k]]
        OBVIOUS
      <4> HIDE DEF h
      <4> QED BY <3>2, <4>1
    <3>4. \E y : y = [k \in 0 .. q + 1 |-> IF k = 0 THEN w ELSE RepairTool(y[k - 1], k)]
      <4> WITNESS h
      <4> QED BY <3>3
    <3>5. q + 1 \in Nat
      OBVIOUS
    <3> HIDE DEF h
    <3> QED BY <3>4, <3>5, Zenon
  <2>3. Nat \subseteq T
    <3> HIDE DEF T
    <3> QED BY <2>1, <2>2, EveryNumber
  <2>4. N \in T
    <3> HIDE DEF T, N
    <3> QED BY <1>0, <2>3
  <2> QED BY <2>4
<1> DEFINE f == CHOOSE g : g = [k \in 0 .. N |-> IF k = 0 THEN w ELSE RepairTool(g[k - 1], k)]
<1>2. f = [k \in 0 .. N |-> IF k = 0 THEN w ELSE RepairTool(f[k - 1], k)]
  BY <1>1
<1>3. f[0] = w /\ \A k \in 1 .. N : f[k] = RepairTool(f[k - 1], k)
  <2> HIDE DEF f
  <2>1. 0 \in 0 .. N /\ \A k \in 1 .. N : k \in 0 .. N /\ k # 0
    BY <1>0
  <2> QED BY <1>2, <2>1
<1>4. RepairTools(w) = f[N]
  BY DEF RepairTools
<1> HIDE DEF f, N
<1> DEFINE U == {m \in Nat : m <= N => Repaired(c, w, f[m], n)}
<1>5. 0 \in U
  <2>1. Follows(w.l, w.l)
    BY DEF Follows
  <2> QED BY <1>3, <2>1 DEF Repaired
<1>6. ASSUME NEW m \in Nat, m \in U PROVE m + 1 \in U
  <2> SUFFICES ASSUME m + 1 <= N PROVE Repaired(c, w, f[m + 1], n)
    OBVIOUS
  <2>1. Repaired(c, w, f[m], n) /\ m + 1 \in 1 .. N /\ m + 1 \in 1 .. n /\ (m + 1) - 1 = m
    BY <1>0, <1>a, <1>6
  <2>2. f[m + 1] = RepairTool(f[m], m + 1)
    <3>1. f[m + 1] = RepairTool(f[(m + 1) - 1], m + 1)
      BY <1>3, <2>1
    <3> QED BY <2>1, <3>1
  <2>3. Tells(c, f[m]) /\ Speaks(f[m]) /\ Shape(f[m].l, n) /\ Follows(w.l, f[m].l)
    BY <2>1, Zenon DEF Repaired
  <2>4. Repaired(c, f[m], f[m + 1], n)
    BY <2>1, <2>2, <2>3, RepairToolTold
  <2>5. Follows(w.l, f[m + 1].l)
    BY <2>3, <2>4, FollowsTwice, Zenon DEF Repaired
  <2> QED BY <2>4, <2>5, Zenon DEF Repaired
<1>7. Repaired(c, w, f[N], n)
  <2>1. Nat \subseteq U
    <3> HIDE DEF U
    <3> QED BY <1>5, <1>6, EveryNumber
  <2>2. N \in U /\ N <= N
    <3> HIDE DEF U
    <3> QED BY <1>0, <2>1
  <2> QED BY <2>2
<1> QED BY <1>4, <1>7

\* Every block is closed.
Closed(c, w, u) ==
  /\ Tells(c, u) /\ Speaks(u) /\ Range(u.l.stack) = {} /\ u.l.blocks = w.l.blocks
  /\ u.l.said = w.l.said /\ u.l.thought = w.l.thought /\ u.l.stop_reason = w.l.stop_reason
  /\ u.l.tools = w.l.tools /\ ~ u.l.text_on /\ ~ u.l.thinking_on

LEMMA CloseToolsTold ==
  ASSUME NEW c, NEW w, Tells(c, w), Speaks(w), NEW n, Shape(w.l, n),
         Range(w.l.stack) = Rest(w.l)
  PROVE  Closed(c, w, CloseTools(w))
<1> DEFINE N == Cardinality(DOMAIN w.l.tools)
           B(k) == w.l.tools[k].block
           Step(g, k) == IF Started(w.l, k) THEN BlockStop(g, B(k)) ELSE g
<1>a. n \in Nat /\ DOMAIN w.l.tools = 1 .. n /\ N = n
  <2>1. n \in Nat /\ DOMAIN w.l.tools = 1 .. n
    BY DEF Shape
  <2> QED BY <2>1, FS_Interval
<1>0. N \in Nat
  BY <1>a
<1>b. \A k \in 1 .. N : Started(w.l, k) <=> B(k) # NoIndex
  BY <1>a DEF Started
<1>c. \A k \in 1 .. N : B(k) # NoIndex => B(k) \in Range(w.l.stack) /\ B(k) \in Nat
  BY <1>a, RestOpen, ToldFields DEF Shape
<1>d. \A k, j \in 1 .. N : B(k) # NoIndex /\ B(k) = B(j) => k = j
  BY <1>a DEF Shape
<1>e. \A i \in Range(w.l.stack) : i # NoIndex /\ \E k \in 1 .. N : B(k) = i
  <2>1. \A i \in Nat : i # NoIndex
    BY DEF NoIndex
  <2> QED BY <1>a, <2>1, RestOpen, ToldFields DEF Shape
<1>1. \E g : g = [k \in 0 .. N |-> IF k = 0 THEN w ELSE (IF Started(w.l, k) THEN BlockStop(g[k - 1], B(k)) ELSE g[k - 1])]
  <2> DEFINE T == {q \in Nat : \E g : g = [k \in 0 .. q |-> IF k = 0 THEN w
                                                     ELSE (IF Started(w.l, k) THEN BlockStop(g[k - 1], B(k)) ELSE g[k - 1])]}
  <2>1. 0 \in T
    <3> DEFINE g == [k \in 0 .. 0 |-> w]
    <3>1. g = [k \in 0 .. 0 |-> IF k = 0 THEN w ELSE (IF Started(w.l, k) THEN BlockStop(g[k - 1], B(k)) ELSE g[k - 1])]
      OBVIOUS
    <3> HIDE DEF g
    <3> QED BY <3>1
  <2>2. ASSUME NEW q \in Nat, q \in T PROVE q + 1 \in T
    <3>1. PICK g : g = [k \in 0 .. q |-> IF k = 0 THEN w ELSE (IF Started(w.l, k) THEN BlockStop(g[k - 1], B(k)) ELSE g[k - 1])]
      BY <2>2
    <3> DEFINE h == [k \in 0 .. q + 1 |-> IF k <= q THEN g[k] ELSE (IF Started(w.l, (q + 1)) THEN BlockStop(g[q], B((q + 1))) ELSE g[q])]
    <3>2. ASSUME NEW k \in 0 .. q + 1
          PROVE  h[k] = IF k = 0 THEN w ELSE (IF Started(w.l, k) THEN BlockStop(h[k - 1], B(k)) ELSE h[k - 1])
      <4>1. CASE k = 0
        BY <3>1, <4>1
      <4>2. CASE k \in 1 .. q
        <5>1. h[k] = g[k] /\ h[k - 1] = g[k - 1]
          BY <4>2
        <5>2. g[k] = (IF Started(w.l, k) THEN BlockStop(g[k - 1], B(k)) ELSE g[k - 1])
          BY <3>1, <4>2
        <5> QED BY <4>2, <5>1, <5>2
      <4>3. CASE k = q + 1
        <5>1. h[k] = (IF Started(w.l, (q + 1)) THEN BlockStop(g[q], B((q + 1))) ELSE g[q]) /\ h[k - 1] = g[q] /\ k # 0
          BY <4>3
        <5> QED BY <4>3, <5>1
      <4> QED BY <4>1, <4>2, <4>3
    <3>3. h = [k \in 0 .. q + 1 |-> IF k = 0 THEN w ELSE (IF Started(w.l, k) THEN BlockStop(h[k - 1], B(k)) ELSE h[k - 1])]
      <4>1. h = [k \in 0 .. q + 1 |-> h[k]]
        OBVIOUS
      <4> HIDE DEF h
      <4> QED BY <3>2, <4>1
    <3>4. \E y : y = [k \in 0 .. q + 1 |-> IF k = 0 THEN w ELSE (IF Started(w.l, k) THEN BlockStop(y[k - 1], B(k)) ELSE y[k - 1])]
      <4> WITNESS h
      <4> QED BY <3>3
    <3>5. q + 1 \in Nat
      OBVIOUS
    <3> HIDE DEF h
    <3> QED BY <3>4, <3>5, Zenon
  <2>3. Nat \subseteq T
    <3> HIDE DEF T
    <3> QED BY <2>1, <2>2, EveryNumber
  <2>4. N \in T
    <3> HIDE DEF T, N
    <3> QED BY <1>0, <2>3
  <2> QED BY <2>4
<1> DEFINE f == CHOOSE g : g = [k \in 0 .. N |-> IF k = 0 THEN w ELSE (IF Started(w.l, k) THEN BlockStop(g[k - 1], B(k)) ELSE g[k - 1])]
<1>2. f = [k \in 0 .. N |-> IF k = 0 THEN w ELSE (IF Started(w.l, k) THEN BlockStop(f[k - 1], B(k)) ELSE f[k - 1])]
  BY <1>1
<1>3. f[0] = w /\ \A k \in 1 .. N : f[k] = (IF Started(w.l, k) THEN BlockStop(f[k - 1], B(k)) ELSE f[k - 1])
  <2> HIDE DEF f
  <2>1. 0 \in 0 .. N /\ \A k \in 1 .. N : k \in 0 .. N /\ k # 0
    BY <1>0
  <2> QED BY <1>2, <2>1
<1>4. CloseTools(w) = f[N]
  BY DEF CloseTools
<1> HIDE DEF f, N, B
<1> DEFINE Left(m) == {B(k) : k \in {j \in m + 1 .. N : B(j) # NoIndex}}
           After(m) == /\ Tells(c, f[m]) /\ Speaks(f[m]) /\ Kept(w.l, f[m].l)
                       /\ Range(f[m].l.stack) = Left(m)
                       /\ f[m].l.blocks = w.l.blocks
                       /\ f[m].l.said = w.l.said /\ f[m].l.thought = w.l.thought
           U == {m \in Nat : m <= N => After(m)}
<1>5. 0 \in U
  <2>1. Range(w.l.stack) = Left(0)
    BY <1>0, <1>c, <1>e
  <2> QED BY <1>3, <2>1 DEF Kept
<1>6. ASSUME NEW m \in Nat, m \in U PROVE m + 1 \in U
  <2> SUFFICES ASSUME m + 1 <= N PROVE After(m + 1)
    OBVIOUS
  <2>1. After(m) /\ m + 1 \in 1 .. N /\ (m + 1) - 1 = m
    BY <1>0, <1>6
  <2> HIDE DEF Left
  <2>2. f[m + 1] = IF Started(w.l, m + 1) THEN BlockStop(f[m], B(m + 1)) ELSE f[m]
    <3>1. f[m + 1] = IF Started(w.l, m + 1) THEN BlockStop(f[(m + 1) - 1], B(m + 1))
                     ELSE f[(m + 1) - 1]
      BY <1>3, <2>1
    <3> QED BY <2>1, <3>1
  <2>3. \A k \in m + 1 .. N : k \in 1 .. N /\ (k = m + 1 \/ k \in m + 2 .. N)
    BY <1>0
  <2>4. \A k \in m + 2 .. N : k \in m + 1 .. N /\ k # m + 1 /\ k \in 1 .. N
    BY <1>0
  <2>5. (m + 1) + 1 = m + 2 /\ m + 1 \in m + 1 .. N
    BY <1>0
  <2>6. CASE Started(w.l, m + 1)
    <3>1. B(m + 1) # NoIndex
      BY <1>b, <2>1, <2>6
    <3>2. B(m + 1) \in Range(f[m].l.stack)
      BY <2>1, <2>5, <3>1 DEF Left
    <3>3. f[m + 1] = BlockStop(f[m], B(m + 1))
      BY <2>2, <2>6
    <3>4. Tells(c, f[m + 1]) /\ Speaks(f[m + 1]) /\ StoppedAt(f[m].l, f[m + 1].l, B(m + 1))
      BY <2>1, <3>2, <3>3, StopTold
    <3>5. Left(m) \ {B(m + 1)} = Left(m + 1)
      <4> DEFINE M == m + 1
                 X == m + 1 .. N
                 Y == m + 2 .. N
      <4>1. /\ \A k \in X : k = M \/ k \in Y
            /\ \A k \in Y : k \in X /\ k # M /\ (B(k) # NoIndex => B(k) # B(M))
        BY <1>d, <2>1, <2>3, <2>4
      <4>2. Left(m) = {B(k) : k \in {j \in X : B(j) # NoIndex}}
            /\ Left(m + 1) = {B(k) : k \in {j \in Y : B(j) # NoIndex}}
        BY <2>5 DEF Left
      <4> HIDE DEF M, X, Y
      <4>3. Left(m) \ {B(M)} = Left(m + 1)
        BY <4>1, <4>2
      <4> QED BY <4>3 DEF M
    <3> QED BY <2>1, <3>4, <3>5 DEF StoppedAt, Kept
  <2>7. CASE ~ Started(w.l, m + 1)
    <3>1. B(m + 1) = NoIndex
      BY <1>b, <2>1, <2>7
    <3>2. Left(m) = Left(m + 1)
      BY <2>3, <2>4, <2>5, <3>1 DEF Left
    <3>3. f[m + 1] = f[m]
      BY <2>2, <2>7
    <3> QED BY <2>1, <3>2, <3>3
  <2> QED BY <2>6, <2>7
<1>7. After(N)
  <2> HIDE DEF After
  <2>1. Nat \subseteq U
    <3> HIDE DEF U
    <3> QED BY <1>5, <1>6, EveryNumber
  <2>2. N \in U /\ N <= N
    <3> HIDE DEF U
    <3> QED BY <1>0, <2>1
  <2> QED BY <2>2
<1>8. Left(N) = {}
  BY <1>0
<1>9. ~ f[N].l.text_on /\ ~ f[N].l.thinking_on
  BY <1>7, <1>8, ToldFields DEF Sound
<1> HIDE DEF Left
<1> QED BY <1>4, <1>7, <1>8, <1>9 DEF Kept, Closed
LEMMA CloseAllTold ==
  ASSUME NEW c, NEW w, Tells(c, w), Speaks(w), NEW n, Shape(w.l, n)
  PROVE  Closed(c, w, CloseAll(w))
<1> DEFINE v == CloseContent(w)
           u == CloseTools(v)
<1>1. /\ Tells(c, v) /\ Speaks(v) /\ Content(w.l, v.l) /\ v.l.said = w.l.said
      /\ v.l.thought = w.l.thought /\ v.l.blocks = w.l.blocks /\ Range(v.l.stack) = Rest(w.l)
  BY CloseContentTold
<1>2. Sound(w.l)
  BY ToldFields
<1> HIDE DEF v
<1>3. Shape(v.l, n)
  BY <1>1, <1>2, CallsContent
<1>4. Rest(v.l) = Rest(w.l) /\ v.l.tools = w.l.tools /\ v.l.stop_reason = w.l.stop_reason
  BY <1>1, Zenon DEF Content, Kept
<1>5. Closed(c, v, u)
  BY <1>1, <1>3, <1>4, CloseToolsTold
<1>6. CloseAll(w) = u
  BY DEF CloseAll, v
<1> HIDE DEF u
<1> QED BY <1>1, <1>4, <1>5, <1>6, Zenon DEF Closed

\* The message is at its end.
Ended(c, w, u, reason) ==
  /\ Tells(c, u) /\ u.l.stopped /\ u.l.started /\ u.l.stop_reason = reason
  /\ u.l.blocks = w.l.blocks /\ u.l.said = w.l.said /\ u.l.thought = w.l.thought
  /\ u.l.tools = w.l.tools

LEMMA EndTold ==
  ASSUME NEW c, NEW w, Tells(c, w), Speaks(w), Range(w.l.stack) = {}, HasContentBlock(w.l),
         NEW reason \in {"end_turn", "tool_use"}
  PROVE  Ended(c, w, MessageStop(MessageDelta(w, reason)), reason)
<1> DEFINE v == MessageDelta(w, reason)
           u == MessageStop(v)
<1>1. Tells(c, v) /\ Speaks(v) /\ Same(w.l, v.l) /\ v.l.stop_reason = reason
  BY MessageDeltaTold
<1> HIDE DEF v
<1>2. Range(v.l.stack) = {} /\ HasContentBlock(v.l)
  BY <1>1 DEF Same, HasContentBlock
<1>3. /\ Tells(c, u) /\ u.l.stopped /\ u.l.started /\ Same(v.l, u.l)
      /\ u.l.stop_reason = v.l.stop_reason
  BY <1>1, <1>2, MessageStopTold
<1> HIDE DEF u
<1>4. Ended(c, w, u, reason)
  BY <1>1, <1>3, Zenon DEF Same, Ended
<1> QED BY <1>4 DEF u, v

LEMMA TailsTold ==
  ASSUME NEW c, NEW w, Tells(c, w), Speaks(w), NEW n, Shape(w.l, n), HasContentBlock(w.l)
  PROVE  Ended(c, w, Tails(w, "end_turn"), FinalStopReason(w.l, "end_turn"))
<1> DEFINE v == CloseAll(w)
           reason == FinalStopReason(w.l, "end_turn")
           u == MessageStop(MessageDelta(v, reason))
<1>1. Closed(c, w, v)
  BY CloseAllTold
<1>2. reason \in {"end_turn", "tool_use"}
  BY DEF FinalStopReason
<1> HIDE DEF v, reason
<1>3. Tells(c, v) /\ Speaks(v) /\ Range(v.l.stack) = {} /\ v.l.blocks = w.l.blocks
  BY <1>1, Zenon DEF Closed
<1>4. HasContentBlock(v.l)
  BY <1>3 DEF HasContentBlock
<1>5. Ended(c, v, u, reason)
  BY <1>2, <1>3, <1>4, EndTold
<1> HIDE DEF u
<1>6. Ended(c, w, u, reason)
  BY <1>1, <1>5, Zenon DEF Ended, Closed
<1> QED BY <1>6, Zenon DEF Tails, u, v, reason

\* A client as it is, and whether it is to be told of an error by an event.
Listener(d, e) == [from |-> d, error |-> e]

\* What a client was told of a failure: an error event, or the message in the text.
Confessed(c, u) == Tells(Listener(c.from, TRUE), u) \/ 0 \in Range(u.l.said)

LEMMA ZeroSaid ==
  ASSUME NEW s \in Seq(Nat)
  PROVE  0 \in Range(s \o EmptyObject)
<1> DEFINE z == s \o EmptyObject
<1>1. EmptyObject = <<0>>
  BY DEF EmptyObject
<1>2. z \in Seq(Nat) /\ Len(z) = Len(s) + 1 /\ z[Len(s) + 1] = 0
  BY <1>1
<1>3. Len(s) + 1 \in DOMAIN z
  BY <1>2
<1> HIDE DEF z
<1>4. 0 \in Range(z)
  BY <1>2, <1>3 DEF Range
<1> QED BY <1>4 DEF z

\* A failure is said, and the message ended.
Failed(c, w, u) ==
  /\ Tells(c, u) /\ u.l.stopped /\ u.l.started /\ u.l.stop_reason = "end_turn"
  /\ Confessed(c, u) /\ u.l.said \in {w.l.said, w.l.said \o EmptyObject}

LEMMA ErrorTold ==
  ASSUME NEW c, NEW w, Tells(c, w), Speaks(w), ~ w.l.text_on, ~ w.l.thinking_on,
         Range(w.l.stack) = {}
  PROVE  Failed(c, w, MessageStop(MessageDelta(EmitError(w), "end_turn")))
<1> DEFINE v == EmitError(w)
           u == MessageStop(MessageDelta(v, "end_turn"))
<1>1. /\ Tells(c, v) /\ Speaks(v) /\ Range(v.l.stack) = {} /\ HasContentBlock(v.l)
      /\ v.l.said = w.l.said \o EmptyObject
  BY EmitErrorTold
<1>2. 0 \in Range(v.l.said)
  <2>1. w.l.said \in Seq(Nat)
    BY ToldFields, LedgerFields
  <2> QED BY <1>1, <2>1, ZeroSaid
<1> HIDE DEF v
<1>3. Ended(c, v, u, "end_turn")
  BY <1>1, EndTold
<1> HIDE DEF u
<1>4. Failed(c, w, u)
  BY <1>1, <1>2, <1>3, Zenon DEF Ended, Failed, Confessed
<1> QED BY <1>4 DEF u, v

LEMMA TopLevelTold ==
  ASSUME NEW c, NEW w, Tells(c, w), Speaks(w), Range(w.l.stack) = {}, HasContentBlock(w.l)
  PROVE  Failed(c, w, MessageStop(MessageDelta(TopLevelError(w), "end_turn")))
<1> DEFINE v == TopLevelError(w)
           u == MessageStop(MessageDelta(v, "end_turn"))
<1>1. /\ Tells(c, v) /\ Speaks(v) /\ v.l = w.l /\ \A b : b.from = c.from => Tells(b, v)
  BY TopLevelErrorTold
<1> HIDE DEF v
<1>2. Range(v.l.stack) = {} /\ HasContentBlock(v.l)
  BY <1>1
<1>3. ASSUME NEW b, b.from = c.from PROVE Ended(b, v, u, "end_turn")
  BY <1>1, <1>2, <1>3, EndTold
<1> HIDE DEF u
<1>4. Ended(c, v, u, "end_turn")
  BY <1>3
<1>6. Listener(c.from, TRUE).from = c.from
  BY DEF Listener
<1>5. Failed(c, w, u)
  BY <1>6, <1>1, <1>3, <1>4, Zenon DEF Ended, Failed, Confessed
<1> QED BY <1>5 DEF u, v

LEMMA ErrorTailTold ==
  ASSUME NEW c, NEW w, Tells(c, w), Speaks(w), NEW n, Shape(w.l, n)
  PROVE  Failed(c, w, ErrorTail(w))
<1> DEFINE v == CloseAll(w)
<1>1. Closed(c, w, v)
  BY CloseAllTold
<1>2. Tells(c, v) /\ Speaks(v) /\ Range(v.l.stack) = {} /\ ~ v.l.text_on /\ ~ v.l.thinking_on
  BY <1>1, Zenon DEF Closed
<1>3. CASE HasToolBlock(v.l)
  <2>1. ErrorTail(w) = MessageStop(MessageDelta(TopLevelError(v), "end_turn"))
    BY <1>3, Zenon DEF ErrorTail
  <2> HIDE DEF v
  <2>2. HasContentBlock(v.l)
    BY <1>3 DEF HasToolBlock, HasContentBlock, ToolBlocks
  <2>3. Failed(c, v, ErrorTail(w))
    BY <1>2, <2>1, <2>2, TopLevelTold
  <2> QED BY <1>1, <2>3, Zenon DEF Failed, Closed
<1>4. CASE ~ HasToolBlock(v.l)
  <2>1. ErrorTail(w) = MessageStop(MessageDelta(EmitError(v), "end_turn"))
    BY <1>4, Zenon DEF ErrorTail
  <2> HIDE DEF v
  <2>3. Failed(c, v, ErrorTail(w))
    BY <1>2, <2>1, ErrorTold
  <2> QED BY <1>1, <2>3, Zenon DEF Failed, Closed
<1> QED BY <1>3, <1>4

\* A message that says something of its own.
Speech(c, w, u) == Tells(c, u) /\ Speaks(u) /\ Content(w.l, u.l)

LEMMA PlaceholderTold ==
  ASSUME NEW c, NEW w, Tells(c, w), Speaks(w)
  PROVE  /\ Speech(c, w, Placeholder(w)) /\ HasContentBlock(Placeholder(w).l)
         /\ Placeholder(w).l.thought = w.l.thought
         /\ Placeholder(w).l.said = w.l.said
              \/ (Placeholder(w).l.said = EmptyObject /\ w.l.said = <<>> /\ ~ HasToolBlock(w.l))
<1> DEFINE C == HasToolBlock(w.l) \/ w.l.said # <<>> \/ (w.l.text # NoIndex /\ w.l.thought = <<>>)
           u == Placeholder(w)
<1>1. u = IF C THEN w ELSE Say(w, EmptyObject)
  BY DEF Placeholder
<1>2. CASE C
  <2>1. Sound(w.l)
    BY ToldFields
  <2>2. HasContentBlock(w.l)
    BY <1>2, <2>1 DEF Sound, Unsaid, HasContentBlock, HasToolBlock, ToolBlocks
  <2>3. u = w
    BY <1>1, <1>2
  <2> HIDE DEF u
  <2> QED BY <2>2, <2>3, ContentSelf DEF Speech, u
<1>3. CASE ~ C
  <2>1. u = Say(w, EmptyObject)
    BY <1>1, <1>3
  <2>2. w.l.said \in Seq(Nat)
    BY ToldFields, LedgerFields
  <2> HIDE DEF u
  <2>3. EmptyObject \in Seq(Nat) /\ EmptyObject # <<>>
    BY DataIs
  <2>4. /\ Tells(c, u) /\ Speaks(u) /\ Content(w.l, u.l) /\ u.l.said = w.l.said \o EmptyObject
        /\ u.l.thought = w.l.thought /\ HasContentBlock(u.l)
    BY <2>1, <2>3, SayTold
  <2>5. u.l.said = EmptyObject
    BY <1>3, <2>3, <2>4, NothingBefore
  <2> QED BY <1>3, <2>4, <2>5 DEF Speech, u
<1> QED BY <1>2, <1>3
LEMMA FlushParsersTold ==
  ASSUME NEW c, NEW w, Tells(c, w), Speaks(w), chat_parser.tag \in Seq(Nat)
  PROVE  /\ Speech(c, w, FlushParsers(w))
         /\ FlushParsers(w).l.said = (IF chat_parser.in_think THEN w.l.said
                                      ELSE w.l.said \o chat_parser.tag)
<1> DEFINE p == chat_parser
           v == IF p.in_think THEN Think(w, p.tag) ELSE Say(w, p.tag)
           u == FlushParsers(w)
<1>1. u = IF p.state = "parsing" THEN HeuristicTool(v) ELSE v
  BY DEF FlushParsers
<1>2. /\ Tells(c, v) /\ Speaks(v) /\ Content(w.l, v.l)
      /\ v.l.said = (IF p.in_think THEN w.l.said ELSE w.l.said \o p.tag)
  <2>1. CASE p.in_think
    <3>1. v = Think(w, p.tag)
      BY <2>1
    <3> HIDE DEF v
    <3> QED BY <2>1, <3>1, ThinkTold
  <2>2. CASE ~ p.in_think
    <3>1. v = Say(w, p.tag)
      BY <2>2
    <3> HIDE DEF v
    <3> QED BY <2>2, <3>1, SayTold
  <2> QED BY <2>1, <2>2
<1> HIDE DEF v
<1>3. CASE p.state = "parsing"
  <2>1. u = HeuristicTool(v)
    BY <1>1, <1>3
  <2> HIDE DEF u
  <2>2. /\ Tells(c, u) /\ Speaks(u) /\ Content(v.l, u.l) /\ u.l.said = v.l.said
    BY <1>2, <2>1, HeuristicToolTold
  <2>3. Content(w.l, u.l)
    BY <1>2, <2>2, ContentTwice
  <2> QED BY <1>2, <2>2, <2>3 DEF Speech, u
<1>4. CASE p.state # "parsing"
  <2>1. u = v
    BY <1>1, <1>4
  <2> HIDE DEF u
  <2> QED BY <1>2, <2>1 DEF Speech, u
<1> QED BY <1>3, <1>4

\* A ledger nothing was written in.
LEMMA NewLedgerIs ==
  /\ NewLedger \in Ledger /\ Sound(NewLedger) /\ CanAppend(NewLedger)
  /\ DOMAIN NewLedger.blocks = {} /\ ToolBlocks(NewLedger) = {} /\ NewLedger.said = <<>>
  /\ NewLedger.thought = <<>> /\ Range(NewLedger.stack) = {} /\ ~ NewLedger.text_on
  /\ ~ NewLedger.thinking_on /\ ~ NewLedger.started /\ ~ NewLedger.stopped
  /\ NewLedger.next = 0 /\ NewLedger.text = NoIndex /\ NewLedger.thinking = NoIndex
  /\ DOMAIN NewLedger.tools = {}
<1> DEFINE none == <<>>
           reason == ""
           l == [next |-> 0, text |-> NoIndex, thinking |-> NoIndex, text_on |-> FALSE,
                 thinking_on |-> FALSE, tools |-> none, stack |-> none, blocks |-> none,
                 said |-> none, thought |-> none, stop_reason |-> reason, started |-> FALSE,
                 stopped |-> FALSE]
<1>1. NewLedger = l
  BY Zenon DEF NewLedger
<1>2. none \in Seq(Nat) /\ DOMAIN none = {} /\ none \in Tools /\ none \in Blocks /\ Range(none) = {}
  <2>1. none \in Seq(Nat) /\ DOMAIN none = {}
    BY NothingIs
  <2> HIDE DEF none
  <2>2. \A V : none \in [{} -> V]
    <3>1. none = [x \in DOMAIN none |-> none[x]]
      BY <2>1
    <3> QED BY <2>1, <3>1
  <2>3. \A V : none \in Partial(V)
    BY <2>1, <2>2, PartialIs
  <2> QED BY <2>1, <2>3 DEF Tools, Blocks, Range
<1>3. reason \in StopReason
  BY Zenon DEF StopReason
<1>4. CanAppend(NewLedger)
  <2>1. NewLedger.stop_reason = "" /\ NewLedger.stopped = FALSE
    BY <1>1, Zenon
  <2> QED BY <2>1, Zenon DEF CanAppend
<1>5. NoIndex \in Int
  BY DEF NoIndex
<1> HIDE DEF none, reason
<1>6. l \in Ledger
  BY <1>2, <1>3, <1>5 DEF Ledger
<1>7. /\ DOMAIN l.blocks = {} /\ ToolBlocks(l) = {} /\ Range(l.stack) = {} /\ DOMAIN l.tools = {}
  BY <1>2 DEF ToolBlocks
<1>8. Sound(l)
  <2>1. Distinct(l.stack)
    BY <1>2 DEF Distinct
  <2>2. Unsaid(l)
    BY DEF Unsaid, none
  <2> QED BY <1>6, <1>7, <2>1, <2>2 DEF Sound
<1>9. l.said = none /\ l.thought = none /\ l.next = 0 /\ l.text = NoIndex /\ l.thinking = NoIndex
      /\ ~ l.text_on /\ ~ l.thinking_on /\ ~ l.started /\ ~ l.stopped
  OBVIOUS
<1> HIDE DEF l
<1> QED BY <1>1, <1>4, <1>6, <1>7, <1>8, <1>9 DEF none

\* Nothing was told yet.
LEMMA NothingTold ==
  ASSUME NEW c, c.from \in Client, Agrees(c.from, NewLedger), ~ c.error
  PROVE  Tells(c, Work(NewLedger))
<1>1. Work(NewLedger) = [l |-> NewLedger, out |-> <<>>]
  BY DEF Work
<1> DEFINE w == Work(NewLedger)
<1> DEFINE none == <<>>
<1>2. w.l = NewLedger /\ w.out = none
  BY <1>1
<1>3. <<>> \in Seq(Event)
  OBVIOUS
<1>4. w \in WorkRecord /\ Sound(w.l)
  BY <1>1, <1>2, <1>3, NewLedgerIs DEF WorkRecord
<1> HIDE DEF w
<1>5. Path(c.from, none, c.from)
  BY PathEmpty
<1> HIDE DEF none
<1>6. Knows(c, w, c.from)
  BY <1>2, <1>5 DEF Knows
<1>7. Tells(c, w)
  BY <1>4, <1>6 DEF Tells
<1> QED BY <1>7 DEF w

LEMMA FreshClientIs == FreshClient \in Client /\ Agrees(FreshClient, NewLedger)
<1> DEFINE none == <<>>
           noname == ""
           nothing == [name |-> noname, i |-> NoIndex, type |-> noname]
           d == [phase |-> "new", open |-> {}, seen |-> {}, text |-> none, args |-> none,
                 error |-> FALSE, event |-> nothing]
<1>1. FreshClient = d
  BY Zenon DEF FreshClient
<1>2. none \in Seq(Nat) /\ DOMAIN none = {} /\ none = [x \in {} |-> none[x]]
  BY NothingIs
<1>3. noname \in EventName /\ noname \in EventType
  BY Zenon DEF EventName, EventType
<1>4. NoIndex \in Int
  BY DEF NoIndex
<1>5. none \in Args
  <2> HIDE DEF none
  <2>1. none \in [DOMAIN none -> Seq(Nat)] /\ DOMAIN none \subseteq Nat
    BY <1>2
  <2> QED BY <2>1, PartialIs DEF Args
<1>6. NewLedger.said = none
  BY NewLedgerIs
<1> HIDE DEF none, noname
<1>7. nothing \in [name : EventName, i : Int, type : EventType]
  BY <1>3, <1>4
<1> HIDE DEF nothing
<1>8. d \in Client
  BY <1>2, <1>5, <1>7 DEF Client
<1>9. PhaseOf(NewLedger) = "new" /\ OpenOf(NewLedger) = {} /\ DOMAIN NewLedger.blocks = {}
  BY NewLedgerIs DEF PhaseOf, OpenOf
<1>10. ArgsOf(NewLedger) = none
  BY <1>2, NewLedgerIs DEF ArgsOf
<1>11. Agrees(d, NewLedger)
  BY <1>6, <1>9, <1>10 DEF Agrees
<1> HIDE DEF d
<1> QED BY <1>1, <1>8, <1>11

\* A stream that never said anything ends with a whole answer that says the error.
LEMMA ErrorSequenceTold ==
  ASSUME NEW c, c.from \in Client, Agrees(c.from, NewLedger), ~ c.error
  PROVE  \E w : ErrorSequence(FALSE) = w.out /\ Failed(c, Work(NewLedger), w)
<1> DEFINE v == Work(NewLedger)
           s == MessageStart(v)
           u == MessageStop(MessageDelta(EmitError(s), "end_turn"))
<1>1. Tells(c, v)
  BY NothingTold
<1>2. v.l = NewLedger
  BY DEF Work
<1> HIDE DEF v
<1>3. Tells(c, s) /\ Speaks(s) /\ Same(NewLedger, s.l)
  <2>1. ~ v.l.started /\ ~ v.l.stopped
    BY <1>2, NewLedgerIs
  <2>2. Tells(c, s) /\ Speaks(s) /\ Same(v.l, s.l)
    BY <1>1, <2>1, MessageStartTold, Zenon
  <2> QED BY <1>2, <2>2, Zenon
<1>4. ~ s.l.text_on /\ ~ s.l.thinking_on /\ Range(s.l.stack) = {}
  <2> HIDE DEF s
  <2> QED BY <1>3, NewLedgerIs DEF Same
<1> HIDE DEF s
<1>5. Failed(c, Work(NewLedger), u)
  <2>1. Failed(c, s, u)
    BY <1>3, <1>4, ErrorTold
  <2> QED BY <1>2, <1>3, <2>1, Zenon DEF Failed, Same, v
<1>6. ErrorSequence(FALSE) = u.out
  BY DEF ErrorSequence, s, v
<1> HIDE DEF u
<1> QED BY <1>5, <1>6
-----------------------------------------------------------------------------
(* The client, the events it has not read, and the ledger.                  *)

\* A longer path: events that were out before.
LEMMA Further ==
  ASSUME NEW b, NEW c, b.error = c.error, NEW es \in Seq(Event), Path(b.from, es, c.from),
         NEW w, Tells(c, w)
  PROVE  Tells(b, [l |-> w.l, out |-> es \o w.out])
<1> DEFINE u == [l |-> w.l, out |-> es \o w.out]
<1>1. w \in WorkRecord /\ Sound(w.l) /\ w.l \in Ledger /\ w.out \in Seq(Event)
  BY ToldFields
<1>2. PICK d : Knows(c, w, d)
  BY DEF Tells
<1>3. d \in Client /\ Path(c.from, w.out, d) /\ Agrees(d, w.l) /\ (c.error => d.error)
  BY <1>2, Zenon DEF Knows
<1>4. Path(b.from, es \o w.out, d)
  BY <1>1, <1>3, PathConcat
<1>5. u \in WorkRecord /\ u.l = w.l /\ u.out = es \o w.out
  BY <1>1 DEF WorkRecord
<1> HIDE DEF u
<1>6. Knows(b, u, d)
  BY <1>3, <1>4, <1>5 DEF Knows
<1>7. Tells(b, u)
  BY <1>1, <1>5, <1>6 DEF Tells
<1> QED BY <1>7 DEF u

\* What the client has not read leads to the ledger; until something is committed it
\* was told nothing.
Live(client, ledger, b) ==
  /\ client \in Client /\ b \in Buffer
  /\ Tells(Listener(client, FALSE), [l |-> ledger, out |-> b.wire \o b.held])
  /\ b.committed => b.held = <<>>
  /\ ~ b.committed => b.wire = <<>> /\ Agrees(client, NewLedger)

\* A client that has read what is held.
Meets(client, ledger, b, d) ==
  d \in Client /\ Path(client, b.held, d) /\ Agrees(d, ledger) /\ Tells(Listener(d, FALSE), Work(ledger))

LEMMA BufferIs ==
  ASSUME NEW b \in Buffer
  PROVE  /\ b.held \in Seq(Event) /\ b.wire \in Seq(Event) /\ b.committed \in BOOLEAN
         /\ b = [held |-> b.held, committed |-> b.committed, wire |-> b.wire]
BY DEF Buffer

LEMMA NothingAround ==
  ASSUME NEW s \in Seq(Event)
  PROVE  <<>> \o s = s /\ s \o <<>> = s /\ <<>> \in Seq(Event)
OBVIOUS

LEMMA LiveMeets ==
  ASSUME NEW client, NEW ledger, NEW b, Live(client, ledger, b), b.wire = <<>>
  PROVE  \E d : Meets(client, ledger, b, d)
<1> DEFINE w == [l |-> ledger, out |-> b.wire \o b.held]
           v == Work(ledger)
           none == <<>>
<1>1. b.held \in Seq(Event) /\ none \in Seq(Event)
  BY BufferIs, NothingAround DEF Live
<1>2. w.l = ledger /\ w.out = b.held
  BY <1>1, NothingAround DEF Live
<1>3. Tells(Listener(client, FALSE), w)
  BY Zenon DEF Live
<1>4. v = [l |-> ledger, out |-> none]
  BY DEF Work
<1> HIDE DEF none, w, v
<1>5. v.l = ledger /\ v.out = none
  BY <1>4
<1>6. PICK d : Knows(Listener(client, FALSE), w, d)
  BY <1>3 DEF Tells
<1>7. d \in Client /\ Path(client, b.held, d) /\ Agrees(d, ledger)
  BY <1>2, <1>6 DEF Knows, Listener
<1>8. Path(d, none, d)
  BY PathEmpty DEF none
<1>9. Listener(d, FALSE).from = d /\ Listener(d, FALSE).error = FALSE
  BY DEF Listener
<1>10. Knows(Listener(d, FALSE), v, d)
  BY <1>5, <1>7, <1>8, <1>9, Zenon DEF Knows
<1>11. v \in WorkRecord /\ Sound(v.l)
  <2>1. ledger \in Ledger /\ Sound(ledger)
    BY <1>2, <1>3, ToldFields
  <2> QED BY <1>1, <1>4, <1>5, <2>1 DEF WorkRecord
<1>12. Tells(Listener(d, FALSE), v)
  BY <1>10, <1>11, Zenon DEF Tells
<1> QED BY <1>7, <1>12 DEF Meets, v

\* What is flushed reaches the client.
LEMMA FlushedReaches ==
  ASSUME NEW client, NEW ledger, NEW b, Live(client, ledger, b), NEW d, Meets(client, ledger, b, d),
         NEW e \in BOOLEAN, NEW w, Tells(Listener(d, e), w)
  PROVE  /\ Tells(Listener(client, e), [l |-> w.l, out |-> FlushThen(b, w.out).wire])
         /\ FlushThen(b, w.out) \in Buffer /\ FlushThen(b, w.out).held = <<>>
         /\ FlushThen(b, w.out).committed
<1>1. b.held \in Seq(Event) /\ w.out \in Seq(Event)
  BY BufferIs, ToldFields DEF Live
<1>2. /\ FlushThen(b, w.out).wire = b.held \o w.out
      /\ FlushThen(b, w.out).held = <<>> /\ FlushThen(b, w.out).committed
  BY DEF FlushThen
<1>3. FlushThen(b, w.out) \in Buffer
  BY <1>1 DEF FlushThen, Buffer
<1>4. Listener(d, e).from = d /\ Listener(client, e).from = client
      /\ Listener(d, e).error = Listener(client, e).error
  BY DEF Listener
<1>5. Path(client, b.held, d)
  BY Zenon DEF Meets
<1>6. Tells(Listener(client, e), [l |-> w.l, out |-> b.held \o w.out])
  BY <1>1, <1>4, <1>5, Further
<1> QED BY <1>2, <1>3, <1>6

\* What is pushed, too, now or later.
LEMMA PushedLive ==
  ASSUME NEW client, NEW ledger, NEW b, Live(client, ledger, b), b.wire = <<>>,
         NEW d, Meets(client, ledger, b, d), NEW w, Tells(Listener(d, FALSE), w),
         NEW a \in Push(b, w.out)
  PROVE  Live(client, w.l, a)
<1>1. client \in Client /\ b \in Buffer /\ b.held \in Seq(Event) /\ w.out \in Seq(Event)
  BY BufferIs, ToldFields DEF Live
<1>2. CASE b.committed
  <2>1. a = [b EXCEPT !.wire = w.out]
    BY <1>2 DEF Push
  <2>2. a \in Buffer /\ a.held = b.held /\ a.wire = w.out /\ a.committed
    BY <1>1, <1>2, <2>1 DEF Buffer
  <2>3. b.held = <<>>
    BY <1>2, Zenon DEF Live
  <2>4. d = client
    <3>1. Path(client, <<>>, d)
      BY <2>3, Zenon DEF Meets
    <3> QED BY <3>1, PathEmpty
  <2>5. [l |-> w.l, out |-> a.wire \o a.held] = w
    <3>1. a.wire \o a.held = w.out
      BY <1>1, <2>2, <2>3, NothingAround
    <3>2. w = [l |-> w.l, out |-> w.out]
      BY ToldFields
    <3> QED BY <3>1, <3>2
  <2> QED BY <1>1, <2>2, <2>3, <2>4, <2>5, Zenon DEF Live
<1>3. CASE ~ b.committed
  <2>1. Agrees(client, NewLedger)
    BY <1>3, Zenon DEF Live
  <2>2. CASE a = [b EXCEPT !.held = @ \o w.out]
    <3>1. a \in Buffer /\ a.held = b.held \o w.out /\ a.wire = <<>> /\ ~ a.committed
      <4> DEFINE more == b.held \o w.out
      <4>1. more \in Seq(Event)
        BY <1>1
      <4>2. a = [b EXCEPT !.held = more]
        BY <2>2
      <4> HIDE DEF more
      <4>3. a \in Buffer /\ a.held = more /\ a.wire = b.wire /\ a.committed = b.committed
        BY <1>1, <4>1, <4>2 DEF Buffer
      <4> QED BY <1>3, <4>3, Zenon DEF more
    <3>2. a.wire \o a.held = b.held \o w.out
      <4>1. a.held \in Seq(Event)
        BY <3>1, BufferIs
      <4> QED BY <3>1, <4>1, NothingAround
    <3>3. Tells(Listener(client, FALSE), [l |-> w.l, out |-> b.held \o w.out])
      <4>1. Listener(d, FALSE).from = d /\ Listener(client, FALSE).from = client
            /\ Listener(d, FALSE).error = Listener(client, FALSE).error
        BY DEF Listener
      <4>2. Path(client, b.held, d)
        BY Zenon DEF Meets
      <4> QED BY <1>1, <4>1, <4>2, Further
    <3> QED BY <1>1, <2>1, <3>1, <3>2, <3>3, Zenon DEF Live
  <2>3. CASE a = FlushThen(b, w.out)
    <3>1. FALSE \in BOOLEAN
      OBVIOUS
    <3>2. /\ Tells(Listener(client, FALSE), [l |-> w.l, out |-> FlushThen(b, w.out).wire])
          /\ FlushThen(b, w.out) \in Buffer /\ FlushThen(b, w.out).held = <<>>
          /\ FlushThen(b, w.out).committed
      BY <3>1, FlushedReaches
    <3>3. a.wire \o a.held = a.wire
      <4>1. a.wire \in Seq(Event)
        BY <2>3, <3>2, BufferIs
      <4> QED BY <2>3, <3>2, <4>1, NothingAround
    <3>4. Tells(Listener(client, FALSE), [l |-> w.l, out |-> a.wire \o a.held])
      BY <2>3, <3>2, <3>3, Zenon
    <3> QED BY <1>1, <2>3, <3>2, <3>4, Zenon DEF Live
  <2>4. a = [b EXCEPT !.held = @ \o w.out] \/ a = FlushThen(b, w.out)
    BY <1>3 DEF Push
  <2> QED BY <2>2, <2>3, <2>4
<1> QED BY <1>2, <1>3
-----------------------------------------------------------------------------
(* The adapter's invariant.                                                 *)

ParserRecord == [in_think : BOOLEAN, tag : Seq(Nat), held : Seq(Nat),
                 state : {"text", "matching", "parsing"}]
UpstreamRecord == [chunks : 0 .. ChatChunks, text : Nat, thinking : Nat, finished : BOOLEAN,
                   args : [ChatTools -> 0 .. 2], tools : 0 .. ChatCalls, bullets : BOOLEAN]

ChatFields ==
  /\ chat_phase \in ChatPhase /\ chat_buffer \in Buffer /\ chat_retries \in 0 .. EarlyRetries
  /\ chat_parser \in ParserRecord /\ chat_upstream \in UpstreamRecord
  /\ chat_ledger \in Ledger /\ chat_client \in Client

\* The ledger while an answer is written: its calls are the upstream's.
Writing(l, up) ==
  /\ l.started /\ ~ l.stopped /\ Calls(l, up.tools, up.args)
  /\ \A t \in ChatTools : t > up.tools => up.args[t] = 0

\* While the adapter works, what is out and what is held lead to the ledger.
ChatLive ==
  chat_phase \notin ChatOver =>
    /\ Live(chat_client, chat_ledger, chat_buffer)
    /\ chat_phase = "starting" =>
         /\ chat_ledger = NewLedger /\ ~ chat_buffer.committed
         /\ chat_upstream = FreshUpstream /\ chat_parser = FreshParser
    /\ chat_phase # "starting" => Writing(chat_ledger, chat_upstream)
    /\ chat_phase = "recovering" => HasContentBlock(chat_ledger)

\* When it has returned, what is out leads to the end of a message, and to an error
\* said if there was one.
Over(u) ==
  /\ u.out = chat_buffer.wire /\ Tells(Listener(chat_client, FALSE), u) /\ u.l.stopped
  /\ chat_phase # "failed" => u.l = chat_ledger
  /\ chat_phase = "failed" =>
       /\ Confessed(Listener(chat_client, FALSE), u)
       /\ u.l = chat_ledger \/ u.l.said = <<>> \/ u.l.said = EmptyObject
ChatEnd == chat_phase \in ChatOver => \E u : Over(u)

\* A continued answer that asks for tools to be run holds whole arguments.
ChatWhole ==
  chat_phase = "continued" /\ chat_ledger.stop_reason = "tool_use" =>
    \A i \in ToolBlocks(chat_ledger) : chat_ledger.blocks[i].parts = Whole

ChatSafe == ChatFields /\ ChatLive /\ ChatEnd /\ ChatWhole

\* What an operation says, whoever listens, and the ledger it leaves.
Says(w) ==
  \A d : Tells(Listener(d, FALSE), Work(chat_ledger)) => Tells(Listener(d, FALSE), w)
Writes(w, up) == Says(w) /\ Writing(w.l, up)

LEMMA WorkIs ==
  ASSUME NEW l
  PROVE  Work(l).l = l /\ Work(l).out = <<>>
BY DEF Work

LEMMA UpstreamIs ==
  ASSUME NEW up \in UpstreamRecord
  PROVE  /\ up.chunks \in 0 .. ChatChunks /\ up.text \in Nat /\ up.thinking \in Nat
         /\ up.finished \in BOOLEAN /\ up.bullets \in BOOLEAN
         /\ up.args \in [ChatTools -> 0 .. 2] /\ up.tools \in 0 .. ChatCalls
BY DEF UpstreamRecord

LEMMA ChatMeets ==
  ASSUME ChatSafe, chat_buffer.wire = <<>>, chat_phase \notin ChatOver
  PROVE  \E d : Meets(chat_client, chat_ledger, chat_buffer, d)
<1>1. Live(chat_client, chat_ledger, chat_buffer)
  BY Zenon DEF ChatSafe, ChatLive
<1> QED BY <1>1, LiveMeets

\* A chunk that writes what the ledger can hold.
LEMMA HandleSafe ==
  ASSUME ChatSafe, NEW w, NEW up \in UpstreamRecord, NEW parser \in ParserRecord,
         up.chunks = chat_upstream.chunks, Writes(w, up), Handle(w, up, parser)
  PROVE  ChatSafe'
<1>1. /\ Ready("streaming") /\ chat_upstream.chunks < ChatChunks /\ chat_ledger' = w.l
      /\ chat_buffer' \in Push(chat_buffer, w.out)
      /\ chat_upstream' = [up EXCEPT !.chunks = @ + 1] /\ chat_parser' = parser
      /\ chat_phase' = chat_phase /\ chat_retries' = chat_retries /\ chat_client' = chat_client
  BY DEF Handle
<1>2. chat_phase = "streaming" /\ chat_buffer.wire = <<>> /\ chat_phase \notin ChatOver
  BY <1>1 DEF Ready, ChatOver
<1>3. Live(chat_client, chat_ledger, chat_buffer)
  BY <1>2, Zenon DEF ChatSafe, ChatLive
<1>4. PICK d : Meets(chat_client, chat_ledger, chat_buffer, d)
  BY <1>2, ChatMeets
<1>5. Tells(Listener(d, FALSE), Work(chat_ledger))
  BY <1>4, Zenon DEF Meets
<1>6. Tells(Listener(d, FALSE), w)
  BY <1>5, Zenon DEF Writes, Says
<1>7. Live(chat_client, w.l, chat_buffer')
  BY <1>1, <1>2, <1>3, <1>4, <1>6, PushedLive
<1>8. chat_upstream' \in UpstreamRecord /\ chat_upstream'.tools = up.tools
      /\ chat_upstream'.args = up.args
  <2>1. up.chunks + 1 \in 0 .. ChatChunks
    <3>1. up.chunks \in 0 .. ChatChunks
      BY UpstreamIs
    <3> QED BY <1>1, <3>1, ChatAssumption
  <2> QED BY <1>1, <2>1 DEF UpstreamRecord
<1>9. Writing(w.l, chat_upstream')
  BY <1>8, Zenon DEF Writing, Writes
<1>10. ChatFields'
  <2>1. w.l \in Ledger /\ chat_buffer' \in Buffer
    BY <1>6, <1>7, ToldFields DEF Live
  <2> QED BY <1>1, <1>8, <2>1, Zenon DEF ChatFields, ChatSafe
<1>11. ChatLive'
  <2>1. chat_phase' # "starting" /\ chat_phase' # "recovering" /\ chat_phase' # "continued"
        /\ chat_phase' \notin ChatOver
    BY <1>1, <1>2 DEF ChatOver
  <2> QED BY <1>1, <1>7, <1>9, <2>1, Zenon DEF ChatLive
<1>12. ChatEnd' /\ ChatWhole'
  <2>1. chat_phase' # "continued" /\ chat_phase' \notin ChatOver
    BY <1>1, <1>2 DEF ChatOver
  <2> QED BY <2>1, Zenon DEF ChatEnd, ChatWhole
<1> QED BY <1>10, <1>11, <1>12, Zenon DEF ChatSafe

\* The end of an answer that did not fail.
LEMMA EndsSafe ==
  ASSUME ChatSafe, chat_buffer.wire = <<>>, chat_phase \notin ChatOver, NEW w, Says(w),
         w.l.stopped, chat_ledger' = w.l, chat_buffer' = FlushThen(chat_buffer, w.out),
         chat_phase' \in {"answered", "continued"}, ChatWhole',
         UNCHANGED <<chat_retries, chat_parser, chat_upstream, chat_client>>
  PROVE  ChatSafe'
<1>1. Live(chat_client, chat_ledger, chat_buffer)
  BY Zenon DEF ChatSafe, ChatLive
<1>2. PICK d : Meets(chat_client, chat_ledger, chat_buffer, d)
  BY ChatMeets
<1>3. Tells(Listener(d, FALSE), w)
  BY <1>2, Zenon DEF Meets, Says
<1>4. /\ Tells(Listener(chat_client, FALSE), [l |-> w.l, out |-> FlushThen(chat_buffer, w.out).wire])
      /\ FlushThen(chat_buffer, w.out) \in Buffer
  <2>1. FALSE \in BOOLEAN
    OBVIOUS
  <2> QED BY <1>1, <1>2, <1>3, <2>1, FlushedReaches
<1>5. chat_phase' \in ChatOver /\ chat_phase' # "failed" /\ chat_phase' \in ChatPhase
  BY DEF ChatOver, ChatPhase
<1>6. PICK u : u = [l |-> w.l, out |-> FlushThen(chat_buffer, w.out).wire]
  OBVIOUS
<1>7. u.l = w.l /\ u.out = chat_buffer'.wire /\ Tells(Listener(chat_client, FALSE), u)
  BY <1>4, <1>6
<1>8. Over(u)'
  BY <1>5, <1>7, Zenon DEF Over
<1>9. ChatEnd'
  BY <1>8, Zenon DEF ChatEnd
<1>10. ChatLive'
  BY <1>5, Zenon DEF ChatLive
<1>11. ChatFields'
  <2>1. w.l \in Ledger
    BY <1>3, ToldFields
  <2> QED BY <1>4, <1>5, <2>1, Zenon DEF ChatFields, ChatSafe
<1> QED BY <1>9, <1>10, <1>11, Zenon DEF ChatSafe
-----------------------------------------------------------------------------
(* Failures, retries and stalls.                                            *)

LEMMA FreshIs == FreshParser \in ParserRecord /\ FreshUpstream \in UpstreamRecord
<1>1. FreshParser \in ParserRecord
  <2>1. <<>> \in Seq(Nat)
    OBVIOUS
  <2> QED BY <2>1 DEF FreshParser, ParserRecord
<1>2. FreshUpstream \in UpstreamRecord
  BY ChatAssumption DEF FreshUpstream, UpstreamRecord
<1> QED BY <1>1, <1>2

\* The error tail ends the message and tells of the failure.
LEMMA GivesUpSafe ==
  ASSUME ChatSafe, chat_buffer.wire = <<>>, chat_phase \notin ChatOver, chat_phase # "starting",
         ChatGivesUp
  PROVE  /\ ChatSafe'
         /\ \/ chat_ledger'.said = chat_ledger.said
            \/ chat_ledger'.said = chat_ledger.said \o EmptyObject
<1> DEFINE w == ErrorTail(Work(chat_ledger))
<1>1. /\ chat_ledger' = w.l /\ chat_buffer' = FlushThen(chat_buffer, w.out)
      /\ chat_phase' = "failed" /\ chat_retries' = chat_retries /\ chat_parser' = chat_parser
      /\ chat_upstream' = chat_upstream /\ chat_client' = chat_client
  BY DEF ChatGivesUp
<1>2. Live(chat_client, chat_ledger, chat_buffer) /\ Writing(chat_ledger, chat_upstream)
  BY Zenon DEF ChatSafe, ChatLive
<1>3. PICK d : Meets(chat_client, chat_ledger, chat_buffer, d)
  BY ChatMeets
<1>4. Failed(Listener(d, FALSE), Work(chat_ledger), w)
  <2> DEFINE v == Work(chat_ledger)
  <2>1. Tells(Listener(d, FALSE), v)
    BY <1>3, Zenon DEF Meets
  <2>2. v.l = chat_ledger
    BY WorkIs
  <2> HIDE DEF v
  <2>3. Speaks(v) /\ Shape(v.l, chat_upstream.tools)
    BY <1>2, <2>2, Zenon DEF Writing, Speaks, Calls
  <2>4. Failed(Listener(d, FALSE), v, ErrorTail(v))
    BY <2>1, <2>3, ErrorTailTold
  <2> QED BY <2>4 DEF v
<1> HIDE DEF w
<1>5. \A e \in BOOLEAN :
        Tells(Listener(d, e), w) =>
          /\ Tells(Listener(chat_client, e), [l |-> w.l, out |-> FlushThen(chat_buffer, w.out).wire])
          /\ FlushThen(chat_buffer, w.out) \in Buffer
  BY <1>2, <1>3, FlushedReaches
<1>6. PICK u : u = [l |-> w.l, out |-> FlushThen(chat_buffer, w.out).wire]
  OBVIOUS
<1>7. /\ u.l = w.l /\ u.out = chat_buffer'.wire /\ Tells(Listener(chat_client, FALSE), u)
      /\ FlushThen(chat_buffer, w.out) \in Buffer /\ u.l.stopped
  <2>1. Tells(Listener(d, FALSE), w) /\ w.l.stopped
    BY <1>4, Zenon DEF Failed
  <2> QED BY <1>1, <1>5, <1>6, <2>1
<1>8. Confessed(Listener(chat_client, FALSE), u)
  <2>1. \A c, e : Listener(c, e).from = c
    BY DEF Listener
  <2>2. Tells(Listener(d, TRUE), w) \/ 0 \in Range(w.l.said)
    BY <1>4, <2>1, Zenon DEF Failed, Confessed
  <2>3. Tells(Listener(d, TRUE), w) => Tells(Listener(chat_client, TRUE), u)
    BY <1>5, <1>6
  <2> QED BY <1>7, <2>1, <2>2, <2>3, Zenon DEF Confessed
<1>9. chat_phase' \in ChatOver /\ chat_phase' = "failed" /\ chat_phase' \in ChatPhase
      /\ chat_phase' # "continued"
  BY <1>1 DEF ChatOver, ChatPhase
<1>10. Over(u)'
  BY <1>1, <1>7, <1>8, <1>9, Zenon DEF Over
<1>11. ChatEnd' /\ ChatLive' /\ ChatWhole'
  BY <1>9, <1>10, Zenon DEF ChatEnd, ChatLive, ChatWhole
<1>12. ChatFields'
  <2>1. w.l \in Ledger
    BY <1>4, ToldFields DEF Failed
  <2> QED BY <1>1, <1>7, <1>9, <2>1, Zenon DEF ChatFields, ChatSafe
<1>13. chat_ledger'.said = chat_ledger.said \/ chat_ledger'.said = chat_ledger.said \o EmptyObject
  <2>1. Work(chat_ledger).l = chat_ledger
    BY WorkIs
  <2>2. w.l.said \in {Work(chat_ledger).l.said, Work(chat_ledger).l.said \o EmptyObject}
    BY <1>4 DEF Failed
  <2> QED BY <1>1, <2>1, <2>2
<1>14. ChatSafe'
  BY <1>11, <1>12, Zenon DEF ChatSafe
<1> QED BY <1>13, <1>14

\* The next attempt starts from nothing, and the client was told nothing.
Again ==
  /\ ~ chat_buffer.committed /\ chat_retries < EarlyRetries
  /\ chat_retries' = chat_retries + 1 /\ chat_buffer' = Discarded(chat_buffer)
  /\ chat_ledger' = NewLedger /\ chat_parser' = FreshParser /\ chat_upstream' = FreshUpstream
  /\ chat_phase' = "starting" /\ chat_client' = chat_client
Recovers ==
  /\ GeneratedOutput /\ chat_phase' = "recovering"
  /\ UNCHANGED <<chat_ledger, chat_buffer, chat_retries, chat_parser, chat_upstream, chat_client>>

LEMMA ChatFailsIs ==
  ASSUME NEW retryable, NEW opened, ChatFails(retryable, opened)
  PROVE  Again \/ Recovers \/ ChatGivesUp
<1> DEFINE again == EarlyRetry(chat_buffer, chat_retries, retryable, opened,
                               GeneratedOutput /\ Salvageable(chat_ledger))
<1>1. CASE again
  <2>1. ~ chat_buffer.committed /\ chat_retries < EarlyRetries
    BY <1>1 DEF EarlyRetry
  <2> HIDE DEF again
  <2>2. /\ chat_retries' = chat_retries + 1 /\ chat_buffer' = Discarded(chat_buffer)
        /\ chat_ledger' = NewLedger /\ chat_parser' = FreshParser /\ chat_upstream' = FreshUpstream
        /\ chat_phase' = "starting" /\ chat_client' = chat_client
    BY <1>1 DEF ChatFails, again
  <2> QED BY <2>1, <2>2, Zenon DEF Again
<1>2. CASE ~ again /\ retryable /\ GeneratedOutput
  <2> HIDE DEF again
  <2> QED BY <1>2 DEF ChatFails, again, Recovers
<1>3. CASE ~ again /\ ~ (retryable /\ GeneratedOutput)
  <2> HIDE DEF again
  <2> QED BY <1>3 DEF ChatFails, again
<1> HIDE DEF again
<1> QED BY <1>1, <1>2, <1>3

LEMMA AgainSafe ==
  ASSUME ChatSafe, chat_phase \notin ChatOver, Again
  PROVE  ChatSafe'
<1>1. Live(chat_client, chat_ledger, chat_buffer) /\ ~ chat_buffer.committed
  BY Zenon DEF ChatSafe, ChatLive, Again
<1>2. /\ chat_client \in Client /\ chat_buffer.wire = <<>> /\ Agrees(chat_client, NewLedger)
      /\ chat_buffer \in Buffer
  BY <1>1, Zenon DEF Live
<1>3. /\ chat_buffer' \in Buffer /\ chat_buffer'.wire = <<>> /\ chat_buffer'.held = <<>>
      /\ ~ chat_buffer'.committed
  <2>1. <<>> \in Seq(Event)
    OBVIOUS
  <2>2. chat_buffer' = [held |-> <<>>, committed |-> chat_buffer.committed, wire |-> chat_buffer.wire]
    BY <1>2, BufferIs DEF Again, Discarded
  <2> QED BY <1>1, <1>2, <2>1, <2>2 DEF Buffer
<1>4. Tells(Listener(chat_client, FALSE), Work(NewLedger))
  <2>1. Listener(chat_client, FALSE).from = chat_client /\ Listener(chat_client, FALSE).error = FALSE
    BY DEF Listener
  <2> QED BY <1>2, <2>1, NothingTold
<1>5. Work(NewLedger) = [l |-> NewLedger, out |-> chat_buffer'.wire \o chat_buffer'.held]
  <2> DEFINE l == NewLedger
  <2>1. <<>> \o <<>> = <<>>
    OBVIOUS
  <2> HIDE DEF l
  <2> QED BY <1>3, <2>1 DEF Work
<1>6. Live(chat_client, NewLedger, chat_buffer')
  BY <1>2, <1>3, <1>4, <1>5, Zenon DEF Live
<1>7. chat_phase' \notin ChatOver /\ chat_phase' # "recovering" /\ chat_phase' # "continued"
      /\ chat_phase' = "starting" /\ chat_phase' \in ChatPhase
  BY DEF Again, ChatOver, ChatPhase
<1>8. ChatLive' /\ ChatEnd' /\ ChatWhole'
  <2>1. /\ chat_ledger' = NewLedger /\ chat_upstream' = FreshUpstream /\ chat_client' = chat_client
        /\ chat_parser' = FreshParser
    BY DEF Again
  <2> QED BY <1>3, <1>6, <1>7, <2>1, Zenon DEF ChatLive, ChatEnd, ChatWhole
<1>9. ChatFields'
  <2>1. chat_retries' \in 0 .. EarlyRetries
    BY RecoveryAssumption DEF ChatSafe, ChatFields, Again
  <2>2. /\ chat_ledger' \in Ledger /\ chat_upstream' \in UpstreamRecord
        /\ chat_parser' \in ParserRecord /\ chat_client' \in Client
    BY <1>2, FreshIs, NewLedgerIs DEF Again
  <2> QED BY <1>3, <1>7, <2>1, <2>2, Zenon DEF ChatFields
<1> QED BY <1>8, <1>9, Zenon DEF ChatSafe

\* An attempt with output has a block.
LEMMA GeneratedIs ==
  ASSUME Sound(chat_ledger), GeneratedOutput
  PROVE  HasContentBlock(chat_ledger)
BY DEF Sound, Unsaid, GeneratedOutput, HasContentBlock, HasToolBlock, ToolBlocks

LEMMA RecoversSafe ==
  ASSUME ChatSafe, chat_phase \notin ChatOver, chat_phase # "starting", Recovers
  PROVE  ChatSafe'
<1>1. Live(chat_client, chat_ledger, chat_buffer) /\ Writing(chat_ledger, chat_upstream)
  BY Zenon DEF ChatSafe, ChatLive
<1>2. HasContentBlock(chat_ledger)
  <2>1. Sound([l |-> chat_ledger, out |-> chat_buffer.wire \o chat_buffer.held].l)
    BY <1>1, ToldFields DEF Live
  <2>2. Sound(chat_ledger)
    BY <2>1
  <2>3. GeneratedOutput
    BY DEF Recovers
  <2> QED BY <2>2, <2>3, GeneratedIs
<1>3. /\ chat_phase' \notin ChatOver /\ chat_phase' # "starting" /\ chat_phase' # "continued"
      /\ chat_phase' \in ChatPhase
  BY DEF Recovers, ChatOver, ChatPhase
<1>4. /\ chat_ledger' = chat_ledger /\ chat_buffer' = chat_buffer /\ chat_retries' = chat_retries
      /\ chat_parser' = chat_parser /\ chat_upstream' = chat_upstream /\ chat_client' = chat_client
  BY DEF Recovers
<1>5. ChatLive' /\ ChatEnd' /\ ChatWhole'
  BY <1>1, <1>2, <1>3, <1>4, Zenon DEF ChatLive, ChatEnd, ChatWhole
<1>6. ChatFields'
  BY <1>3, <1>4, Zenon DEF ChatFields, ChatSafe
<1> QED BY <1>5, <1>6, Zenon DEF ChatSafe

LEMMA FailsSafe ==
  ASSUME ChatSafe, chat_buffer.wire = <<>>, chat_phase \notin ChatOver, chat_phase # "starting",
         NEW retryable, NEW opened, ChatFails(retryable, opened)
  PROVE  ChatSafe'
BY ChatFailsIs, AgainSafe, RecoversSafe, GivesUpSafe
-----------------------------------------------------------------------------
(* Reading, starting and stalling.                                          *)

\* A client that reads one event more.
LEMMA ReadTold ==
  ASSUME NEW c, NEW w, Tells(c, w), w.out # <<>>, NEW b, b.from = Read(c.from, Head(w.out)),
         b.error = c.error
  PROVE  /\ Tells(b, [l |-> w.l, out |-> Tail(w.out)])
         /\ Legal(c.from, Head(w.out)) /\ Head(w.out) \in Event
<1>1. w \in WorkRecord /\ Sound(w.l) /\ w.l \in Ledger /\ w.out \in Seq(Event)
  BY ToldFields
<1>2. PICK d : Knows(c, w, d)
  BY DEF Tells
<1>3. d \in Client /\ Path(c.from, w.out, d) /\ Agrees(d, w.l) /\ (c.error => d.error)
  BY <1>2, Zenon DEF Knows
<1>4. /\ Head(w.out) \in Event /\ Tail(w.out) \in Seq(Event)
      /\ Legal(c.from, Head(w.out)) /\ Path(b.from, Tail(w.out), d)
  BY <1>1, <1>3, PathTail
<1>5. PICK u : u = [l |-> w.l, out |-> Tail(w.out)]
  OBVIOUS
<1>6. u \in WorkRecord /\ u.l = w.l /\ u.out = Tail(w.out)
  BY <1>1, <1>4, <1>5 DEF WorkRecord
<1>7. Knows(b, u, d)
  BY <1>3, <1>4, <1>6, Zenon DEF Knows
<1>8. Tells(b, u)
  BY <1>1, <1>6, <1>7, Zenon DEF Tells
<1> QED BY <1>4, <1>5, <1>8, Zenon

LEMMA TailBuffer ==
  ASSUME NEW b \in Buffer, b.wire # <<>>
  PROVE  /\ [b EXCEPT !.wire = Tail(@)] \in Buffer
         /\ [b EXCEPT !.wire = Tail(@)].wire = Tail(b.wire)
         /\ [b EXCEPT !.wire = Tail(@)].held = b.held
         /\ [b EXCEPT !.wire = Tail(@)].committed = b.committed
<1>1. Tail(b.wire) \in Seq(Event)
  BY BufferIs
<1> QED BY <1>1 DEF Buffer

\* What the client reads next is legal, live or at the end.
LEMMA LiveRead ==
  ASSUME NEW client, NEW ledger, NEW b, Live(client, ledger, b), b.wire # <<>>,
         NEW e, e = Head(b.wire), NEW a, a = [b EXCEPT !.wire = Tail(@)]
  PROVE  Live(Read(client, e), ledger, a) /\ Legal(client, e) /\ e \in Event
<1>1. /\ b \in Buffer /\ b.committed /\ b.held = <<>> /\ client \in Client
      /\ b.wire \in Seq(Event) /\ b.held \in Seq(Event)
  BY BufferIs DEF Live
<1>2. /\ a \in Buffer /\ a.wire = Tail(b.wire) /\ a.held = b.held
      /\ a.committed = b.committed /\ a.wire \in Seq(Event)
  BY <1>1, TailBuffer, BufferIs
<1>3. b.wire \o b.held = b.wire /\ a.wire \o a.held = a.wire
  BY <1>1, <1>2, NothingAround
<1>4. PICK w : w = [l |-> ledger, out |-> b.wire]
  OBVIOUS
<1>5. Tells(Listener(client, FALSE), w)
  BY <1>3, <1>4, Zenon DEF Live
<1>6. w.l = ledger /\ w.out = b.wire
  BY <1>4
<1>7. \A c, f : Listener(c, f).from = c /\ Listener(c, f).error = f
  BY DEF Listener
<1>8. /\ Tells(Listener(Read(client, e), FALSE), [l |-> w.l, out |-> Tail(w.out)])
      /\ Legal(client, e) /\ e \in Event
  <2> DEFINE c == Listener(client, FALSE)
             f == Listener(Read(client, e), FALSE)
  <2>1. /\ Tells(c, w) /\ w.out # <<>> /\ c.from = client /\ e = Head(w.out)
        /\ f.from = Read(c.from, Head(w.out)) /\ f.error = c.error
    <3>1. c.from = client /\ c.error = FALSE /\ f.from = Read(client, e) /\ f.error = FALSE
      BY <1>7, Zenon
    <3>2. w.out # <<>> /\ e = Head(w.out)
      BY <1>6
    <3>3. Tells(c, w)
      BY <1>5
    <3> HIDE DEF c, f
    <3> QED BY <3>1, <3>2, <3>3
  <2> HIDE DEF c, f
  <2>2. /\ Tells(f, [l |-> w.l, out |-> Tail(w.out)])
        /\ Legal(c.from, Head(w.out)) /\ Head(w.out) \in Event
    BY <2>1, ReadTold
  <2> QED BY <2>1, <2>2, Zenon DEF f
<1>9. Tells(Listener(Read(client, e), FALSE), [l |-> ledger, out |-> a.wire \o a.held])
  BY <1>2, <1>3, <1>6, <1>8, Zenon
<1>10. Read(client, e) \in Client
  BY <1>1, <1>8, ReadClient
<1> QED BY <1>1, <1>2, <1>8, <1>9, <1>10, Zenon DEF Live

LEMMA OverRead ==
  ASSUME NEW u, Over(u), chat_buffer.wire # <<>>, chat_client \in Client
  PROVE  LET e == Head(chat_buffer.wire)
             v == [l |-> u.l, out |-> Tail(u.out)]
         IN  /\ Legal(chat_client, e) /\ e \in Event /\ Read(chat_client, e) \in Client
             /\ Tells(Listener(Read(chat_client, e), FALSE), v)
             /\ chat_phase = "failed" => Confessed(Listener(Read(chat_client, e), FALSE), v)
<1> DEFINE e == Head(chat_buffer.wire)
           v == [l |-> u.l, out |-> Tail(u.out)]
<1>1. u.out = chat_buffer.wire /\ Tells(Listener(chat_client, FALSE), u)
  BY Zenon DEF Over
<1>2. \A c, f : Listener(c, f).from = c /\ Listener(c, f).error = f
  BY DEF Listener
<1>3. \A f : Tells(Listener(chat_client, f), u) =>
        Tells(Listener(Read(chat_client, e), f), v) /\ Legal(chat_client, e) /\ e \in Event
  BY <1>1, <1>2, ReadTold
<1>4. v.l = u.l
  OBVIOUS
<1> HIDE DEF e, v
<1>5. Read(chat_client, e) \in Client
  BY <1>1, <1>3, ReadClient
<1>6. ASSUME chat_phase = "failed" PROVE Confessed(Listener(Read(chat_client, e), FALSE), v)
  <2>1. Confessed(Listener(chat_client, FALSE), u)
    BY <1>6, Zenon DEF Over
  <2>2. Tells(Listener(chat_client, TRUE), u) \/ 0 \in Range(u.l.said)
    BY <1>2, <2>1, Zenon DEF Confessed
  <2> QED BY <1>2, <1>3, <1>4, <2>2, Zenon DEF Confessed
<1> QED BY <1>1, <1>3, <1>5, <1>6, Zenon DEF e, v

\* The client reads: what it reads is legal, and the invariant is kept.
LEMMA DeliverSafe ==
  ASSUME ChatSafe, ChatDeliver
  PROVE  /\ ChatSafe' /\ Legal(chat_client, Head(chat_buffer.wire))
         /\ Head(chat_buffer.wire) \in Event
<1> DEFINE e == Head(chat_buffer.wire)
<1>1. /\ chat_buffer.wire # <<>> /\ chat_client' = Read(chat_client, e)
      /\ chat_buffer' = [chat_buffer EXCEPT !.wire = Tail(@)]
      /\ chat_phase' = chat_phase /\ chat_ledger' = chat_ledger /\ chat_retries' = chat_retries
      /\ chat_parser' = chat_parser /\ chat_upstream' = chat_upstream
  BY DEF ChatDeliver
<1>2. chat_client \in Client /\ chat_buffer \in Buffer
  BY Zenon DEF ChatSafe, ChatFields
<1>3. /\ chat_buffer' \in Buffer /\ chat_buffer'.wire = Tail(chat_buffer.wire)
      /\ chat_buffer'.committed = chat_buffer.committed
  BY <1>1, <1>2, TailBuffer
<1>4. CASE chat_phase \notin ChatOver
  <2>1. Live(chat_client, chat_ledger, chat_buffer)
    BY <1>4, Zenon DEF ChatSafe, ChatLive
  <2>2. Live(chat_client', chat_ledger, chat_buffer') /\ Legal(chat_client, e) /\ e \in Event
    BY <1>1, <2>1, LiveRead
  <2>3. ChatLive'
    BY <1>1, <1>3, <1>4, <2>2, Zenon DEF ChatSafe, ChatLive
  <2>4. ChatEnd' /\ ChatWhole'
    BY <1>1, <1>4, Zenon DEF ChatSafe, ChatEnd, ChatWhole
  <2>5. ChatFields'
    <3>1. chat_client' \in Client
      BY <2>2, Zenon DEF Live
    <3> QED BY <1>1, <1>3, <3>1, Zenon DEF ChatSafe, ChatFields
  <2> QED BY <2>2, <2>3, <2>4, <2>5, Zenon DEF ChatSafe
<1>5. CASE chat_phase \in ChatOver
  <2>1. PICK u : Over(u)
    BY <1>5, Zenon DEF ChatSafe, ChatEnd
  <2>2. PICK v : v = [l |-> u.l, out |-> Tail(u.out)]
    OBVIOUS
  <2>3. /\ Legal(chat_client, e) /\ e \in Event /\ chat_client' \in Client
        /\ Tells(Listener(chat_client', FALSE), v)
        /\ chat_phase = "failed" => Confessed(Listener(chat_client', FALSE), v)
    BY <1>1, <1>2, <2>1, <2>2, OverRead
  <2>4. v.l = u.l /\ v.out = chat_buffer'.wire
    BY <1>3, <2>1, <2>2 DEF Over
  <2>5. Over(v)'
    BY <1>1, <2>1, <2>3, <2>4, Zenon DEF Over
  <2>6. ChatEnd' /\ ChatLive' /\ ChatWhole'
    BY <1>1, <1>5, <2>5, Zenon DEF ChatSafe, ChatEnd, ChatLive, ChatWhole
  <2>7. ChatFields'
    BY <1>1, <1>3, <2>3, Zenon DEF ChatSafe, ChatFields
  <2> QED BY <2>3, <2>6, <2>7, Zenon DEF ChatSafe
<1> QED BY <1>4, <1>5

\* Nothing came: the error sequence takes the adapter's place, if the client was sent
\* nothing before.
LEMMA StallsSafe ==
  ASSUME ChatSafe, ~ LateStalls, ChatStalls
  PROVE  ChatSafe'
<1>1. /\ chat_buffer.wire = <<>> /\ chat_phase \notin ChatOver /\ CanStall(chat_client)
      /\ chat_buffer' = [chat_buffer EXCEPT !.wire = StallEvents(chat_client)]
      /\ chat_phase' = "failed" /\ chat_ledger' = chat_ledger /\ chat_retries' = chat_retries
      /\ chat_parser' = chat_parser /\ chat_upstream' = chat_upstream /\ chat_client' = chat_client
  BY DEF ChatStalls
<1>2. chat_client.phase = "new"
  BY <1>1, Zenon DEF CanStall
<1>3. StallEvents(chat_client) = ErrorSequence(FALSE)
  BY <1>2 DEF StallEvents
<1>4. Live(chat_client, chat_ledger, chat_buffer)
  BY <1>1, Zenon DEF ChatSafe, ChatLive
<1>5. Agrees(chat_client, NewLedger)
  <2>1. CASE ~ chat_buffer.committed
    BY <1>4, <2>1, Zenon DEF Live
  <2>2. CASE chat_buffer.committed
    <3>1. chat_buffer.held = <<>>
      BY <1>4, <2>2, Zenon DEF Live
    <3>2. PICK d : Meets(chat_client, chat_ledger, chat_buffer, d)
      BY <1>1, ChatMeets
    <3>3. d = chat_client
      <4>1. Path(chat_client, <<>>, d)
        BY <3>1, <3>2, Zenon DEF Meets
      <4> QED BY <4>1, PathEmpty
    <3>4. chat_client.phase = PhaseOf(chat_ledger)
      BY <3>2, <3>3, Zenon DEF Meets, Agrees
    <3>5. Writing(chat_ledger, chat_upstream)
      BY <1>1, <2>2, Zenon DEF ChatSafe, ChatLive
    <3> QED BY <1>2, <3>4, <3>5 DEF PhaseOf, Writing
  <2> QED BY <2>1, <2>2
<1>6. \A c, f : Listener(c, f).from = c /\ Listener(c, f).error = f
  BY DEF Listener
<1>7. chat_client \in Client /\ chat_buffer \in Buffer
  BY <1>4, Zenon DEF Live
<1>8. PICK u : ErrorSequence(FALSE) = u.out /\ Failed(Listener(chat_client, FALSE), Work(NewLedger), u)
  <2>1. ~ FALSE
    OBVIOUS
  <2>2. Listener(chat_client, FALSE).from = chat_client /\ ~ Listener(chat_client, FALSE).error
    BY <1>6
  <2> QED BY <1>5, <1>7, <2>2, ErrorSequenceTold
<1>9. /\ Tells(Listener(chat_client, FALSE), u) /\ u.l.stopped /\ u.out \in Seq(Event)
      /\ Confessed(Listener(chat_client, FALSE), u)
      /\ u.l.said = <<>> \/ u.l.said = EmptyObject
  <2>1. NewLedger.said = <<>> /\ Work(NewLedger).l = NewLedger
    BY NewLedgerIs, WorkIs
  <2>2. <<>> \o EmptyObject = EmptyObject
    BY DEF EmptyObject
  <2> DEFINE none == <<>>
  <2> HIDE DEF none
  <2>3. u.l.said = none \/ u.l.said = EmptyObject
    <3>1. u.l.said = NewLedger.said \/ u.l.said = NewLedger.said \o EmptyObject
      BY <1>8, <2>1, Zenon DEF Failed
    <3> QED BY <2>1, <2>2, <3>1 DEF none
  <2>4. Tells(Listener(chat_client, FALSE), u)
    BY <1>8, Zenon DEF Failed
  <2>5. u.out \in Seq(Event)
    BY <2>4, ToldFields
  <2>6. u.l.stopped /\ Confessed(Listener(chat_client, FALSE), u)
    BY <1>8, Zenon DEF Failed
  <2> QED BY <2>3, <2>4, <2>5, <2>6 DEF none
<1>10. chat_buffer' \in Buffer /\ chat_buffer'.wire = u.out
  BY <1>1, <1>3, <1>7, <1>8, <1>9 DEF Buffer
<1>11. chat_phase' \in ChatOver /\ chat_phase' \in ChatPhase /\ chat_phase' # "continued"
       /\ chat_phase' = "failed"
  BY <1>1 DEF ChatOver, ChatPhase
<1>12. Over(u)'
  BY <1>1, <1>9, <1>10, <1>11, Zenon DEF Over
<1>13. ChatEnd' /\ ChatLive' /\ ChatWhole'
  BY <1>11, <1>12, Zenon DEF ChatEnd, ChatLive, ChatWhole
<1>14. ChatFields'
  BY <1>1, <1>10, <1>11, Zenon DEF ChatSafe, ChatFields
<1> QED BY <1>13, <1>14, Zenon DEF ChatSafe
-----------------------------------------------------------------------------
(* The first event, and chunks.                                             *)



\* The ledger can be written, and nothing is waiting to be read.
Open ==
  /\ chat_buffer.wire = <<>> /\ chat_phase \notin ChatOver /\ chat_phase # "starting"

LEMMA OpenIs ==
  ASSUME ChatSafe, Open
  PROVE  /\ Live(chat_client, chat_ledger, chat_buffer) /\ Writing(chat_ledger, chat_upstream)
         /\ Speaks(Work(chat_ledger)) /\ Work(chat_ledger).l = chat_ledger
         /\ Shape(chat_ledger, chat_upstream.tools) /\ Sound(chat_ledger)
         /\ chat_ledger.said \in Seq(Nat)
         /\ \E d : Tells(Listener(d, FALSE), Work(chat_ledger))
<1>1. Live(chat_client, chat_ledger, chat_buffer) /\ Writing(chat_ledger, chat_upstream)
  BY Zenon DEF ChatSafe, ChatLive, Open
<1>2. Work(chat_ledger).l = chat_ledger
  BY WorkIs
<1>3. Speaks(Work(chat_ledger)) /\ Shape(chat_ledger, chat_upstream.tools)
  BY <1>1, <1>2, Zenon DEF Writing, Speaks, Calls
<1>4. PICK d : Meets(chat_client, chat_ledger, chat_buffer, d)
  BY Zenon, ChatMeets DEF Open
<1>5. Tells(Listener(d, FALSE), Work(chat_ledger))
  BY <1>4, Zenon DEF Meets
<1>6. Sound(chat_ledger) /\ chat_ledger \in Ledger
  BY <1>2, <1>5, ToldFields
<1> QED BY <1>1, <1>2, <1>3, <1>5, <1>6, LedgerFields

\* A message that says something of its own can be written.
LEMMA SpeechWrites ==
  ASSUME ChatSafe, Open, NEW w,
         \A c : Tells(c, Work(chat_ledger)) => Speech(c, Work(chat_ledger), w),
         NEW up, up.tools = chat_upstream.tools, up.args = chat_upstream.args
  PROVE  Writes(w, up) /\ (HasToolBlock(chat_ledger) => HasToolBlock(w.l))
<1>1. /\ Writing(chat_ledger, chat_upstream) /\ Work(chat_ledger).l = chat_ledger
      /\ Shape(chat_ledger, chat_upstream.tools) /\ Sound(chat_ledger)
      /\ \E d : Tells(Listener(d, FALSE), Work(chat_ledger))
  BY OpenIs
<1>2. Says(w)
  BY Zenon DEF Says, Speech
<1>3. Speaks(w) /\ Content(chat_ledger, w.l)
  BY <1>1, Zenon DEF Speech
<1>4. Calls(w.l, up.tools, up.args)
  <2>1. /\ Shape(w.l, chat_upstream.tools)
        /\ \A t \in 1 .. chat_upstream.tools : \A a : CallOf(chat_ledger, t, a) => CallOf(w.l, t, a)
    BY <1>1, <1>3, CallsContent
  <2> QED BY <1>1, <2>1, Zenon DEF Calls, Writing
<1>5. Writing(w.l, up)
  BY <1>1, <1>3, <1>4, Zenon DEF Writing, Speaks
<1> QED BY <1>2, <1>3, <1>5, ContentHas DEF Writes

LEMMA SaySpeech ==
  ASSUME NEW c, NEW w, Tells(c, w), Speaks(w), NEW data \in Seq(Nat)
  PROVE  Speech(c, w, Say(w, data)) /\ Say(w, data).l.said = w.l.said \o data
BY SayTold, Zenon DEF Speech

LEMMA ThinkSpeech ==
  ASSUME NEW c, NEW w, Tells(c, w), Speaks(w), NEW data \in Seq(Nat)
  PROVE  Speech(c, w, Think(w, data)) /\ Think(w, data).l.said = w.l.said
BY ThinkTold, Zenon DEF Speech

LEMMA HeuristicSpeech ==
  ASSUME NEW c, NEW w, Tells(c, w), Speaks(w)
  PROVE  /\ Speech(c, w, HeuristicTool(w)) /\ HeuristicTool(w).l.said = w.l.said
         /\ HasToolBlock(HeuristicTool(w).l)
BY HeuristicToolTold, Zenon DEF Speech

LEMMA SelfSpeech ==
  ASSUME NEW c, NEW w, Tells(c, w), Speaks(w)
  PROVE  Speech(c, w, w)
BY ContentSelf, Zenon DEF Speech

LEMMA SpeechTwice ==
  ASSUME NEW c, NEW w, NEW u, NEW v, Speech(c, w, u), Speech(c, u, v)
  PROVE  Speech(c, w, v)
BY ContentTwice, Zenon DEF Speech

\* message_start is the first event.
LEMMA StartsSafe ==
  ASSUME ChatSafe, ChatStarts
  PROVE  ChatSafe' /\ chat_ledger'.said = chat_ledger.said
<1> DEFINE w == MessageStart(Work(chat_ledger))
<1>1. /\ chat_buffer.wire = <<>> /\ chat_phase = "starting" /\ chat_ledger' = w.l
      /\ chat_buffer' \in Push(chat_buffer, w.out) /\ chat_phase' = "opening"
      /\ chat_retries' = chat_retries /\ chat_parser' = chat_parser
      /\ chat_upstream' = chat_upstream /\ chat_client' = chat_client
  BY DEF ChatStarts, Ready
<1>2. chat_phase \notin ChatOver
  BY <1>1 DEF ChatOver
<1>3. /\ Live(chat_client, chat_ledger, chat_buffer) /\ chat_ledger = NewLedger
      /\ chat_upstream = FreshUpstream
  BY <1>1, <1>2, Zenon DEF ChatSafe, ChatLive
<1>4. PICK d : Meets(chat_client, chat_ledger, chat_buffer, d)
  BY <1>1, <1>2, ChatMeets
<1>5. /\ Tells(Listener(d, FALSE), w) /\ Speaks(w) /\ Same(NewLedger, w.l)
  <2> DEFINE v == Work(chat_ledger)
  <2>1. Tells(Listener(d, FALSE), v) /\ v.l = NewLedger
    BY <1>3, <1>4, WorkIs DEF Meets
  <2> HIDE DEF v
  <2>2. ~ v.l.started /\ ~ v.l.stopped
    BY <2>1, NewLedgerIs
  <2>3. Tells(Listener(d, FALSE), MessageStart(v)) /\ Speaks(MessageStart(v))
        /\ Same(v.l, MessageStart(v).l)
    BY <2>1, <2>2, MessageStartTold, Zenon
  <2> QED BY <2>1, <2>3, Zenon DEF v
<1> HIDE DEF w
<1>6. Live(chat_client, w.l, chat_buffer')
  BY <1>1, <1>3, <1>4, <1>5, PushedLive
<1>7. Writing(w.l, chat_upstream')
  <2>1. FreshUpstream.tools = 0 /\ \A t \in ChatTools : FreshUpstream.args[t] = 0
    BY DEF FreshUpstream
  <2>2. DOMAIN w.l.tools = {} /\ Range(w.l.stack) = {}
    BY <1>5, NewLedgerIs DEF Same
  <2>3. Rest(w.l) = {}
    BY <2>2 DEF Rest
  <2>4. Shape(w.l, 0)
    <3>1. 1 .. 0 = {} /\ 0 \in Nat
      OBVIOUS
    <3> QED BY <2>2, <2>3, <3>1 DEF Shape
  <2>5. Calls(w.l, 0, FreshUpstream.args)
    <3>1. 1 .. 0 = {}
      OBVIOUS
    <3> QED BY <2>4, <3>1 DEF Calls
  <2> QED BY <1>1, <1>3, <1>5, <2>1, <2>5, Zenon DEF Writing, Speaks
<1>8. /\ chat_phase' \notin ChatOver /\ chat_phase' # "starting" /\ chat_phase' # "recovering"
      /\ chat_phase' # "continued" /\ chat_phase' \in ChatPhase
  BY <1>1 DEF ChatOver, ChatPhase
<1>9. ChatLive' /\ ChatEnd' /\ ChatWhole'
  BY <1>1, <1>6, <1>7, <1>8, Zenon DEF ChatLive, ChatEnd, ChatWhole
<1>10. ChatFields'
  <2>1. w.l \in Ledger /\ chat_buffer' \in Buffer
    BY <1>5, <1>6, ToldFields DEF Live
  <2> QED BY <1>1, <1>8, <2>1, Zenon DEF ChatFields, ChatSafe
<1> QED BY <1>1, <1>3, <1>5, <1>9, <1>10, Zenon DEF ChatSafe, Same

\* The stream is open, or its finish_reason came.
LEMMA OpensSafe ==
  ASSUME ChatSafe, ChatOpens \/ ChatFinishes
  PROVE  ChatSafe' /\ chat_ledger' = chat_ledger
<1>1. /\ chat_ledger' = chat_ledger /\ chat_buffer' = chat_buffer /\ chat_retries' = chat_retries
      /\ chat_parser' = chat_parser /\ chat_client' = chat_client
      /\ chat_phase \in {"opening", "streaming"} /\ chat_phase' = "streaming"
      /\ chat_upstream' \in {chat_upstream, [chat_upstream EXCEPT !.finished = TRUE]}
  BY DEF ChatOpens, ChatFinishes, Ready
<1>2. /\ chat_phase \notin ChatOver /\ chat_phase # "starting" /\ chat_phase' \notin ChatOver
      /\ chat_phase' # "starting" /\ chat_phase' # "recovering" /\ chat_phase' # "continued"
      /\ chat_phase' \in ChatPhase
  BY <1>1 DEF ChatOver, ChatPhase
<1>3. Live(chat_client, chat_ledger, chat_buffer) /\ Writing(chat_ledger, chat_upstream)
  BY <1>2, Zenon DEF ChatSafe, ChatLive
<1>4. chat_upstream \in UpstreamRecord
  BY Zenon DEF ChatSafe, ChatFields
<1>5. /\ chat_upstream' \in UpstreamRecord /\ chat_upstream'.tools = chat_upstream.tools
      /\ chat_upstream'.args = chat_upstream.args
  BY <1>1, <1>4 DEF UpstreamRecord
<1>6. Writing(chat_ledger, chat_upstream')
  BY <1>3, <1>5, Zenon DEF Writing
<1>7. ChatLive' /\ ChatEnd' /\ ChatWhole'
  BY <1>1, <1>2, <1>3, <1>6, Zenon DEF ChatLive, ChatEnd, ChatWhole
<1>8. ChatFields'
  BY <1>1, <1>2, <1>5, Zenon DEF ChatFields, ChatSafe
<1> QED BY <1>1, <1>7, <1>8, Zenon DEF ChatSafe
-----------------------------------------------------------------------------
(* Chunks of text and of thinking.                                          *)

LEMMA HandleOpen ==
  ASSUME NEW w, NEW up, NEW parser, Handle(w, up, parser)
  PROVE  Open /\ chat_ledger' = w.l /\ chat_parser' = parser
         /\ chat_upstream' = [up EXCEPT !.chunks = @ + 1]
<1>1. chat_phase = "streaming" /\ chat_buffer.wire = <<>>
  BY DEF Handle, Ready
<1>2. chat_phase \notin ChatOver /\ chat_phase # "starting"
  BY <1>1 DEF ChatOver
<1>3. Open
  BY <1>1, <1>2, Zenon DEF Open
<1>4. /\ chat_ledger' = w.l /\ chat_parser' = parser
      /\ chat_upstream' = [up EXCEPT !.chunks = @ + 1]
  BY DEF Handle
<1> QED BY <1>3, <1>4

LEMMA ReasoningSafe ==
  ASSUME ChatSafe, ChatReasoning
  PROVE  /\ ChatSafe' /\ chat_ledger'.said = chat_ledger.said
         /\ HasToolBlock(chat_ledger) => HasToolBlock(chat_ledger')
<1> DEFINE n == chat_upstream.thinking + 1
           data == <<n>>
           w == Think(Work(chat_ledger), data)
           up == [chat_upstream EXCEPT !.thinking = n]
<1>1. Handle(w, up, chat_parser)
  BY DEF ChatReasoning
<1>2. chat_upstream \in UpstreamRecord /\ chat_parser \in ParserRecord
  BY Zenon DEF ChatSafe, ChatFields
<1>3. n \in Nat /\ data \in Seq(Nat)
  BY <1>2, UpstreamIs
<1>4. /\ up \in UpstreamRecord /\ up.tools = chat_upstream.tools /\ up.args = chat_upstream.args
      /\ up.chunks = chat_upstream.chunks
  <2> HIDE DEF n
  <2> QED BY <1>2, <1>3 DEF UpstreamRecord
<1> HIDE DEF n, data, up
<1>5. Open /\ chat_ledger' = w.l
  BY <1>1, HandleOpen
<1>6. Speaks(Work(chat_ledger)) /\ Work(chat_ledger).l = chat_ledger
      /\ \E d : Tells(Listener(d, FALSE), Work(chat_ledger))
  BY <1>5, OpenIs
<1>7. \A c : Tells(c, Work(chat_ledger)) =>
        Speech(c, Work(chat_ledger), w) /\ w.l.said = chat_ledger.said
  BY <1>3, <1>6, ThinkSpeech
<1> HIDE DEF w
<1>8. Writes(w, up) /\ (HasToolBlock(chat_ledger) => HasToolBlock(w.l))
  BY <1>4, <1>5, <1>7, SpeechWrites
<1>9. ChatSafe'
  BY <1>1, <1>2, <1>4, <1>8, HandleSafe
<1> QED BY <1>5, <1>6, <1>7, <1>8, <1>9

LEMMA TagSafe ==
  ASSUME ChatSafe, ChatTag
  PROVE  ChatSafe' /\ chat_ledger' = chat_ledger
<1> DEFINE w == Work(chat_ledger)
           parser == [chat_parser EXCEPT !.in_think = ~ @]
<1>1. Handle(w, chat_upstream, parser)
  BY DEF ChatTag
<1>2. chat_upstream \in UpstreamRecord /\ chat_parser \in ParserRecord
  BY Zenon DEF ChatSafe, ChatFields
<1>3. parser \in ParserRecord
  BY <1>2 DEF ParserRecord
<1>4. Open /\ chat_ledger' = w.l
  BY <1>1, HandleOpen
<1>5. w.l = chat_ledger /\ Speaks(w)
  BY <1>4, OpenIs
<1>6. \A c : Tells(c, w) => Speech(c, w, w)
  BY <1>5, SelfSpeech
<1>7. Writes(w, chat_upstream)
  BY <1>4, <1>6, SpeechWrites
<1> HIDE DEF w, parser
<1>8. ChatSafe'
  BY <1>1, <1>2, <1>3, <1>7, HandleSafe
<1> QED BY <1>4, <1>5, <1>8

\* What comes out of HeuristicToolParser is said, and the tool it completed added.
LEMMA FedWrites ==
  ASSUME ChatSafe, Open, NEW f, f.say \in Seq(Nat),
         NEW up, up.tools = chat_upstream.tools, up.args = chat_upstream.args
  PROVE  /\ Writes(SayFed(f), up) /\ SayFed(f).l.said = chat_ledger.said \o f.say
         /\ HasToolBlock(chat_ledger) \/ f.tool => HasToolBlock(SayFed(f).l)
<1> DEFINE v == Work(chat_ledger)
           w == Say(v, f.say)
           u == SayFed(f)
<1>1. u = IF f.tool THEN HeuristicTool(w) ELSE w
  BY DEF SayFed
<1>2. /\ Speaks(v) /\ v.l = chat_ledger /\ \E d : Tells(Listener(d, FALSE), v)
  BY OpenIs
<1> HIDE DEF v
<1>3. \A c : Tells(c, v) => Speech(c, v, w) /\ w.l.said = chat_ledger.said \o f.say
  BY <1>2, SaySpeech
<1> HIDE DEF w, u
<1>4. ASSUME NEW c, Tells(c, v)
      PROVE  /\ Speech(c, v, u) /\ u.l.said = chat_ledger.said \o f.say
             /\ f.tool => HasToolBlock(u.l)
  <2>1. Speech(c, v, w) /\ w.l.said = chat_ledger.said \o f.say
    BY <1>3, <1>4
  <2>2. CASE f.tool
    <3>1. u = HeuristicTool(w)
      BY <1>1, <2>2
    <3>2. Tells(c, w) /\ Speaks(w)
      BY <2>1, Zenon DEF Speech
    <3>3. Speech(c, w, u) /\ u.l.said = w.l.said /\ HasToolBlock(u.l)
      BY <3>1, <3>2, HeuristicSpeech, Zenon
    <3> QED BY <2>1, <3>3, SpeechTwice, Zenon
  <2>3. CASE ~ f.tool
    <3>1. u = w
      BY <1>1, <2>3
    <3> QED BY <2>1, <2>3, <3>1
  <2> QED BY <2>2, <2>3
<1>5. Writes(u, up) /\ (HasToolBlock(chat_ledger) => HasToolBlock(u.l))
  <2>1. \A c : Tells(c, Work(chat_ledger)) => Speech(c, Work(chat_ledger), u)
    BY <1>4 DEF v
  <2> QED BY <2>1, SpeechWrites
<1>6. u.l.said = chat_ledger.said \o f.say /\ (f.tool => HasToolBlock(u.l))
  BY <1>2, <1>4, Zenon
<1> QED BY <1>5, <1>6, Zenon DEF u

LEMMA FunctionSafe ==
  ASSUME ChatSafe, ChatFunction
  PROVE  /\ ChatSafe' /\ chat_ledger'.said = chat_ledger.said
         /\ HasToolBlock(chat_ledger) => HasToolBlock(chat_ledger')
<1> DEFINE tool == chat_parser.state = "parsing"
           f == [say |-> <<>>, tool |-> tool]
           w == SayFed(f)
           parser == [chat_parser EXCEPT !.state = "parsing", !.held = <<>>]
<1>1. Handle(w, chat_upstream, parser)
  BY DEF ChatFunction
<1>2. chat_upstream \in UpstreamRecord /\ chat_parser \in ParserRecord
  BY Zenon DEF ChatSafe, ChatFields
<1>3. parser \in ParserRecord
  <2>1. <<>> \in Seq(Nat)
    OBVIOUS
  <2> QED BY <1>2, <2>1 DEF ParserRecord
<1>4. f.say = <<>> /\ f.say \in Seq(Nat)
  BY NothingIs
<1> HIDE DEF tool, f, parser
<1>5. Open /\ chat_ledger' = w.l
  BY <1>1, HandleOpen
<1>6. /\ Writes(w, chat_upstream) /\ w.l.said = chat_ledger.said \o f.say
      /\ HasToolBlock(chat_ledger) => HasToolBlock(w.l)
  BY <1>4, <1>5, FedWrites
<1> HIDE DEF w
<1>7. ChatSafe'
  BY <1>1, <1>2, <1>3, <1>6, HandleSafe
<1>8. chat_ledger.said \o f.say = chat_ledger.said
  BY <1>4, <1>5, OpenIs, ConcatEmptySeq
<1> QED BY <1>5, <1>6, <1>7, <1>8

Cat(s, t) == s \o t

\* What HeuristicToolParser.feed makes of a text: nothing is lost between what it says
\* and what it holds.
Fed(p, text, bullet, f) ==
  /\ f.say \in Seq(Nat) /\ f.parser \in ParserRecord
  /\ f.parser.tag = p.tag /\ f.parser.in_think = p.in_think
  /\ text = <<>> => f.parser = p /\ f.say = <<>>
  /\ text # <<>> => (p.state = "parsing" => f.tool)
  /\ (p.state # "matching" => p.held = <<>>) =>
       /\ Cat(f.say, f.parser.held) = Cat(p.held, text)
       /\ f.parser.state # "matching" => f.parser.held = <<>>
  /\ ~ bullet /\ p.state # "matching" => f.parser.state # "matching"

LEMMA FeedIs ==
  ASSUME NEW p \in ParserRecord, NEW text \in Seq(Nat), NEW bullet \in BOOLEAN,
         NEW f \in Feed(p, text, bullet)
  PROVE  Fed(p, text, bullet, f)
<1> SUFFICES /\ f.say \in Seq(Nat) /\ f.parser \in ParserRecord
             /\ f.parser.tag = p.tag /\ f.parser.in_think = p.in_think
             /\ text = <<>> => f.parser = p /\ f.say = <<>>
             /\ text # <<>> => (p.state = "parsing" => f.tool)
             /\ (p.state # "matching" => p.held = <<>>) =>
                  /\ f.say \o f.parser.held = p.held \o text
                  /\ f.parser.state # "matching" => f.parser.held = <<>>
             /\ ~ bullet /\ p.state # "matching" => f.parser.state # "matching"
  BY DEF Fed, Cat
<1> DEFINE none == <<>>
           first == [say |-> none, parser |-> p, tool |-> FALSE]
           kept == [say |-> none, parser |-> [p EXCEPT !.held = p.held \o text], tool |-> FALSE]
           free == Released(p, p.held \o text)
           next == [say |-> p.held, parser |-> [p EXCEPT !.held = text], tool |-> FALSE]
           new == [say |-> none, parser |-> [p EXCEPT !.state = "matching", !.held = text],
                   tool |-> p.state = "parsing"]
           past == Released(p, text)
<1>1. p.held \in Seq(Nat) /\ p.held \o text \in Seq(Nat) /\ none \in Seq(Nat)
      /\ p.state \in {"text", "matching", "parsing"} /\ none \o text = text
      /\ none \o (p.held \o text) = p.held \o text /\ (p.held \o text) \o none = p.held \o text
      /\ text \o none = text /\ none \o none = none
  BY DEF ParserRecord
<1>2. \/ text = <<>> /\ f = first
      \/ text # <<>> /\ p.state = "matching" /\ (f = kept \/ f = free \/ f = next)
      \/ text # <<>> /\ p.state # "matching" /\ (f = past \/ (bullet /\ f = new))
  BY DEF Feed
<1> DEFINE more == p.held \o text
<1>3. CASE text = <<>> /\ f = first
  <2>1. f.say = none /\ f.parser = p
    BY <1>3
  <2>2. none \o p.held = p.held /\ p.held \o text = p.held
    BY <1>1, <1>3
  <2> HIDE DEF none
  <2> QED BY <1>1, <1>3, <2>1, <2>2 DEF none
<1>4. CASE text # <<>> /\ p.state = "matching" /\ f = kept
  <2> HIDE DEF more
  <2>1. f.say = none /\ f.parser = [p EXCEPT !.held = more]
    BY <1>4 DEF more
  <2>2. more \in Seq(Nat) /\ none \o more = more
    BY <1>1 DEF more
  <2> HIDE DEF none
  <2>3. f.parser \in ParserRecord /\ f.parser.held = more /\ f.parser.tag = p.tag
        /\ f.parser.in_think = p.in_think /\ f.parser.state = p.state
    BY <2>1, <2>2 DEF ParserRecord
  <2> QED BY <1>1, <1>4, <2>1, <2>2, <2>3 DEF more
<1>5. CASE text # <<>> /\ p.state = "matching" /\ f = free
  <2> HIDE DEF more
  <2>1. f.say = more /\ f.parser = [p EXCEPT !.state = "text", !.held = none]
    BY <1>5 DEF more, Released
  <2>2. more \in Seq(Nat) /\ more \o none = more
    BY <1>1 DEF more
  <2>3. f.parser \in ParserRecord /\ f.parser.held = none /\ f.parser.tag = p.tag
        /\ f.parser.in_think = p.in_think /\ f.parser.state = "text"
    <3> HIDE DEF none
    <3> QED BY <1>1, <2>1 DEF ParserRecord
  <2> QED BY <1>5, <2>1, <2>2, <2>3 DEF more
<1>6. CASE text # <<>> /\ p.state = "matching" /\ f = next
  <2>1. f.say = p.held /\ f.parser = [p EXCEPT !.held = text]
    BY <1>6
  <2>2. f.parser \in ParserRecord /\ f.parser.held = text /\ f.parser.tag = p.tag
        /\ f.parser.in_think = p.in_think /\ f.parser.state = p.state
    BY <2>1 DEF ParserRecord
  <2> QED BY <1>1, <1>6, <2>1, <2>2
<1>7. CASE text # <<>> /\ p.state # "matching" /\ f = past
  <2>1. f.say = text /\ f.parser = [p EXCEPT !.state = "text", !.held = none]
        /\ f.tool = (p.state = "parsing")
    BY <1>7 DEF Released
  <2>2. f.parser \in ParserRecord /\ f.parser.held = none /\ f.parser.tag = p.tag
        /\ f.parser.in_think = p.in_think /\ f.parser.state = "text"
    <3> HIDE DEF none
    <3> QED BY <1>1, <2>1 DEF ParserRecord
  <2>3. f.say \o f.parser.held = text
    BY <1>1, <2>1, <2>2
  <2>4. p.held = <<>> => p.held \o text = text
    BY <1>1
  <2> HIDE DEF none
  <2>5. (p.state # "matching" => p.held = <<>>) => f.say \o f.parser.held = p.held \o text
    BY <1>7, <2>3, <2>4, Zenon
  <2>6. f.say \in Seq(Nat) /\ f.parser.held = <<>> /\ f.parser.state # "matching"
        /\ f.parser.state # "parsing"
    BY <2>1, <2>2 DEF none
  <2> QED BY <1>7, <2>1, <2>2, <2>5, <2>6, Zenon
<1>8. CASE text # <<>> /\ p.state # "matching" /\ bullet /\ f = new
  <2>1. f.say = none /\ f.parser = [p EXCEPT !.state = "matching", !.held = text]
        /\ f.tool = (p.state = "parsing")
    BY <1>8
  <2>2. f.parser \in ParserRecord /\ f.parser.held = text /\ f.parser.tag = p.tag
        /\ f.parser.in_think = p.in_think /\ f.parser.state = "matching"
    BY <2>1 DEF ParserRecord
  <2> QED BY <1>1, <1>8, <2>1, <2>2
<1> QED BY <1>2, <1>3, <1>4, <1>5, <1>6, <1>7, <1>8
\* A piece of content: the text it lets through, and the one kept as a tag's beginning.
Through(p, n, partial) == IF partial THEN p.tag ELSE Append(p.tag, n)
Retagged(p, n, partial) == [p EXCEPT !.tag = IF partial THEN <<n>> ELSE <<>>]

LEMMA ThroughIs ==
  ASSUME NEW p \in ParserRecord, NEW n \in Nat, NEW partial \in BOOLEAN
  PROVE  /\ Through(p, n, partial) \in Seq(Nat) /\ Retagged(p, n, partial) \in ParserRecord
         /\ Retagged(p, n, partial).held = p.held /\ Retagged(p, n, partial).state = p.state
         /\ Retagged(p, n, partial).in_think = p.in_think
         /\ Retagged(p, n, partial).tag = (IF partial THEN <<n>> ELSE <<>>)
         /\ Through(p, n, partial) \o Retagged(p, n, partial).tag = Append(p.tag, n)
<1>1. p.tag \in Seq(Nat)
  BY DEF ParserRecord
<1> DEFINE tag == IF partial THEN <<n>> ELSE <<>>
<1>2. tag \in Seq(Nat) /\ Through(p, n, partial) \in Seq(Nat)
      /\ Through(p, n, partial) \o tag = Append(p.tag, n)
  BY <1>1 DEF Through
<1>3. Retagged(p, n, partial) = [p EXCEPT !.tag = tag]
  BY DEF Retagged
<1>4. tag = IF partial THEN <<n>> ELSE <<>>
  OBVIOUS
<1> HIDE DEF tag
<1>5. /\ Retagged(p, n, partial) \in ParserRecord /\ Retagged(p, n, partial).held = p.held
      /\ Retagged(p, n, partial).state = p.state
      /\ Retagged(p, n, partial).in_think = p.in_think /\ Retagged(p, n, partial).tag = tag
  BY <1>2, <1>3 DEF ParserRecord
<1> QED BY <1>2, <1>4, <1>5, Zenon

\* What a piece of the answer did: of thinking, or of text.
Thought(partial) ==
  /\ chat_parser.in_think /\ chat_ledger'.said = chat_ledger.said
  /\ \E n \in Nat : chat_parser' = Retagged(chat_parser, n, partial)
  /\ chat_upstream'.text = chat_upstream.text /\ chat_upstream'.bullets = chat_upstream.bullets
Answered(bullet, partial) ==
  /\ ~ chat_parser.in_think
  /\ chat_upstream'.text = chat_upstream.text + 1
  /\ chat_upstream'.bullets = (chat_upstream.bullets \/ bullet)
  /\ \E f \in Feed(Retagged(chat_parser, chat_upstream.text + 1, partial),
                   Through(chat_parser, chat_upstream.text + 1, partial), bullet) :
       /\ chat_ledger'.said = chat_ledger.said \o f.say /\ chat_parser' = f.parser
       /\ f.tool => HasToolBlock(chat_ledger')

LEMMA ContentSafe ==
  ASSUME ChatSafe, NEW bullet \in BOOLEAN, NEW partial \in BOOLEAN, ChatContent(bullet, partial)
  PROVE  /\ ChatSafe' /\ (HasToolBlock(chat_ledger) => HasToolBlock(chat_ledger'))
         /\ Thought(partial) \/ Answered(bullet, partial)
<1>1. chat_upstream \in UpstreamRecord /\ chat_parser \in ParserRecord
  BY Zenon DEF ChatSafe, ChatFields
<1>2. chat_upstream.text + 1 \in Nat /\ chat_upstream.thinking + 1 \in Nat
  BY <1>1, UpstreamIs
<1>3. CASE chat_parser.in_think
  <2> DEFINE n == chat_upstream.thinking + 1
             part == Through(chat_parser, n, partial)
             w == Think(Work(chat_ledger), part)
             up == [chat_upstream EXCEPT !.thinking = n]
             q == Retagged(chat_parser, n, partial)
  <2>1. Handle(w, up, q)
    BY <1>3 DEF ChatContent, Through, Retagged
  <2>2. part \in Seq(Nat) /\ q \in ParserRecord
    BY <1>1, <1>2, ThroughIs
  <2>3. n \in Nat
    BY <1>2
  <2> HIDE DEF n
  <2>4. /\ up \in UpstreamRecord /\ up.tools = chat_upstream.tools /\ up.args = chat_upstream.args
        /\ up.chunks = chat_upstream.chunks /\ up.text = chat_upstream.text
        /\ up.bullets = chat_upstream.bullets
    BY <1>1, <2>3 DEF UpstreamRecord
  <2> HIDE DEF part, up
  <2>5. Open /\ chat_ledger' = w.l /\ chat_parser' = q
        /\ chat_upstream' = [up EXCEPT !.chunks = @ + 1]
    BY <2>1, HandleOpen
  <2>6. Speaks(Work(chat_ledger)) /\ Work(chat_ledger).l = chat_ledger
        /\ \E d : Tells(Listener(d, FALSE), Work(chat_ledger))
    BY <2>5, OpenIs
  <2>7. \A c : Tells(c, Work(chat_ledger)) =>
          Speech(c, Work(chat_ledger), w) /\ w.l.said = chat_ledger.said
    BY <2>2, <2>6, ThinkSpeech
  <2> HIDE DEF w
  <2>8. Writes(w, up) /\ (HasToolBlock(chat_ledger) => HasToolBlock(w.l))
    BY <2>4, <2>5, <2>7, SpeechWrites
  <2> HIDE DEF q
  <2>9. ChatSafe'
    BY <2>1, <2>2, <2>4, <2>8, HandleSafe
  <2>10. chat_upstream'.text = up.text /\ chat_upstream'.bullets = up.bullets
    BY <2>4, <2>5 DEF UpstreamRecord
  <2>11. \E k \in Nat : chat_parser' = Retagged(chat_parser, k, partial)
    BY <2>3, <2>5 DEF q
  <2>12. Thought(partial)
    BY <1>3, <2>4, <2>5, <2>6, <2>7, <2>10, <2>11, Zenon DEF Thought
  <2> QED BY <2>5, <2>8, <2>9, <2>12, Zenon
<1>4. CASE ~ chat_parser.in_think
  <2> DEFINE n == chat_upstream.text + 1
             part == Through(chat_parser, n, partial)
             up == [chat_upstream EXCEPT !.text = n, !.bullets = @ \/ bullet]
             q == Retagged(chat_parser, n, partial)
  <2>1. PICK f \in Feed(q, part, bullet) : Handle(SayFed(f), up, f.parser)
    BY <1>4 DEF ChatContent, Through, Retagged
  <2>2. part \in Seq(Nat) /\ q \in ParserRecord
    BY <1>1, <1>2, ThroughIs
  <2>3. n \in Nat /\ (chat_upstream.bullets \/ bullet) \in BOOLEAN
    BY <1>2
  <2>4. n = chat_upstream.text + 1
    OBVIOUS
  <2> HIDE DEF n
  <2>5. /\ up \in UpstreamRecord /\ up.tools = chat_upstream.tools /\ up.args = chat_upstream.args
        /\ up.chunks = chat_upstream.chunks /\ up.text = n
        /\ up.bullets = (chat_upstream.bullets \/ bullet)
    BY <1>1, <2>3 DEF UpstreamRecord
  <2> HIDE DEF part, up, q
  <2>6. f.say \in Seq(Nat) /\ f.parser \in ParserRecord
    BY <2>1, <2>2, FeedIs, Zenon DEF Fed
  <2>7. Open /\ chat_ledger' = SayFed(f).l /\ chat_parser' = f.parser
        /\ chat_upstream' = [up EXCEPT !.chunks = @ + 1]
    BY <2>1, HandleOpen
  <2>8. /\ Writes(SayFed(f), up) /\ SayFed(f).l.said = chat_ledger.said \o f.say
        /\ HasToolBlock(chat_ledger) \/ f.tool => HasToolBlock(SayFed(f).l)
    BY <2>5, <2>6, <2>7, FedWrites
  <2>9. ChatSafe'
    BY <2>1, <2>5, <2>6, <2>8, HandleSafe
  <2>10. chat_upstream'.text = up.text /\ chat_upstream'.bullets = up.bullets
    BY <2>5, <2>7 DEF UpstreamRecord
  <2>11. Answered(bullet, partial)
    <3>1. /\ chat_ledger'.said = chat_ledger.said \o f.say /\ chat_parser' = f.parser
          /\ f.tool => HasToolBlock(chat_ledger')
      BY <2>7, <2>8, Zenon
    <3>2. f \in Feed(Retagged(chat_parser, n, partial), Through(chat_parser, n, partial), bullet)
      BY <2>1 DEF part, q
    <3>3. f \in Feed(Retagged(chat_parser, chat_upstream.text + 1, partial),
                     Through(chat_parser, chat_upstream.text + 1, partial), bullet)
      BY <2>4, <3>2
    <3> QED BY <1>4, <2>4, <2>5, <2>10, <3>1, <3>3, Zenon DEF Answered
  <2> QED BY <2>7, <2>8, <2>9, <2>11, Zenon
<1> QED BY <1>3, <1>4
-----------------------------------------------------------------------------
(* Chunks of tool calls.                                                    *)

LEMMA MoreIs ==
  ASSUME NEW a \in 0 .. 2, NEW fragment \in BOOLEAN, fragment => a < 2
  PROVE  More(IF fragment THEN <<a + 1>> ELSE <<>>, a, IF fragment THEN a + 1 ELSE a)
<1>1. Part(a) \in Seq(Nat) /\ (a < 2 => Part(a) \o <<a + 1>> = Part(a + 1))
  BY PartIs
<1>2. CASE fragment
  <2> DEFINE more == <<a + 1>>
  <2>1. more \in Seq(Nat) /\ more # <<>> /\ Part(a) \o more = Part(a + 1) /\ a # a + 1
        /\ a <= a + 1 /\ a + 1 \in 0 .. 2
    BY <1>1, <1>2
  <2> HIDE DEF more
  <2>2. More(more, a, a + 1)
    BY <2>1, Zenon DEF More
  <2> QED BY <1>2, <2>2 DEF more
<1>3. CASE ~ fragment
  <2> DEFINE none == <<>>
  <2>1. none \in Seq(Nat) /\ Part(a) \o none = Part(a) /\ a <= a
    BY <1>1
  <2> HIDE DEF none
  <2>2. More(none, a, a)
    BY <2>1 DEF More, none
  <2> QED BY <1>3, <2>2 DEF none
<1> QED BY <1>2, <1>3

LEMMA ToolCallSafe ==
  ASSUME ChatSafe, NEW t \in ChatTools, NEW name \in CallName, NEW fragment \in BOOLEAN,
         ChatToolCall(t, name, fragment)
  PROVE  ChatSafe' /\ chat_ledger'.said = chat_ledger.said
         /\ (HasToolBlock(chat_ledger) => HasToolBlock(chat_ledger'))
         /\ chat_parser' = chat_parser /\ chat_upstream'.text = chat_upstream.text
         /\ chat_upstream'.bullets = chat_upstream.bullets
<1> DEFINE v == CloseContent(Work(chat_ledger))
           n == chat_upstream.tools
           m == IF t > n THEN t ELSE n
           a == chat_upstream.args[t]
           b == IF fragment THEN a + 1 ELSE a
           args == IF fragment THEN <<a + 1>> ELSE <<>>
           w == ProcessToolCall(v, t, name, args)
           up == [chat_upstream EXCEPT !.tools = m, !.args = [chat_upstream.args EXCEPT ![t] = b]]
           sent == [chat_upstream EXCEPT !.tools = IF t > @ THEN t ELSE @,
                                         !.args[t] = IF fragment THEN @ + 1 ELSE @]
<1>2. /\ t <= n + 1 /\ (Started(chat_ledger, t) => Nameless(name))
      /\ (fragment => a < Len(Whole)) /\ Handle(w, sent, chat_parser)
  BY Zenon DEF ChatToolCall, Nameless
<1>3. chat_upstream \in UpstreamRecord /\ chat_parser \in ParserRecord
  BY Zenon DEF ChatSafe, ChatFields
<1>1. Handle(w, up, chat_parser)
  <2>1. sent = up
    BY <1>3 DEF UpstreamRecord
  <2> HIDE DEF sent, up, w
  <2> QED BY <1>2, <2>1
<1>4. /\ n \in 0 .. ChatCalls /\ t \in 1 .. ChatCalls /\ ChatCalls \in Nat /\ a \in 0 .. 2
      /\ chat_upstream.args \in [ChatTools -> 0 .. 2]
  BY <1>3, UpstreamIs, ChatAssumption DEF ChatTools
<1>5. Len(Whole) = 2
  BY DEF Whole
<1>6. More(args, a, b)
  <2>1. fragment => a < 2
    BY <1>2, <1>5
  <2> HIDE DEF a
  <2> QED BY <1>4, <2>1, MoreIs
<1>7. b \in 0 .. 2 /\ m \in 0 .. ChatCalls /\ m = (IF t > n THEN t ELSE n) /\ t \in 1 .. n + 1
  <2>1. b \in 0 .. 2
    BY <1>6 DEF More
  <2> QED BY <1>2, <1>4, <2>1
<1> HIDE DEF n, a, b, args, m
<1>8. /\ up \in UpstreamRecord /\ up.chunks = chat_upstream.chunks /\ up.tools = m
      /\ up.args = [chat_upstream.args EXCEPT ![t] = b] /\ up.text = chat_upstream.text
      /\ up.bullets = chat_upstream.bullets
  <2> DEFINE args2 == [chat_upstream.args EXCEPT ![t] = b]
  <2>1. args2 \in [ChatTools -> 0 .. 2]
    BY <1>4, <1>7
  <2> HIDE DEF args2
  <2> QED BY <1>3, <1>7, <2>1 DEF UpstreamRecord
<1> HIDE DEF up
<1>9. Open /\ chat_ledger' = w.l /\ chat_parser' = chat_parser
      /\ chat_upstream' = [up EXCEPT !.chunks = @ + 1]
  BY <1>1, HandleOpen
<1>10. /\ Writing(chat_ledger, chat_upstream) /\ Speaks(Work(chat_ledger))
       /\ Work(chat_ledger).l = chat_ledger /\ Shape(chat_ledger, n) /\ Sound(chat_ledger)
       /\ \E d : Tells(Listener(d, FALSE), Work(chat_ledger))
  BY <1>9, OpenIs DEF n
<1>11. /\ \A x \in 1 .. n : CallOf(chat_ledger, x, chat_upstream.args[x])
       /\ \A x \in ChatTools : x > n => chat_upstream.args[x] = 0
  BY <1>10, Zenon DEF Writing, Calls, n
<1>12. ASSUME NEW c, Tells(c, Work(chat_ledger))
       PROVE  /\ Called(c, v, w, n, m, t) /\ CallOf(w.l, t, b) /\ t \in 1 .. m
              /\ Content(chat_ledger, v.l) /\ v.l.said = chat_ledger.said /\ Sound(v.l)
  <2>1. /\ Tells(c, v) /\ Speaks(v) /\ Content(chat_ledger, v.l) /\ v.l.said = chat_ledger.said
    BY <1>10, <1>12, CloseContentTold
  <2> HIDE DEF v
  <2>2. /\ Shape(v.l, n)
        /\ \A x \in 1 .. n : \A k : CallOf(chat_ledger, x, k) => CallOf(v.l, x, k)
    BY <1>10, <2>1, CallsContent
  <2>3. v.l.tools = chat_ledger.tools
    BY <2>1, Zenon DEF Content, Kept
  <2>4. Asks(v, t, name)
    BY <1>2, <2>3 DEF Asks, Started
  <2>5. t \in 1 .. n => CallOf(v.l, t, a)
    BY <1>11, <2>2, Zenon DEF a
  <2>6. t = n + 1 => a = 0
    <3>1. t = n + 1 => t > n
      BY <1>4
    <3> QED BY <1>11, <3>1 DEF a
  <2>7. /\ Called(c, v, w, n, m, t) /\ t \in 1 .. m /\ CallOf(w.l, t, b)
    BY <1>6, <1>7, <2>1, <2>2, <2>4, <2>5, <2>6, ProcessToolCallTold
  <2>8. Sound(v.l)
    BY <2>1, ToldFields
  <2> QED BY <2>1, <2>7, <2>8
<1> HIDE DEF w, v
<1>13. PICK d : Tells(Listener(d, FALSE), Work(chat_ledger))
  BY <1>10
<1>14. /\ Speaks(w) /\ Shape(w.l, m) /\ Follows(v.l, w.l) /\ OtherCalls(v.l, w.l, n, t)
       /\ CallOf(w.l, t, b) /\ t \in 1 .. m /\ Content(chat_ledger, v.l)
       /\ v.l.said = chat_ledger.said
  BY <1>12, <1>13, Zenon DEF Called
<1>15. \A x \in 1 .. m : CallOf(w.l, x, up.args[x])
  <2> SUFFICES ASSUME NEW x \in 1 .. m PROVE CallOf(w.l, x, up.args[x])
    OBVIOUS
  <2>1. x \in ChatTools /\ t \in ChatTools
    BY <1>4, <1>7 DEF ChatTools
  <2>2. CASE x = t
    <3>1. up.args[x] = b
      BY <1>4, <1>8, <2>1, <2>2
    <3> QED BY <1>14, <2>2, <3>1
  <2>3. CASE x # t
    <3>1. up.args[x] = chat_upstream.args[x]
      BY <1>4, <1>8, <2>1, <2>3
    <3>2. x \in 1 .. n \ {t}
      BY <1>4, <1>7, <2>3
    <3>3. CallOf(chat_ledger, x, chat_upstream.args[x])
      BY <1>11, <3>2
    <3>4. \A y \in 1 .. n : \A k : CallOf(chat_ledger, y, k) => CallOf(v.l, y, k)
      BY <1>10, <1>14, CallsContent
    <3>5. CallOf(v.l, x, chat_upstream.args[x])
      BY <3>2, <3>3, <3>4
    <3>6. CallOf(w.l, x, chat_upstream.args[x])
      BY <1>14, <3>2, <3>5, Zenon DEF OtherCalls
    <3> QED BY <3>1, <3>6
  <2> QED BY <2>2, <2>3
<1>16. \A x \in ChatTools : x > m => up.args[x] = 0
  <2> SUFFICES ASSUME NEW x \in ChatTools, x > m PROVE up.args[x] = 0
    OBVIOUS
  <2>1. x # t /\ x > n
    BY <1>4, <1>7 DEF ChatTools
  <2>2. up.args[x] = chat_upstream.args[x]
    BY <1>4, <1>8, <2>1
  <2> QED BY <1>11, <2>1, <2>2
<1>17. Writing(w.l, up)
  <2>1. Calls(w.l, m, up.args)
    BY <1>14, <1>15 DEF Calls
  <2> QED BY <1>8, <1>14, <1>16, <2>1, Zenon DEF Writing, Speaks
<1>18. Writes(w, up)
  <2>1. Says(w)
    BY <1>12, Zenon DEF Says, Called
  <2> QED BY <1>17, <2>1 DEF Writes
<1>19. ChatSafe'
  BY <1>1, <1>3, <1>8, <1>18, HandleSafe
<1>20. chat_upstream'.text = up.text /\ chat_upstream'.bullets = up.bullets
  BY <1>8, <1>9 DEF UpstreamRecord
<1>21. w.l.said = chat_ledger.said
  BY <1>14, Zenon DEF Follows
<1>22. HasToolBlock(chat_ledger) => HasToolBlock(w.l)
  BY <1>14, ContentHas, FollowsHas
<1> QED BY <1>8, <1>9, <1>19, <1>20, <1>21, <1>22, Zenon
-----------------------------------------------------------------------------
(* The end of an answer.                                                    *)

\* What the ledger has said at the end: what was said and what a parser held, or a
\* placeholder when nothing came.
Spelled ==
  LET s == IF chat_parser.in_think THEN chat_ledger.said ELSE chat_ledger.said \o chat_parser.tag
  IN  \/ chat_ledger'.said = s
      \/ /\ chat_ledger'.said = EmptyObject /\ s = <<>>
         /\ chat_parser.state # "parsing" /\ ~ HasToolBlock(chat_ledger)

\* Every tool call of the ledger is a block that holds all that came for it.
Paid(l, n, args) ==
  /\ DOMAIN l.tools = 1 .. n
  /\ \A t \in 1 .. n :
       Flushed(l, t, args[t]) /\ (l.tools[t].block # NoIndex => l.tools[t].block \in ToolBlocks(l))

LEMMA FlushedPaid ==
  ASSUME NEW l, Sound(l), NEW m, m.blocks = l.blocks, m.tools = l.tools,
         NEW n, NEW args, AllFlushed(l, n, args)
  PROVE  Paid(m, n, args)
<1>1. DOMAIN m.tools = 1 .. n
  BY DEF AllFlushed, Shape
<1>2. ASSUME NEW t \in 1 .. n PROVE Flushed(m, t, args[t])
  BY <1>2, Zenon DEF AllFlushed, Flushed
<1>3. ASSUME NEW t \in 1 .. n, m.tools[t].block # NoIndex PROVE m.tools[t].block \in ToolBlocks(m)
  <2>1. l.tools[t].block \in Rest(l) /\ l.blocks[l.tools[t].block].type = "tool_use"
    BY <1>3 DEF AllFlushed, Shape
  <2>2. l.tools[t].block \in DOMAIN l.blocks
    BY <2>1 DEF Rest, Sound
  <2> QED BY <2>1, <2>2, Zenon DEF ToolBlocks
<1> QED BY <1>1, <1>2, <1>3, Zenon DEF Paid

LEMMA AnsweredSafe ==
  ASSUME ChatSafe, ChatAnswered
  PROVE  /\ ChatSafe' /\ Spelled
         /\ Paid(chat_ledger', chat_upstream.tools, chat_upstream.args)
<1> DEFINE w0 == Work(chat_ledger)
           w1 == FlushParsers(w0)
           w2 == Placeholder(w1)
           w3 == FlushTools(w2)
           w4 == Tails(w3, "end_turn")
           n == chat_upstream.tools
           args == chat_upstream.args
<1>1. /\ Ready("streaming") /\ chat_ledger' = w4.l /\ chat_buffer' = FlushThen(chat_buffer, w4.out)
      /\ chat_phase' = "answered" /\ chat_retries' = chat_retries /\ chat_parser' = chat_parser
      /\ chat_upstream' = chat_upstream /\ chat_client' = chat_client
  BY DEF ChatAnswered
<1>2. Open /\ chat_buffer.wire = <<>> /\ chat_phase \notin ChatOver
  BY <1>1 DEF Ready, Open, ChatOver
<1>3. /\ Speaks(w0) /\ w0.l = chat_ledger /\ Shape(chat_ledger, n) /\ Sound(chat_ledger)
      /\ \A t \in 1 .. n : CallOf(chat_ledger, t, args[t])
      /\ \E d : Tells(Listener(d, FALSE), w0)
  BY <1>2, OpenIs, Zenon DEF Writing, Calls
<1>4. chat_parser.tag \in Seq(Nat)
  BY DEF ChatSafe, ChatFields, ParserRecord
<1> HIDE DEF w0
<1>5. ASSUME NEW c, Tells(c, w0)
      PROVE  /\ Tells(c, w4) /\ w4.l.stopped
             /\ Paid(w4.l, n, args)
             /\ w1.l.said = (IF chat_parser.in_think THEN chat_ledger.said
                             ELSE chat_ledger.said \o chat_parser.tag)
             /\ w4.l.said = w1.l.said
                \/ (w4.l.said = EmptyObject /\ w1.l.said = <<>> /\ ~ HasToolBlock(w1.l))
             /\ HasToolBlock(chat_ledger) => HasToolBlock(w1.l)
  <2>1. /\ Speech(c, w0, w1)
        /\ w1.l.said = (IF chat_parser.in_think THEN w0.l.said ELSE w0.l.said \o chat_parser.tag)
    BY <1>3, <1>4, <1>5, FlushParsersTold
  <2>2. Tells(c, w1) /\ Speaks(w1) /\ Content(chat_ledger, w1.l)
    BY <1>3, <2>1, Zenon DEF Speech
  <2> HIDE DEF w1
  <2>3. /\ Speech(c, w1, w2) /\ HasContentBlock(w2.l)
        /\ w2.l.said = w1.l.said
           \/ (w2.l.said = EmptyObject /\ w1.l.said = <<>> /\ ~ HasToolBlock(w1.l))
    BY <2>2, PlaceholderTold
  <2>4. Tells(c, w2) /\ Speaks(w2) /\ Content(w1.l, w2.l)
    BY <2>3, Zenon DEF Speech
  <2> HIDE DEF w2
  <2>5. Content(chat_ledger, w2.l)
    BY <2>2, <2>4, ContentTwice
  <2>6. Calls(w2.l, n, args)
    <3>1. /\ Shape(w2.l, n)
          /\ \A t \in 1 .. n : \A a : CallOf(chat_ledger, t, a) => CallOf(w2.l, t, a)
      BY <1>3, <2>5, CallsContent
    <3> QED BY <1>3, <3>1, Zenon DEF Calls
  <2>7. Tells(c, w3) /\ Speaks(w3) /\ Follows(w2.l, w3.l) /\ AllFlushed(w3.l, n, args)
    BY <2>4, <2>6, FlushToolsTold
  <2> HIDE DEF w3
  <2>8. Shape(w3.l, n) /\ HasContentBlock(w3.l) /\ w3.l.said = w2.l.said
    <3>1. HasContentBlock(w3.l)
      BY <2>3, <2>7, FollowsHas
    <3> QED BY <2>7, <3>1, Zenon DEF AllFlushed, Follows
  <2>9. Ended(c, w3, w4, FinalStopReason(w3.l, "end_turn"))
    BY <2>7, <2>8, TailsTold
  <2> HIDE DEF w4
  <2>10. /\ Tells(c, w4) /\ w4.l.stopped /\ w4.l.blocks = w3.l.blocks /\ w4.l.said = w3.l.said
         /\ w4.l.tools = w3.l.tools
    BY <2>9, Zenon DEF Ended
  <2>11. Paid(w4.l, n, args)
    <3>1. Sound(w3.l)
      BY <2>7, ToldFields
    <3> QED BY <2>7, <2>10, <3>1, FlushedPaid
  <2>12. HasToolBlock(chat_ledger) => HasToolBlock(w1.l)
    BY <2>2, ContentHas
  <2> QED BY <1>3, <2>1, <2>3, <2>8, <2>10, <2>11, <2>12
<1>6. chat_parser.state = "parsing" => \A c : Tells(c, w0) => HasToolBlock(w1.l)
  <2> SUFFICES ASSUME chat_parser.state = "parsing", NEW c, Tells(c, w0) PROVE HasToolBlock(w1.l)
    OBVIOUS
  <2> DEFINE v == IF chat_parser.in_think THEN Think(w0, chat_parser.tag)
                  ELSE Say(w0, chat_parser.tag)
  <2>1. w1 = HeuristicTool(v)
    BY DEF FlushParsers
  <2>2. Tells(c, v) /\ Speaks(v)
    BY <1>3, <1>4, SayTold, ThinkTold
  <2> HIDE DEF v
  <2> QED BY <2>1, <2>2, HeuristicToolTold
<1> HIDE DEF w1, w2, w3, w4, n, args
<1>7. Says(w4)
  BY <1>5, Zenon DEF Says, w0
<1>8. PICK d : Tells(Listener(d, FALSE), w0)
  BY <1>3
<1>9. w4.l.stopped /\ Paid(w4.l, n, args)
  BY <1>5, <1>8
<1>10. ChatWhole' /\ chat_phase' \in {"answered", "continued"}
  BY <1>1 DEF ChatWhole
<1>11. ChatSafe'
  BY <1>1, <1>2, <1>7, <1>9, <1>10, EndsSafe
<1>12. Spelled
  BY <1>1, <1>5, <1>6, <1>8, Zenon DEF Spelled
<1> QED BY <1>1, <1>9, <1>11, <1>12 DEF n, args

LEMMA RepairsSafe ==
  ASSUME ChatSafe, ChatRepairs
  PROVE  ChatSafe' /\ chat_ledger'.said = chat_ledger.said
<1> DEFINE w0 == Work(chat_ledger)
           v == RepairTools(w0)
           w == Tails(v, "end_turn")
           n == chat_upstream.tools
<1>1. /\ Ready("recovering") /\ Salvageable(v.l) /\ chat_ledger' = w.l
      /\ chat_buffer' = FlushThen(chat_buffer, w.out)
      /\ chat_phase' = "continued" /\ chat_retries' = chat_retries /\ chat_parser' = chat_parser
      /\ chat_upstream' = chat_upstream /\ chat_client' = chat_client
  BY DEF ChatRepairs
<1>2. Open /\ chat_buffer.wire = <<>> /\ chat_phase \notin ChatOver
  BY <1>1 DEF Ready, Open, ChatOver
<1>3. /\ Speaks(w0) /\ w0.l = chat_ledger /\ Shape(chat_ledger, n)
      /\ \E d : Tells(Listener(d, FALSE), w0)
  BY <1>2, OpenIs
<1>4. HasContentBlock(chat_ledger)
  BY <1>1 DEF ChatSafe, ChatLive, Ready, ChatOver
<1> HIDE DEF w0
<1>5. ASSUME NEW c, Tells(c, w0)
      PROVE  /\ Tells(c, w) /\ w.l.stopped /\ w.l.blocks = v.l.blocks /\ w.l.said = chat_ledger.said
  <2>1. Repaired(c, w0, v, n)
    BY <1>3, <1>5, RepairToolsTold
  <2> HIDE DEF v
  <2>2. Tells(c, v) /\ Speaks(v) /\ Shape(v.l, n) /\ Follows(w0.l, v.l)
    BY <2>1, Zenon DEF Repaired
  <2>3. HasContentBlock(v.l) /\ v.l.said = chat_ledger.said
    <3>1. HasContentBlock(v.l)
      BY <1>3, <1>4, <2>2, FollowsHas
    <3> QED BY <1>3, <2>2, <3>1, Zenon DEF Follows
  <2>4. Ended(c, v, w, FinalStopReason(v.l, "end_turn"))
    BY <2>2, <2>3, TailsTold
  <2> HIDE DEF w
  <2> QED BY <2>3, <2>4, Zenon DEF Ended
<1> HIDE DEF v, w, n
<1>6. Says(w)
  BY <1>5, Zenon DEF Says, w0
<1>7. PICK d : Tells(Listener(d, FALSE), w0)
  BY <1>3
<1>8. w.l.stopped /\ w.l.blocks = v.l.blocks /\ w.l.said = chat_ledger.said
  BY <1>5, <1>7
<1>9. ChatWhole' /\ chat_phase' \in {"answered", "continued"}
  <2>1. \A i \in ToolBlocks(w.l) : w.l.blocks[i].parts = Whole
    BY <1>1, <1>8, Zenon DEF Salvageable, ToolBlocks
  <2> QED BY <1>1, <2>1 DEF ChatWhole
<1>10. ChatSafe'
  BY <1>1, <1>2, <1>6, <1>8, <1>9, EndsSafe
<1> QED BY <1>1, <1>8, <1>10
\* A stretch of the answer, and what is taken from it, is a sequence of numbers.
LEMMA StretchIs ==
  ASSUME NEW said \in Seq(Nat), NEW c \in Stretches(said), NEW short \in BOOLEAN
  PROVE  c \in Seq(Nat) /\ ContinuationSuffix(said, c, short) \in Seq(Nat)
<1>1. PICK i \in 0 .. Len(said), j \in 0 .. Len(said) + 1 : c = [k \in 1 .. j - i |-> i + k]
  BY DEF Stretches, Candidates
<1>2. Len(said) \in Nat
  OBVIOUS
<1>3. c \in Seq(Nat)
  <2>1. CASE j - i >= 0
    <3>1. j - i \in Nat /\ \A k \in 1 .. j - i : i + k \in Nat
      BY <1>2, <2>1
    <3> DEFINE m == j - i
    <3>2. c \in [1 .. m -> Nat] /\ m \in Nat
      BY <1>1, <3>1
    <3> HIDE DEF m
    <3> QED BY <3>2
  <2>2. CASE ~ (j - i >= 0)
    <3>1. 1 .. j - i = {}
      BY <1>2, <2>2
    <3>a. 1 .. j - i = 1 .. 0
      BY <3>1
    <3>b. \A k \in 1 .. 0 : i + k \in Nat
      OBVIOUS
    <3> DEFINE none == 1 .. 0
    <3>c. c = [k \in none |-> i + k] /\ \A k \in none : i + k \in Nat
      BY <1>1, <3>a, <3>b
    <3> HIDE DEF none
    <3>d. c \in [none -> Nat]
      BY <3>c
    <3>2. c \in [1 .. 0 -> Nat]
      BY <3>d DEF none
    <3> DEFINE m == 0
    <3>3. c \in [1 .. m -> Nat] /\ m \in Nat
      BY <3>2
    <3> HIDE DEF m
    <3> QED BY <3>3
  <2> QED BY <2>1, <2>2
<1>4. \A a \in Nat \ {0} : SubSeq(c, a, Len(c)) \in Seq(Nat)
  BY <1>3
<1>5. Overlaps(said, c) # {} => Max(Overlaps(said, c)) + 1 \in Nat \ {0}
  <2> SUFFICES ASSUME Overlaps(said, c) # {} PROVE Max(Overlaps(said, c)) + 1 \in Nat \ {0}
    OBVIOUS
  <2> DEFINE S == Overlaps(said, c)
  <2>1. S \subseteq 1 .. Len(c)
    BY Zenon DEF Overlaps
  <2>2. Len(c) \in Nat /\ S # {}
    BY <1>3
  <2> HIDE DEF S
  <2>3. Max(S) \in S
    BY <2>1, <2>2, Greatest
  <2>4. PICK y : y = Max(S)
    OBVIOUS
  <2>5. y + 1 \in Nat \ {0}
    <3>1. PICK m : m = Len(c)
      OBVIOUS
    <3>2. y \in 1 .. m /\ m \in Nat
      BY <2>1, <2>2, <2>3, <2>4, <3>1
    <3> QED BY <3>2
  <2> QED BY <2>4, <2>5 DEF S
<1> DEFINE m == Max(Overlaps(said, c)) + 1
           a == SubSeq(c, Len(said) + 1, Len(c))
           b == SubSeq(c, m, Len(c))
<1>6. a \in Seq(Nat) /\ (Overlaps(said, c) # {} => b \in Seq(Nat)) /\ <<>> \in Seq(Nat)
  <2> DEFINE Good(k) == k \in Nat \ {0}
  <2>1. Good(Len(said) + 1) /\ (Overlaps(said, c) # {} => Good(m))
    BY <1>2, <1>5
  <2>2. \A k : Good(k) => SubSeq(c, k, Len(c)) \in Seq(Nat)
    BY <1>4
  <2> HIDE DEF Good, m
  <2> QED BY <2>1, <2>2, NothingIs, Zenon
<1>7. ContinuationSuffix(said, c, short) \in {<<>>, a, c}
      \/ (Overlaps(said, c) # {} /\ ContinuationSuffix(said, c, short) = b)
  <2> HIDE DEF a
  <2> QED BY DEF ContinuationSuffix, a
<1> HIDE DEF a, b, m
<1> QED BY <1>3, <1>6, <1>7

LEMMA ContinuesSafe ==
  ASSUME ChatSafe, NEW more \in BOOLEAN, NEW short \in BOOLEAN,
         NEW candidate \in Stretches(chat_ledger.said), ChatContinues(more, candidate, short)
  PROVE  /\ ChatSafe' /\ ~ HasToolBlock(chat_ledger)
         /\ chat_ledger'.said =
              chat_ledger.said \o ContinuationSuffix(chat_ledger.said, candidate, short)
<1> DEFINE w0 == Work(chat_ledger)
           text == ContinuationSuffix(chat_ledger.said, candidate, short)
           thought == IF more THEN <<Len(chat_ledger.thought) + 1>> ELSE <<>>
           u == Think(w0, thought)
           v == Say(u, text)
           w == Tails(v, "end_turn")
           n == chat_upstream.tools
<1>1. /\ Ready("recovering") /\ ~ HasToolBlock(chat_ledger) /\ chat_ledger' = w.l
      /\ chat_buffer' = FlushThen(chat_buffer, w.out)
      /\ chat_phase' = "continued" /\ chat_retries' = chat_retries /\ chat_parser' = chat_parser
      /\ chat_upstream' = chat_upstream /\ chat_client' = chat_client
  BY DEF ChatContinues
<1>2. Open /\ chat_buffer.wire = <<>> /\ chat_phase \notin ChatOver
  BY <1>1 DEF Ready, Open, ChatOver
<1>3. /\ Speaks(w0) /\ w0.l = chat_ledger /\ Shape(chat_ledger, n) /\ Sound(chat_ledger)
      /\ \E d : Tells(Listener(d, FALSE), w0)
  BY <1>2, OpenIs
<1>4. HasContentBlock(chat_ledger)
  BY <1>1 DEF ChatSafe, ChatLive, Ready, ChatOver
<1>5. text \in Seq(Nat)
  <2>1. chat_ledger.said \in Seq(Nat)
    BY <1>2, OpenIs
  <2> QED BY <2>1, StretchIs
<1>6. thought \in Seq(Nat)
  <2>1. chat_ledger.thought \in Seq(Nat)
    BY LedgerFields DEF ChatSafe, ChatFields
  <2> QED BY <2>1
<1> HIDE DEF w0, text, thought
<1>7. ASSUME NEW c, Tells(c, w0)
      PROVE  /\ Tells(c, w) /\ w.l.stopped /\ w.l.said = chat_ledger.said \o text
             /\ w.l.stop_reason = FinalStopReason(v.l, "end_turn") /\ ~ HasToolBlock(v.l)
  <2>1. /\ Tells(c, u) /\ Speaks(u) /\ Content(chat_ledger, u.l) /\ u.l.said = chat_ledger.said
        /\ ToolBlocks(u.l) = ToolBlocks(chat_ledger)
    BY <1>3, <1>6, <1>7, ThinkTold
  <2> HIDE DEF u
  <2>2. /\ Tells(c, v) /\ Speaks(v) /\ Content(u.l, v.l) /\ v.l.said = u.l.said \o text
        /\ ToolBlocks(v.l) = ToolBlocks(u.l)
    BY <1>5, <2>1, SayTold
  <2> HIDE DEF v
  <2>3. Content(chat_ledger, v.l)
    BY <2>1, <2>2, ContentTwice
  <2>4. Shape(v.l, n) /\ HasContentBlock(v.l)
    BY <1>3, <1>4, <2>3, CallsContent, ContentHas
  <2>5. Ended(c, v, w, FinalStopReason(v.l, "end_turn"))
    BY <2>2, <2>4, TailsTold
  <2> HIDE DEF w
  <2>6. ~ HasToolBlock(v.l)
    BY <1>1, <2>1, <2>2 DEF HasToolBlock
  <2> QED BY <2>1, <2>2, <2>5, <2>6, Zenon DEF Ended
<1> HIDE DEF u, v, w, n
<1>8. Says(w)
  BY <1>7, Zenon DEF Says, w0
<1>9. PICK d : Tells(Listener(d, FALSE), w0)
  BY <1>3
<1>10. /\ w.l.stopped /\ w.l.said = chat_ledger.said \o text
       /\ w.l.stop_reason = FinalStopReason(v.l, "end_turn") /\ ~ HasToolBlock(v.l)
  BY <1>7, <1>9
<1>11. ChatWhole' /\ chat_phase' \in {"answered", "continued"}
  <2>1. w.l.stop_reason # "tool_use"
    BY <1>10 DEF FinalStopReason
  <2> QED BY <1>1, <2>1 DEF ChatWhole
<1>12. ChatSafe'
  BY <1>1, <1>2, <1>8, <1>10, <1>11, EndsSafe
<1> QED BY <1>1, <1>10, <1>12 DEF text
-----------------------------------------------------------------------------
(* Every state of a stream.                                                 *)

LEMMA InitSafe ==
  ASSUME ChatInit
  PROVE  ChatSafe
<1>1. /\ chat_phase = "starting" /\ chat_ledger = NewLedger /\ chat_buffer = FreshBuffer
      /\ chat_retries = 0 /\ chat_parser = FreshParser /\ chat_upstream = FreshUpstream
      /\ chat_client = FreshClient
  BY DEF ChatInit
<1>2. FreshClient \in Client /\ Agrees(FreshClient, NewLedger)
  BY FreshClientIs
<1>3. /\ FreshBuffer \in Buffer /\ FreshBuffer.wire = <<>> /\ FreshBuffer.held = <<>>
      /\ ~ FreshBuffer.committed
  <2>1. <<>> \in Seq(Event)
    OBVIOUS
  <2> QED BY <2>1 DEF FreshBuffer, Buffer
<1>4. Tells(Listener(FreshClient, FALSE), Work(NewLedger))
  <2>1. Listener(FreshClient, FALSE).from = FreshClient /\ ~ Listener(FreshClient, FALSE).error
    BY DEF Listener
  <2> QED BY <1>2, <2>1, NothingTold
<1>5. Work(NewLedger) = [l |-> NewLedger, out |-> FreshBuffer.wire \o FreshBuffer.held]
  <2> DEFINE l == NewLedger
  <2>1. <<>> \o <<>> = <<>>
    OBVIOUS
  <2> HIDE DEF l
  <2> QED BY <1>3, <2>1 DEF Work
<1>6. Live(FreshClient, NewLedger, FreshBuffer)
  BY <1>2, <1>3, <1>4, <1>5, Zenon DEF Live
<1>7. /\ chat_phase \notin ChatOver /\ chat_phase # "recovering" /\ chat_phase # "continued"
      /\ chat_phase \in ChatPhase
  BY <1>1 DEF ChatOver, ChatPhase
<1>8. ChatLive /\ ChatEnd /\ ChatWhole
  BY <1>1, <1>3, <1>6, <1>7, Zenon DEF ChatLive, ChatEnd, ChatWhole
<1>9. ChatFields
  <2>1. chat_retries \in 0 .. EarlyRetries
    BY <1>1, RecoveryAssumption
  <2>2. /\ chat_ledger \in Ledger /\ chat_upstream \in UpstreamRecord
        /\ chat_parser \in ParserRecord /\ chat_client \in Client
    BY <1>1, <1>2, FreshIs, NewLedgerIs
  <2> QED BY <1>1, <1>3, <1>7, <2>1, <2>2, Zenon DEF ChatFields
<1> QED BY <1>8, <1>9, Zenon DEF ChatSafe

LEMMA StutterSafe ==
  ASSUME ChatSafe, UNCHANGED chat_vars
  PROVE  ChatSafe'
<1>1. /\ chat_phase' = chat_phase /\ chat_ledger' = chat_ledger /\ chat_buffer' = chat_buffer
      /\ chat_retries' = chat_retries /\ chat_parser' = chat_parser
      /\ chat_upstream' = chat_upstream /\ chat_client' = chat_client
  BY DEF chat_vars
<1>2. ASSUME NEW u PROVE Over(u)' = Over(u)
  BY <1>1, Zenon DEF Over
<1>3. ChatFields' /\ ChatLive' /\ ChatWhole'
  BY <1>1, Zenon DEF ChatSafe, ChatFields, ChatLive, ChatWhole
<1>4. ChatEnd'
  BY <1>1, <1>2, Zenon DEF ChatSafe, ChatEnd
<1> QED BY <1>3, <1>4, Zenon DEF ChatSafe

\* A failure of the open stream, and of the recovery.
LEMMA BrokenSafe ==
  ASSUME ChatSafe, ChatOpenFails \/ ChatBreaks \/ ChatRecoveryFails
  PROVE  ChatSafe'
<1>1. ASSUME NEW p \in {"opening", "streaming", "recovering"}, Ready(p)
      PROVE  chat_buffer.wire = <<>> /\ chat_phase \notin ChatOver /\ chat_phase # "starting"
  BY <1>1 DEF Ready, ChatOver
<1>2. CASE ChatOpenFails
  <2>1. Ready("opening") /\ \E r : ChatFails(r, FALSE)
    BY <1>2, Zenon DEF ChatOpenFails
  <2> QED BY <1>1, <2>1, FailsSafe
<1>3. CASE ChatBreaks
  <2>1. Ready("streaming") /\ \E r : ChatFails(r, TRUE)
    BY <1>3, Zenon DEF ChatBreaks
  <2> QED BY <1>1, <2>1, FailsSafe
<1>4. CASE ChatRecoveryFails
  <2>1. Ready("recovering") /\ ChatGivesUp
    BY <1>4, Zenon DEF ChatRecoveryFails
  <2> QED BY <1>1, <2>1, GivesUpSafe
<1> QED BY <1>2, <1>3, <1>4

\* What the adapter does between two reads.
Adapter ==
  \/ ChatStarts \/ ChatOpens \/ ChatOpenFails
  \/ ChatReasoning \/ ChatTag \/ ChatFunction
  \/ \E bullet, partial \in BOOLEAN : ChatContent(bullet, partial)
  \/ \E t \in ChatTools, name \in ToolName \cup {""}, fragment \in BOOLEAN :
       ChatToolCall(t, name, fragment)
  \/ ChatFinishes \/ ChatAnswered \/ ChatBreaks
  \/ \E more, short \in BOOLEAN, c \in Stretches(chat_ledger.said) :
       ChatContinues(more, c, short)
  \/ ChatRepairs \/ ChatRecoveryFails \/ ChatStalls

LEMMA AdapterSafe ==
  ASSUME ChatSafe, Adapter, ~ LateStalls
  PROVE  ChatSafe'
<1>1. CASE \E bullet, partial \in BOOLEAN : ChatContent(bullet, partial)
  BY <1>1, ContentSafe
<1>2. CASE \E t \in ChatTools, name \in ToolName \cup {""}, fragment \in BOOLEAN :
             ChatToolCall(t, name, fragment)
  <2>1. \E t \in ChatTools, name \in CallName, fragment \in BOOLEAN :
          ChatToolCall(t, name, fragment)
    BY <1>2, Zenon DEF CallName
  <2> QED BY <2>1, ToolCallSafe
<1>3. CASE \E more, short \in BOOLEAN, c \in Stretches(chat_ledger.said) :
             ChatContinues(more, c, short)
  BY <1>3, ContinuesSafe
<1>4. CASE ChatStarts \/ ChatOpens \/ ChatOpenFails \/ ChatFinishes \/ ChatBreaks
           \/ ChatRecoveryFails
  BY <1>4, StartsSafe, OpensSafe, BrokenSafe
<1>5. CASE ChatReasoning \/ ChatTag \/ ChatFunction
  BY <1>5, ReasoningSafe, TagSafe, FunctionSafe
<1>6. CASE ChatAnswered \/ ChatRepairs \/ ChatStalls
  BY <1>6, AnsweredSafe, RepairsSafe, StallsSafe
<1> QED BY <1>1, <1>2, <1>3, <1>4, <1>5, <1>6, Zenon DEF Adapter

LEMMA NextIs ==
  ASSUME [ChatNext]_chat_vars
  PROVE  ChatDeliver \/ Adapter \/ UNCHANGED chat_vars
BY Zenon DEF ChatNext, Adapter

LEMMA NextSafe ==
  ASSUME ChatSafe, ~ LateStalls, [ChatNext]_chat_vars
  PROVE  ChatSafe'
BY NextIs, DeliverSafe, AdapterSafe, StutterSafe

\* The client hears only what it reads.
LEMMA AdapterSilent ==
  ASSUME Adapter
  PROVE  chat_client' = chat_client
<1>1. CASE \E bullet, partial \in BOOLEAN : ChatContent(bullet, partial)
  BY <1>1, Zenon DEF ChatContent, Handle
<1>2. CASE \E t \in ChatTools, name \in ToolName \cup {""}, fragment \in BOOLEAN :
             ChatToolCall(t, name, fragment)
  BY <1>2, Zenon DEF ChatToolCall, Handle
<1>3. CASE \E more, short \in BOOLEAN, c \in Stretches(chat_ledger.said) :
             ChatContinues(more, c, short)
  BY <1>3, Zenon DEF ChatContinues
<1>4. CASE ChatStarts \/ ChatOpens \/ ChatFinishes \/ ChatReasoning \/ ChatTag \/ ChatFunction
  BY <1>4, Zenon DEF ChatStarts, ChatOpens, ChatFinishes, ChatReasoning, ChatTag, ChatFunction,
                     Handle
<1>5. CASE ChatAnswered \/ ChatRepairs \/ ChatStalls
  BY <1>5, Zenon DEF ChatAnswered, ChatRepairs, ChatStalls
<1>6. CASE ChatOpenFails \/ ChatBreaks \/ ChatRecoveryFails
  <2>1. \/ ChatGivesUp
        \/ \E r, o : ChatFails(r, o)
    BY <1>6, Zenon DEF ChatOpenFails, ChatBreaks, ChatRecoveryFails
  <2> QED BY <2>1, ChatFailsIs, Zenon DEF Again, Recovers, ChatGivesUp
<1> QED BY <1>1, <1>2, <1>3, <1>4, <1>5, <1>6, Zenon DEF Adapter
-----------------------------------------------------------------------------
(* The grammar, failures and repairs.                                       *)

LEMMA EventIs ==
  ASSUME NEW e \in Event
  PROVE  e.name \in {"message_start", "content_block_start", "content_block_delta",
                     "content_block_stop", "message_delta", "message_stop", "error"}
BY Zenon DEF Event

LEMMA ReadKeepsContract ==
  ASSUME chat_client \in Client, NEW e \in Event, Legal(chat_client, e),
         chat_client' = Read(chat_client, e)
  PROVE  Contract!ContractNext
<1> DEFINE c == chat_client
           d == chat_client'
<1>1. /\ d.phase = PhaseAfter(c, e) /\ d.open = OpenAfter(c, e) /\ d.event = EventAfter(e)
      /\ d.seen = (IF e.name = "content_block_start" THEN c.seen \cup {e.i} ELSE c.seen)
  BY ReadFields
<1>2. c.open \in SUBSET [i : Nat, type : BlockType]
  BY DEF Client
<1>3. e.name \in {"message_start", "content_block_start", "content_block_delta",
                  "content_block_stop", "message_delta", "message_stop", "error"}
  BY Zenon, EventIs
<1>4. /\ d.event.name = e.name /\ d.event.i = e.i
      /\ e.name # "content_block_stop" /\ e.i \in Nat => d.event.type = e.type
  <2>1. e.i \in Nat => e.i # NoIndex
    BY DEF NoIndex
  <2>2. /\ EventAfter(e).name = e.name /\ EventAfter(e).i = e.i
        /\ EventAfter(e).type = (IF e.name = "content_block_stop" \/ e.i = NoIndex THEN ""
                                 ELSE e.type)
    BY Zenon DEF EventAfter
  <2> QED BY <1>1, <2>1, <2>2, Zenon
<1> HIDE DEF c, d
<1>5. CASE e.name = "message_start"
  <2>1. /\ c.phase = "new" /\ d.phase = "open" /\ d.open = c.open /\ d.seen = c.seen
    BY <1>1, <1>5 DEF Legal, PhaseAfter, OpenAfter, c
  <2>2. Contract!StreamStarts
    BY <1>4, <1>5, <2>1 DEF Contract!StreamStarts, c, d
  <2> QED BY <2>2 DEF Contract!ContractNext
<1>6. CASE e.name = "content_block_start"
  <2>1. c.phase = "open" /\ e.i \in Nat \ c.seen /\ e.type \in BlockType
    BY <1>6 DEF Legal, c
  <2>2. /\ d.phase = c.phase /\ d.open = c.open \cup {[i |-> e.i, type |-> e.type]}
        /\ d.seen = c.seen \cup {e.i}
    BY <1>1, <1>6 DEF PhaseAfter, OpenAfter
  <2>3. e.type \in Contract!AllowedBlockStartTypes
    BY <2>1 DEF BlockType, Contract!AllowedBlockStartTypes
  <2>4. Contract!BlockStarts
    BY <1>4, <1>6, <2>1, <2>2, <2>3 DEF Contract!BlockStarts, c, d
  <2> QED BY <2>4 DEF Contract!ContractNext
<1>7. CASE e.name = "content_block_delta"
  <2>1. /\ c.phase = "open" /\ e.i \in Nat /\ e.type # "redacted_thinking"
        /\ [i |-> e.i, type |-> e.type] \in c.open
    BY <1>7 DEF Legal, c
  <2>2. d.phase = c.phase /\ d.open = c.open /\ d.seen = c.seen
    BY <1>1, <1>7 DEF PhaseAfter, OpenAfter
  <2>3. e.type \in BlockType
    BY <1>2, <2>1
  <2>4. e.type \notin Contract!NoDeltaBlockKinds
    BY <2>1, <2>3 DEF BlockType, Contract!NoDeltaBlockKinds
  <2>5. Contract!BlockGrows
    BY <1>4, <1>7, <2>1, <2>2, <2>4 DEF Contract!BlockGrows, c, d
  <2> QED BY <2>5 DEF Contract!ContractNext
<1>8. CASE e.name = "content_block_stop"
  <2>1. PICK b \in c.open : b.i = e.i /\ c.open \ {b} = {x \in c.open : x.i # e.i}
    BY <1>8 DEF Legal, c
  <2>2. c.phase = "open" /\ d.phase = c.phase /\ d.seen = c.seen /\ d.open = c.open \ {b}
    BY <1>1, <1>8, <2>1 DEF Legal, PhaseAfter, OpenAfter, c
  <2>3. Contract!BlockStops
    BY <1>4, <1>8, <2>1, <2>2 DEF Contract!BlockStops, c, d
  <2> QED BY <2>3 DEF Contract!ContractNext
<1>9. CASE e.name = "message_stop"
  <2>1. /\ c.phase = "open" /\ d.phase = "stopped" /\ d.open = c.open /\ d.seen = c.seen
        /\ c.open = {} /\ c.seen # {}
    BY <1>1, <1>9 DEF Legal, PhaseAfter, OpenAfter, c
  <2>2. Contract!StreamStops
    BY <1>4, <1>9, <2>1 DEF Contract!StreamStops, c, d
  <2> QED BY <2>2 DEF Contract!ContractNext
<1>10. CASE e.name \in {"message_delta", "error"}
  <2>1. c.phase = "open" /\ d.phase = c.phase /\ d.open = c.open /\ d.seen = c.seen
    BY <1>1, <1>10 DEF Legal, PhaseAfter, OpenAfter, c
  <2>2. Contract!Notice
    BY <1>4, <1>10, <2>1 DEF Contract!Notice, c, d
  <2> QED BY <2>2 DEF Contract!ContractNext
<1> QED BY <1>3, <1>5, <1>6, <1>7, <1>8, <1>9, <1>10

LEMMA StepKeepsContract ==
  ASSUME ChatSafe, [ChatNext]_chat_vars
  PROVE  [Contract!ContractNext]_Contract!contract_vars
<1>1. CASE ChatDeliver
  <2>1. /\ chat_client' = Read(chat_client, Head(chat_buffer.wire)) /\ chat_client \in Client
        /\ Legal(chat_client, Head(chat_buffer.wire)) /\ Head(chat_buffer.wire) \in Event
    BY <1>1, DeliverSafe, Zenon DEF ChatDeliver, ChatSafe, ChatFields
  <2> DEFINE e == Head(chat_buffer.wire)
  <2> HIDE DEF e
  <2>2. Contract!ContractNext
    BY <2>1, ReadKeepsContract DEF e
  <2> QED BY <2>2
<1>2. CASE Adapter \/ UNCHANGED chat_vars
  <2>1. chat_client' = chat_client
    BY <1>2, AdapterSilent DEF chat_vars
  <2> QED BY <2>1 DEF Contract!contract_vars
<1> QED BY <1>1, <1>2, NextIs

LEMMA InitKeepsContract ==
  ASSUME ChatInit
  PROVE  Contract!ContractInit
<1>1. chat_client = FreshClient
  BY DEF ChatInit
<1>2. /\ FreshClient.phase = "new" /\ FreshClient.open = {} /\ FreshClient.seen = {}
  BY DEF FreshClient
<1>3. FreshClient.event = Contract!NoEvent
  BY Zenon DEF FreshClient, Contract!NoEvent, NoIndex
<1> QED BY <1>1, <1>2, <1>3, Zenon DEF Contract!ContractInit

\* What the client of an adapter that is done has read.
LEMMA DoneIs ==
  ASSUME ChatSafe, chat_phase \in ChatOver, chat_buffer.wire = <<>>
  PROVE  \E u : /\ Over(u) /\ Agrees(chat_client, u.l) /\ Sound(u.l)
                /\ chat_phase = "failed" => chat_client.error \/ 0 \in Range(u.l.said)
<1>1. PICK u : Over(u)
  BY Zenon DEF ChatSafe, ChatEnd
<1>2. u.out = <<>> /\ Tells(Listener(chat_client, FALSE), u)
  BY <1>1, Zenon DEF Over
<1>3. ASSUME NEW e, Tells(Listener(chat_client, e), u)
      PROVE  Agrees(chat_client, u.l) /\ (e => chat_client.error)
  <2>1. PICK d : Knows(Listener(chat_client, e), u, d)
    BY <1>3, Zenon DEF Tells
  <2>2. Listener(chat_client, e).from = chat_client /\ Listener(chat_client, e).error = e
    BY DEF Listener
  <2>3. Path(chat_client, <<>>, d) /\ Agrees(d, u.l) /\ (e => d.error)
    BY <1>2, <2>1, <2>2, Zenon DEF Knows
  <2>4. d = chat_client
    BY <2>3, PathEmpty
  <2> QED BY <2>3, <2>4
<1>4. Agrees(chat_client, u.l) /\ Sound(u.l)
  BY <1>2, <1>3, ToldFields
<1>5. ASSUME chat_phase = "failed" PROVE chat_client.error \/ 0 \in Range(u.l.said)
  <2>1. Confessed(Listener(chat_client, FALSE), u)
    BY <1>1, <1>5, Zenon DEF Over
  <2>2. Listener(chat_client, FALSE).from = chat_client
    BY DEF Listener
  <2>3. Tells(Listener(chat_client, TRUE), u) \/ 0 \in Range(u.l.said)
    BY <2>1, <2>2, Zenon DEF Confessed
  <2> QED BY <1>3, <2>3
<1> QED BY <1>1, <1>4, <1>5

LEMMA SafeTellsFailure ==
  ASSUME ChatSafe
  PROVE  ChatFailureIsTold
<1> SUFFICES ASSUME chat_phase = "failed", chat_buffer.wire = <<>>
             PROVE  chat_client.error \/ 0 \in Range(chat_client.text)
  BY DEF ChatFailureIsTold
<1>1. chat_phase \in ChatOver
  BY DEF ChatOver
<1>2. PICK u : Agrees(chat_client, u.l) /\ (chat_client.error \/ 0 \in Range(u.l.said))
  BY <1>1, DoneIs
<1>3. chat_client.text = u.l.said
  BY <1>2, Zenon DEF Agrees
<1> QED BY <1>2, <1>3

LEMMA SafeRepairs ==
  ASSUME ChatSafe
  PROVE  ChatRepairsWhole
<1> SUFFICES ASSUME chat_phase = "continued", chat_buffer.wire = <<>>,
                    chat_ledger.stop_reason = "tool_use",
                    NEW i \in DOMAIN chat_client.args
             PROVE  chat_client.args[i] = Whole
  BY DEF ChatRepairsWhole
<1>1. chat_phase \in ChatOver /\ chat_phase # "failed"
  BY DEF ChatOver
<1>2. PICK u : Over(u) /\ Agrees(chat_client, u.l)
  BY <1>1, DoneIs
<1>3. u.l = chat_ledger
  BY <1>1, <1>2, Zenon DEF Over
<1>4. chat_client.args = ArgsOf(chat_ledger)
  BY <1>2, <1>3, Zenon DEF Agrees
<1>5. i \in ToolBlocks(chat_ledger) /\ chat_client.args[i] = chat_ledger.blocks[i].parts
  BY <1>4 DEF ArgsOf
<1> QED BY <1>5, Zenon DEF ChatSafe, ChatWhole

LEMMA ChatAlwaysSafe ==
  ASSUME ~ LateStalls
  PROVE  ChatSpec => []ChatSafe
<1>1. ChatInit => ChatSafe
  BY InitSafe
<1>2. ChatSafe /\ [ChatNext]_chat_vars => ChatSafe'
  BY NextSafe
<1> QED BY <1>1, <1>2, PTL DEF ChatSpec

\* Whatever fails, is retried, continued or repaired, the events that a client reads are
\* a stream of the Anthropic grammar, unless the watchdog breaks in after the client was
\* sent something (stream.py, ledger.py, recovery.py).
THEOREM ChatImplementsContract ==
  ASSUME ~ LateStalls
  PROVE  ChatSpec => Contract!ContractSpec
<1>1. ChatInit => Contract!ContractInit
  BY InitKeepsContract
<1>2. ChatSafe /\ [ChatNext]_chat_vars => [Contract!ContractNext]_Contract!contract_vars
  BY StepKeepsContract
<1>3. ChatSpec => []ChatSafe
  BY ChatAlwaysSafe
<1> QED BY <1>1, <1>2, <1>3, PTL DEF ChatSpec, Contract!ContractSpec

\* A failed answer is told in a text block or in an error event (stream.py, ledger.py).
THEOREM ChatTellsFailures ==
  ASSUME ~ LateStalls
  PROVE  ChatSpec => []ChatFailureIsTold
<1>1. ChatSafe => ChatFailureIsTold
  BY SafeTellsFailure
<1> QED BY <1>1, ChatAlwaysSafe, PTL

\* A client told to run tools after an interruption was given complete arguments
\* (recovery.py).
THEOREM ChatRepairsAreWhole ==
  ASSUME ~ LateStalls
  PROVE  ChatSpec => []ChatRepairsWhole
<1>1. ChatSafe => ChatRepairsWhole
  BY SafeRepairs
<1> QED BY <1>1, ChatAlwaysSafe, PTL
-----------------------------------------------------------------------------
(* Texts: pieces numbered in the order of the answer.                       *)

UpTo(n) == [k \in 1 .. n |-> k]

\* Some of the pieces up to n, in their order.
Rising(s, n) ==
  \A i \in DOMAIN s : s[i] \in 1 .. n /\ \A j \in DOMAIN s : i < j => s[i] < s[j]

\* The same of a text that may hold a placeholder or a message, piece 0.
Order(s) == \A i, j \in DOMAIN s : i < j /\ s[i] > 0 /\ s[j] > 0 => s[i] < s[j]
Exact(s) == \A i \in DOMAIN s : s[i] > 0 => s[i] = i

LEMMA UpToIs ==
  ASSUME NEW n \in Nat
  PROVE  /\ UpTo(n) \in Seq(Nat) /\ Len(UpTo(n)) = n /\ \A k \in 1 .. n : UpTo(n)[k] = k
         /\ Rising(UpTo(n), n) /\ Exact(UpTo(n))
         /\ {i \in DOMAIN UpTo(n) : UpTo(n)[i] > 0} = 1 .. n
<1>1. UpTo(n) \in Seq(Nat) /\ Len(UpTo(n)) = n /\ \A k \in 1 .. n : UpTo(n)[k] = k
  BY DEF UpTo
<1>2. DOMAIN UpTo(n) = 1 .. n
  BY DEF UpTo
<1> DEFINE s == UpTo(n)
<1> HIDE DEF s
<1>3. Rising(s, n) /\ Exact(s) /\ {i \in DOMAIN s : s[i] > 0} = 1 .. n
  BY <1>1, <1>2 DEF Rising, Exact, s
<1> QED BY <1>1, <1>3 DEF s

LEMMA UpToOnly ==
  ASSUME NEW s \in Seq(Nat), \A i \in 1 .. Len(s) : s[i] = i
  PROVE  s = UpTo(Len(s))
<1>1. Len(s) \in Nat
  OBVIOUS
<1>2. UpTo(Len(s)) \in Seq(Nat) /\ Len(UpTo(Len(s))) = Len(s)
      /\ \A k \in 1 .. Len(s) : UpTo(Len(s))[k] = k
  BY <1>1, UpToIs
<1> DEFINE t == UpTo(Len(s))
<1> HIDE DEF t
<1>3. t \in Seq(Nat) /\ Len(s) = Len(t) /\ \A i \in 1 .. Len(s) : s[i] = t[i]
  BY <1>2 DEF t
<1>4. s = t
  BY <1>3, SeqEqual
<1> QED BY <1>4 DEF t

LEMMA Joined ==
  ASSUME NEW s \in Seq(Nat), NEW t \in Seq(Nat)
  PROVE  /\ s \o t \in Seq(Nat) /\ Len(s \o t) = Len(s) + Len(t)
         /\ Len(s) \in Nat /\ Len(t) \in Nat
         /\ \A i \in 1 .. Len(s) : (s \o t)[i] = s[i]
         /\ \A i \in 1 .. Len(t) : (s \o t)[Len(s) + i] = t[i]
<1>1. Len(s) \in Nat /\ Len(t) \in Nat
  OBVIOUS
<1>2. \A i \in 1 .. Len(s) : (s \o t)[i] = s[i]
  OBVIOUS
<1>3. \A i \in 1 .. Len(t) : (s \o t)[Len(s) + i] = t[i]
  OBVIOUS
<1> QED BY <1>1, <1>2, <1>3, ConcatProperties

LEMMA UpToStart ==
  ASSUME NEW s \in Seq(Nat), NEW t \in Seq(Nat), NEW n \in Nat, s \o t = UpTo(n)
  PROVE  s = UpTo(Len(s)) /\ Len(s) <= n
<1> DEFINE all == s \o t
<1>1. /\ Len(all) = Len(s) + Len(t) /\ Len(s) \in Nat /\ Len(t) \in Nat
      /\ \A i \in 1 .. Len(s) : all[i] = s[i]
  BY Joined
<1>2. Len(UpTo(n)) = n /\ \A k \in 1 .. n : UpTo(n)[k] = k
  BY UpToIs
<1> DEFINE up == UpTo(n)
<1>a. all = up
  OBVIOUS
<1> HIDE DEF all, up
<1>b. Len(up) = n /\ \A k \in 1 .. n : up[k] = k
  BY <1>2 DEF up
<1>3. Len(all) = n /\ \A k \in 1 .. n : all[k] = k
  BY <1>a, <1>b
<1>4. \A i \in 1 .. Len(s) : s[i] = i
  BY <1>1, <1>3
<1> QED BY <1>1, <1>3, <1>4, UpToOnly

LEMMA UpToNext ==
  ASSUME NEW n \in Nat
  PROVE  Append(UpTo(n), n + 1) = UpTo(n + 1) /\ UpTo(n) \o <<n + 1>> = UpTo(n + 1)
<1>1. UpTo(n) \in Seq(Nat) /\ Len(UpTo(n)) = n /\ \A k \in 1 .. n : UpTo(n)[k] = k
  BY UpToIs
<1> DEFINE s == UpTo(n)
           t == Append(s, n + 1)
<1> HIDE DEF s
<1>2. s \in Seq(Nat) /\ Len(s) = n /\ \A k \in 1 .. n : s[k] = k
  BY <1>1 DEF s
<1>3. t \in Seq(Nat) /\ Len(t) = n + 1 /\ \A k \in 1 .. n + 1 : t[k] = k
  BY <1>2
<1>4. t = s \o <<n + 1>>
  BY <1>2
<1> HIDE DEF t
<1>5. t = UpTo(n + 1)
  BY <1>3, UpToOnly
<1> QED BY <1>4, <1>5 DEF s, t

LEMMA RisingStart ==
  ASSUME NEW s \in Seq(Nat), NEW t \in Seq(Nat), NEW n \in Nat, Rising(s \o t, n)
  PROVE  Rising(s, n)
<1>1. /\ Len(s \o t) = Len(s) + Len(t) /\ Len(s) \in Nat /\ Len(t) \in Nat /\ s \o t \in Seq(Nat)
      /\ \A i \in 1 .. Len(s) + Len(t) : (s \o t)[i] = IF i <= Len(s) THEN s[i] ELSE t[i - Len(s)]
  BY ConcatProperties
<1> DEFINE all == s \o t
<1> HIDE DEF all
<1>2. /\ DOMAIN all = 1 .. Len(s) + Len(t) /\ \A i \in 1 .. Len(s) : all[i] = s[i]
      /\ Rising(all, n) /\ DOMAIN s = 1 .. Len(s)
  BY <1>1 DEF all
<1> QED BY <1>1, <1>2 DEF Rising

\* Text left out of the middle.
LEMMA RisingAround ==
  ASSUME NEW s \in Seq(Nat), NEW h \in Seq(Nat), NEW t \in Seq(Nat), NEW n \in Nat,
         Rising((s \o h) \o t, n)
  PROVE  Rising(s \o t, n)
<1> DEFINE a == Len(s)
           b == Len(h)
           c == Len(t)
           sh == s \o h
           all == sh \o t
           st == s \o t
<1>1. /\ a \in Nat /\ b \in Nat /\ c \in Nat /\ sh \in Seq(Nat) /\ Len(sh) = a + b
      /\ \A i \in 1 .. a : sh[i] = s[i]
  BY ConcatProperties
<1>2. /\ st \in Seq(Nat) /\ Len(st) = a + c /\ \A i \in 1 .. a : st[i] = s[i]
      /\ \A i \in 1 .. c : st[a + i] = t[i]
  BY Joined
<1> HIDE DEF sh, st
<1>3. /\ all \in Seq(Nat) /\ Len(all) = a + b + c
      /\ \A i \in 1 .. a + b : all[i] = sh[i]
      /\ \A i \in 1 .. c : all[a + b + i] = t[i]
  <2>1. /\ all \in Seq(Nat) /\ Len(all) = Len(sh) + c
        /\ \A i \in 1 .. Len(sh) : all[i] = sh[i]
        /\ \A i \in 1 .. c : all[Len(sh) + i] = t[i]
    BY <1>1, Joined
  <2>2. Len(sh) = a + b
    BY <1>1
  <2> HIDE DEF all, a, b, c
  <2> QED BY <2>1, <2>2
<1> HIDE DEF all
<1>4. Rising(all, n)
  BY DEF all, sh
<1> HIDE DEF a, b, c
<1> DEFINE at(i) == IF i <= a THEN i ELSE i + b
<1>a. \A i \in 1 .. a + c : (i <= a => at(i) = i) /\ (i > a => at(i) = i + b)
  BY <1>1
<1> HIDE DEF at
<1>5. ASSUME NEW i \in 1 .. a + c PROVE at(i) \in 1 .. a + b + c /\ st[i] = all[at(i)]
  <2>1. CASE i <= a
    <3>1. at(i) = i /\ i \in 1 .. a /\ i \in 1 .. a + b
      BY <1>1, <1>a, <2>1
    <3> QED BY <1>1, <1>2, <1>3, <3>1
  <2>2. CASE i > a
    <3>1. i - a \in 1 .. c /\ at(i) = i + b /\ a + (i - a) = i /\ a + b + (i - a) = i + b
      BY <1>1, <1>a, <2>2
    <3>2. st[i] = t[i - a] /\ all[i + b] = t[i - a]
      BY <1>2, <1>3, <3>1
    <3>3. i + b \in 1 .. a + b + c
      BY <1>1
    <3> QED BY <3>1, <3>2, <3>3
  <2> QED BY <1>1, <2>1, <2>2
<1>6. \A i, j \in 1 .. a + c : i < j => at(i) < at(j)
  <2> SUFFICES ASSUME NEW i \in 1 .. a + c, NEW j \in 1 .. a + c, i < j PROVE at(i) < at(j)
    OBVIOUS
  <2>1. (at(i) = i /\ i <= a) \/ (at(i) = i + b /\ i > a)
    BY <1>1, <1>a
  <2>2. (at(j) = j /\ j <= a) \/ (at(j) = j + b /\ j > a)
    BY <1>1, <1>a
  <2> QED BY <1>1, <2>1, <2>2
<1>7. DOMAIN st = 1 .. a + c /\ DOMAIN all = 1 .. a + b + c
  BY <1>2, <1>3
<1>8. ASSUME NEW i \in DOMAIN st
      PROVE  st[i] \in 1 .. n /\ \A j \in DOMAIN st : i < j => st[i] < st[j]
  <2>1. st[i] \in 1 .. n
    BY <1>4, <1>5, <1>7, <1>8 DEF Rising
  <2>2. ASSUME NEW j \in DOMAIN st, i < j PROVE st[i] < st[j]
    <3>1. at(i) \in DOMAIN all /\ at(j) \in DOMAIN all /\ at(i) < at(j)
          /\ st[i] = all[at(i)] /\ st[j] = all[at(j)]
      BY <1>5, <1>6, <1>7, <1>8, <2>2
    <3> QED BY <1>4, <3>1 DEF Rising
  <2> QED BY <2>1, <2>2
<1>9. Rising(st, n)
  BY <1>8 DEF Rising
<1> QED BY <1>9 DEF st

LEMMA RisingNext ==
  ASSUME NEW s \in Seq(Nat), NEW n \in Nat, Rising(s, n)
  PROVE  Rising(Append(s, n + 1), n + 1)
<1> DEFINE t == Append(s, n + 1)
<1>1. /\ DOMAIN t = 1 .. Len(s) + 1 /\ Len(s) \in Nat /\ \A i \in 1 .. Len(s) : t[i] = s[i]
      /\ t[Len(s) + 1] = n + 1 /\ DOMAIN s = 1 .. Len(s)
  OBVIOUS
<1> HIDE DEF t
<1> DEFINE m == Len(s)
<1> HIDE DEF m
<1>2. \A i \in 1 .. m : t[i] \in 1 .. n /\ \A j \in 1 .. m : i < j => t[i] < t[j]
  BY <1>1 DEF Rising, m
<1>a. DOMAIN t = 1 .. m + 1 /\ t[m + 1] = n + 1 /\ m \in Nat
  BY <1>1 DEF m
<1>3. Rising(t, n + 1)
  <2> SUFFICES ASSUME NEW i \in 1 .. m + 1
               PROVE  t[i] \in 1 .. n + 1 /\ \A j \in 1 .. m + 1 : i < j => t[i] < t[j]
    BY <1>a DEF Rising
  <2>1. CASE i = m + 1
    BY <1>a, <2>1
  <2>2. CASE i # m + 1
    <3>1. i \in 1 .. m
      BY <1>a, <2>2
    <3>2. t[i] \in 1 .. n /\ \A j \in 1 .. m : i < j => t[i] < t[j]
      BY <1>2, <3>1
    <3>3. \A j \in 1 .. m + 1 : j \in 1 .. m \/ j = m + 1
      BY <1>a
    <3>4. \A j \in 1 .. m + 1 : i < j => t[i] < t[j]
      BY <1>a, <3>2, <3>3
    <3> QED BY <3>2, <3>4
  <2> QED BY <2>1, <2>2
<1> QED BY <1>3 DEF t

LEMMA RisingOrder ==
  ASSUME NEW s, NEW n \in Nat, Rising(s, n)
  PROVE  Order(s)
BY DEF Rising, Order

\* A message after the text.
LEMMA OrderToldMore ==
  ASSUME NEW s \in Seq(Nat)
  PROVE  /\ Order(s) => Order(s \o EmptyObject) /\ Order(EmptyObject)
         /\ Exact(s) => Exact(s \o EmptyObject) /\ Exact(EmptyObject)
         /\ {i \in DOMAIN EmptyObject : EmptyObject[i] > 0} = {}
<1> DEFINE t == s \o EmptyObject
<1>0. EmptyObject = <<0>>
  BY DEF EmptyObject
<1>1. /\ DOMAIN t = 1 .. Len(s) + 1 /\ Len(s) \in Nat /\ \A i \in 1 .. Len(s) : t[i] = s[i]
      /\ t[Len(s) + 1] = 0 /\ DOMAIN s = 1 .. Len(s)
  BY <1>0
<1>2. DOMAIN EmptyObject = {1} /\ EmptyObject[1] = 0
  BY <1>0
<1> HIDE DEF t
<1>a. \A i \in 1 .. Len(s) + 1 : i \in 1 .. Len(s) \/ i = Len(s) + 1
  BY <1>1
<1>b. \A i \in DOMAIN t : t[i] > 0 => i \in DOMAIN s /\ t[i] = s[i]
  BY <1>1, <1>a
<1>3. Order(s) => Order(t)
  BY <1>b DEF Order
<1>4. Exact(s) => Exact(t)
  BY <1>1 DEF Exact
<1>5. Order(EmptyObject) /\ Exact(EmptyObject) /\ {i \in DOMAIN EmptyObject : EmptyObject[i] > 0} = {}
  BY <1>2 DEF Order, Exact
<1> QED BY <1>3, <1>4, <1>5 DEF t
-----------------------------------------------------------------------------
(* The text of an attempt: what was said, and what the parsers hold.        *)

Heard(said, p) == (said \o p.held) \o (IF p.in_think THEN <<>> ELSE p.tag)

TextOf(said, p, n, bullets, tool) ==
  /\ said \in Seq(Nat) /\ n \in Nat /\ Rising(Heard(said, p), n)
  /\ p.state # "matching" => p.held = <<>>
  /\ ~ bullets => p.state # "matching" /\ Heard(said, p) = UpTo(n)
  /\ ~ tool => said = UpTo(Len(said))
  /\ ~ tool /\ p.state # "parsing" => Heard(said, p) = UpTo(n)

Ordered(said, bullets) == Order(said) /\ (bullets \/ Exact(said))

LEMMA ParserIs ==
  ASSUME NEW p \in ParserRecord
  PROVE  /\ p.held \in Seq(Nat) /\ p.tag \in Seq(Nat) /\ p.in_think \in BOOLEAN
         /\ p.state \in {"text", "matching", "parsing"}
         /\ (IF p.in_think THEN <<>> ELSE p.tag) \in Seq(Nat)
BY DEF ParserRecord

LEMMA CatIs ==
  ASSUME NEW s \in Seq(Nat), NEW t \in Seq(Nat)
  PROVE  Cat(s, t) \in Seq(Nat)
BY ConcatProperties DEF Cat

LEMMA CatTwice ==
  ASSUME NEW s \in Seq(Nat), NEW t \in Seq(Nat), NEW u \in Seq(Nat)
  PROVE  Cat(Cat(s, t), u) = Cat(s, Cat(t, u))
<1> DEFINE m == Len(s)
           n == Len(t)
           k == Len(u)
           st == s \o t
           tu == t \o u
           a == st \o u
           b == s \o tu
<1>1. /\ st \in Seq(Nat) /\ Len(st) = m + n /\ m \in Nat /\ n \in Nat /\ k \in Nat
      /\ \A i \in 1 .. m : st[i] = s[i]
      /\ \A i \in 1 .. n : st[m + i] = t[i]
  BY Joined
<1>2. /\ tu \in Seq(Nat) /\ Len(tu) = n + k
      /\ \A i \in 1 .. n : tu[i] = t[i]
      /\ \A i \in 1 .. k : tu[n + i] = u[i]
  BY Joined
<1> HIDE DEF st, tu
<1>3. /\ a \in Seq(Nat) /\ Len(a) = Len(st) + k
      /\ \A i \in 1 .. Len(st) : a[i] = st[i]
      /\ \A i \in 1 .. k : a[Len(st) + i] = u[i]
  BY <1>1, Joined
<1>4. /\ b \in Seq(Nat) /\ Len(b) = m + Len(tu)
      /\ \A i \in 1 .. m : b[i] = s[i]
      /\ \A i \in 1 .. Len(tu) : b[m + i] = tu[i]
  BY <1>2, Joined
<1> HIDE DEF a, b, m, n, k
<1>5. Len(a) = m + n + k /\ Len(b) = m + n + k
  <2>1. PICK x : x = Len(st)
    OBVIOUS
  <2>2. PICK y : y = Len(tu)
    OBVIOUS
  <2>3. x = m + n /\ Len(a) = x + k
    BY <1>1, <1>3, <2>1, Zenon
  <2>4. y = n + k /\ Len(b) = m + y
    BY <1>2, <1>4, <2>2, Zenon
  <2>5. m \in Nat /\ n \in Nat /\ k \in Nat
    BY <1>1
  <2>6. m + (n + k) = m + n + k
    BY <2>5
  <2> QED BY <2>3, <2>4, <2>6, Zenon
<1>6. ASSUME NEW i \in 1 .. m + n + k PROVE a[i] = b[i]
  <2>1. CASE i <= m
    <3>1. i \in 1 .. m /\ i \in 1 .. m + n
      BY <1>1, <2>1
    <3> QED BY <1>1, <1>3, <1>4, <3>1
  <2>2. CASE i > m /\ i <= m + n
    <3>1. i - m \in 1 .. n /\ i \in 1 .. m + n /\ i - m \in 1 .. n + k /\ m + (i - m) = i
      BY <1>1, <2>2
    <3>2. a[i] = st[i] /\ st[i] = t[i - m]
      BY <1>1, <1>3, <3>1
    <3>3. b[i] = tu[i - m] /\ tu[i - m] = t[i - m]
      BY <1>2, <1>4, <3>1
    <3> QED BY <3>2, <3>3
  <2>3. CASE i > m + n
    <3>1. /\ i - (m + n) \in 1 .. k /\ i - m \in 1 .. n + k /\ (m + n) + (i - (m + n)) = i
          /\ m + (i - m) = i /\ n + (i - (m + n)) = i - m
      BY <1>1, <2>3
    <3>2. a[i] = u[i - (m + n)]
      BY <1>1, <1>3, <3>1
    <3>3. b[i] = tu[i - m] /\ tu[i - m] = u[i - (m + n)]
      BY <1>2, <1>4, <3>1
    <3> QED BY <3>2, <3>3
  <2> QED BY <1>1, <2>1, <2>2, <2>3
<1>7. a = b
  BY <1>3, <1>4, <1>5, <1>6, SeqEqual
<1> QED BY <1>7 DEF Cat, a, b, st, tu

LEMMA HeardIs ==
  ASSUME NEW said \in Seq(Nat), NEW p \in ParserRecord
  PROVE  \E rest \in Seq(Nat) : Heard(said, p) = said \o rest
<1> DEFINE t == IF p.in_think THEN <<>> ELSE p.tag
<1>1. p.held \in Seq(Nat) /\ t \in Seq(Nat)
  BY ParserIs
<1> HIDE DEF t
<1>2. (said \o p.held) \o t = said \o (p.held \o t) /\ p.held \o t \in Seq(Nat)
  <2> DEFINE h == p.held
  <2>1. h \in Seq(Nat)
    BY <1>1
  <2> HIDE DEF h
  <2>2. (said \o h) \o t = said \o (h \o t) /\ h \o t \in Seq(Nat)
    BY <1>1, <2>1, CatTwice, ConcatProperties DEF Cat
  <2> QED BY <2>2 DEF h
<1> QED BY <1>2 DEF Heard, t

\* The text is in order, and complete up to the bullets.
LEMMA TextOrdered ==
  ASSUME NEW said, NEW p \in ParserRecord, NEW n, NEW bullets, NEW tool,
         TextOf(said, p, n, bullets, tool)
  PROVE  Rising(said, n) /\ Ordered(said, bullets)
<1>1. said \in Seq(Nat) /\ n \in Nat /\ Rising(Heard(said, p), n)
  BY DEF TextOf
<1>2. PICK rest \in Seq(Nat) : Heard(said, p) = said \o rest
  BY <1>1, HeardIs
<1>3. Rising(said, n)
  BY <1>1, <1>2, RisingStart
<1>4. Order(said)
  BY <1>1, <1>3, RisingOrder
<1>5. ASSUME ~ bullets PROVE Exact(said)
  <2>1. said \o rest = UpTo(n)
    BY <1>2, <1>5 DEF TextOf
  <2>2. said = UpTo(Len(said)) /\ Len(said) \in Nat
    <3>1. Len(said) \in Nat
      BY <1>1
    <3> QED BY <1>1, <2>1, <3>1, UpToStart, Zenon
  <2>3. Exact(UpTo(Len(said)))
    BY <2>2, UpToIs
  <2> QED BY <2>2, <2>3
<1> QED BY <1>3, <1>4, <1>5, Zenon DEF Ordered

LEMMA OrderedMore ==
  ASSUME NEW said \in Seq(Nat), NEW bullets, Ordered(said, bullets)
  PROVE  Ordered(said \o EmptyObject, bullets)
BY OrderToldMore, Zenon DEF Ordered

\* A tool more.
LEMMA TextTool ==
  ASSUME NEW said, NEW p, NEW n, NEW bullets, NEW tool, TextOf(said, p, n, bullets, tool),
         NEW tool2, tool => tool2
  PROVE  TextOf(said, p, n, bullets, tool2)
BY Zenon DEF TextOf

\* A parser that holds the same text.
LEMMA TextParser ==
  ASSUME NEW said, NEW p, NEW n, NEW bullets, NEW tool, TextOf(said, p, n, bullets, tool),
         NEW q, q.held = p.held, q.state = p.state, Heard(said, q) = Heard(said, p)
  PROVE  TextOf(said, q, n, bullets, tool)
BY Zenon DEF TextOf

\* The header of a tool: what was held before it is not said.
LEMMA TextFunction ==
  ASSUME NEW said, NEW p \in ParserRecord, NEW n, NEW bullets, NEW tool,
         TextOf(said, p, n, bullets, tool), p.tag = <<>>, ~ p.in_think,
         NEW q, q.held = <<>>, q.tag = <<>>, ~ q.in_think, q.state = "parsing"
  PROVE  TextOf(said, q, n, bullets, tool)
<1> DEFINE none == <<>>
<1>1. /\ said \in Seq(Nat) /\ n \in Nat /\ Rising(Heard(said, p), n)
      /\ ~ tool => said = UpTo(Len(said))
  BY Zenon DEF TextOf
<1>2. said \o none = said /\ none \in Seq(Nat)
  BY <1>1
<1>3. q.held = none /\ (IF q.in_think THEN none ELSE q.tag) = none
  OBVIOUS
<1>4. (IF p.in_think THEN none ELSE p.tag) = none
  OBVIOUS
<1>5. ASSUME p.held = none PROVE Heard(said, p) = said
  <2> HIDE DEF none
  <2>1. Heard(said, p) = (said \o none) \o none
    BY <1>4, <1>5, Zenon DEF Heard, none
  <2> QED BY <1>2, <2>1
<1>6. Heard(said, q) = said
  <2> HIDE DEF none
  <2>1. Heard(said, q) = (said \o none) \o none
    BY <1>3, Zenon DEF Heard, none
  <2> QED BY <1>2, <2>1
<1>7. Rising(said, n)
  BY TextOrdered
<1>8. ~ bullets => Heard(said, q) = UpTo(n)
  <2>1. ~ bullets => p.held = none /\ Heard(said, p) = UpTo(n)
    BY DEF TextOf
  <2> QED BY <1>5, <1>6, <2>1
<1>9. q.state # "matching" /\ q.state = "parsing"
  OBVIOUS
<1> QED BY <1>1, <1>3, <1>6, <1>7, <1>8, <1>9, Zenon DEF TextOf

\* A piece of text through both parsers.
Passing(said, p, n, part, say, q) ==
  /\ said \in Seq(Nat) /\ p \in ParserRecord /\ ~ p.in_think /\ n \in Nat
  /\ part \in Seq(Nat) /\ q \in ParserRecord /\ ~ q.in_think /\ say \in Seq(Nat)
  /\ Cat(part, q.tag) = Append(p.tag, n) /\ Cat(say, q.held) = Cat(p.held, part)

LEMMA HeardFed ==
  ASSUME NEW said, NEW p, NEW n, NEW part, NEW say, NEW q, Passing(said, p, n, part, say, q)
  PROVE  Heard(Cat(said, say), q) = Append(Heard(said, p), n)
<1>0. /\ said \in Seq(Nat) /\ p \in ParserRecord /\ ~ p.in_think /\ n \in Nat
      /\ part \in Seq(Nat) /\ q \in ParserRecord /\ ~ q.in_think /\ say \in Seq(Nat)
      /\ Cat(part, q.tag) = Append(p.tag, n) /\ Cat(say, q.held) = Cat(p.held, part)
  BY DEF Passing
<1> DEFINE h == p.held
           k == q.held
           t == p.tag
           tag == q.tag
           one == <<n>>
<1>1. h \in Seq(Nat) /\ k \in Seq(Nat) /\ t \in Seq(Nat) /\ tag \in Seq(Nat)
  BY <1>0, ParserIs
<1>2. Heard(Cat(said, say), q) = ((said \o say) \o k) \o tag
  BY <1>0, Zenon DEF Heard, Cat
<1>3. Heard(said, p) = (said \o h) \o t
  BY <1>0, Zenon DEF Heard
<1>4. Append(t, n) = t \o one /\ one \in Seq(Nat) /\ say \o k = h \o part /\ part \o tag = t \o one
  <2>1. one \in Seq(Nat)
    BY <1>0
  <2>2. Append(t, n) = t \o one
    BY <1>0, <1>1, AppendIsConcat, Zenon
  <2>3. say \o k = h \o part /\ part \o tag = Append(t, n)
    BY <1>0 DEF Cat
  <2> QED BY <2>1, <2>2, <2>3
<1> HIDE DEF h, k, t, one, tag
<1>a. one \in Seq(Nat) /\ Cat(say, k) = Cat(h, part) /\ Cat(part, tag) = Cat(t, one)
  BY <1>4 DEF Cat
<1>5. Cat(said, h) \in Seq(Nat) /\ Cat(Cat(said, h), t) \in Seq(Nat)
  BY <1>0, <1>1, CatIs
<1>6. Cat(Cat(said, say), k) = Cat(said, Cat(say, k))
  BY <1>0, <1>1, CatTwice
<1>7. Cat(said, Cat(h, part)) = Cat(Cat(said, h), part)
  BY <1>0, <1>1, CatTwice
<1>8. Cat(Cat(Cat(said, h), part), tag) = Cat(Cat(said, h), Cat(part, tag))
  BY <1>0, <1>1, <1>5, CatTwice
<1>9. Cat(Cat(said, h), Cat(t, one)) = Cat(Cat(Cat(said, h), t), one)
  BY <1>1, <1>5, <1>a, CatTwice
<1>b. Cat(Cat(Cat(said, say), k), tag) = Cat(Cat(Cat(said, h), t), one)
  BY <1>a, <1>6, <1>7, <1>8, <1>9, Zenon
<1>10. Append(Cat(Cat(said, h), t), n) = Cat(Cat(Cat(said, h), t), one)
  <2> DEFINE all == Cat(Cat(said, h), t)
  <2>1. all \in Seq(Nat)
    BY <1>5
  <2> HIDE DEF all
  <2>2. Append(all, n) = all \o one
    BY <1>0, <2>1, AppendIsConcat DEF one
  <2> QED BY <2>2 DEF all, Cat
<1>c. Heard(Cat(said, say), q) = Cat(Cat(Cat(said, say), k), tag)
  BY <1>2 DEF Cat
<1>d. Heard(said, p) = Cat(Cat(said, h), t)
  BY <1>3 DEF Cat
<1> QED BY <1>b, <1>10, <1>c, <1>d, Zenon

Passes(p, n, partial) ==
  LET part == Through(p, n, partial)
      q == Retagged(p, n, partial)
  IN  /\ part \in Seq(Nat) /\ q \in ParserRecord /\ q.held = p.held /\ q.state = p.state
      /\ q.in_think = p.in_think /\ Cat(part, q.tag) = Append(p.tag, n)
LEMMA PassesIs ==
  ASSUME NEW p \in ParserRecord, NEW n \in Nat, NEW partial \in BOOLEAN
  PROVE  Passes(p, n, partial)
BY ThroughIs DEF Passes, Cat

\* A piece of text through both parsers leaves the text in order.
Feeding(said, p, n, bullets, tool, bullet, partial, f, tool2) ==
  /\ p \in ParserRecord /\ bullets \in BOOLEAN /\ bullet \in BOOLEAN /\ partial \in BOOLEAN
  /\ TextOf(said, p, n, bullets, tool) /\ ~ p.in_think
  /\ f \in Feed(Retagged(p, n + 1, partial), Through(p, n + 1, partial), bullet)
  /\ (tool => tool2) /\ (f.tool => tool2)

LEMMA TextFed ==
  ASSUME NEW said, NEW p, NEW n, NEW bullets, NEW tool, NEW bullet, NEW partial, NEW f, NEW tool2,
         Feeding(said, p, n, bullets, tool, bullet, partial, f, tool2)
  PROVE  TextOf(said \o f.say, f.parser, n + 1, bullets \/ bullet, tool2)
<1>0. /\ p \in ParserRecord /\ bullets \in BOOLEAN /\ bullet \in BOOLEAN /\ partial \in BOOLEAN
      /\ TextOf(said, p, n, bullets, tool) /\ ~ p.in_think
      /\ f \in Feed(Retagged(p, n + 1, partial), Through(p, n + 1, partial), bullet)
      /\ (tool => tool2) /\ (f.tool => tool2)
  BY Zenon DEF Feeding
<1> DEFINE m == n + 1
           q == Retagged(p, m, partial)
           part == Through(p, m, partial)
           none == <<>>
<1>1. /\ said \in Seq(Nat) /\ n \in Nat /\ Rising(Heard(said, p), n)
      /\ p.state # "matching" => p.held = <<>>
      /\ ~ bullets => p.state # "matching" /\ Heard(said, p) = UpTo(n)
      /\ ~ tool => said = UpTo(Len(said))
      /\ ~ tool /\ p.state # "parsing" => Heard(said, p) = UpTo(n)
  BY <1>0, Zenon DEF TextOf
<1>2. m \in Nat
  BY <1>1
<1>a. Passes(p, m, partial)
  BY <1>0, <1>2, PassesIs
<1>3. /\ part \in Seq(Nat) /\ q \in ParserRecord /\ q.held = p.held /\ q.state = p.state
      /\ q.in_think = p.in_think /\ Cat(part, q.tag) = Append(p.tag, m) /\ q.tag \in Seq(Nat)
  <2>1. /\ part \in Seq(Nat) /\ q \in ParserRecord /\ q.held = p.held /\ q.state = p.state
        /\ q.in_think = p.in_think /\ Cat(part, q.tag) = Append(p.tag, m)
    BY <1>a, Zenon DEF Passes
  <2> HIDE DEF q, part, m
  <2> QED BY <2>1, ParserIs
<1>4. f \in Feed(q, part, bullet)
  BY <1>0
<1>5. m = n + 1
  OBVIOUS
<1> HIDE DEF m, q, part
<1>b. Fed(q, part, bullet, f)
  BY <1>0, <1>3, <1>4, FeedIs
<1>6. /\ f.say \in Seq(Nat) /\ f.parser \in ParserRecord
      /\ f.parser.tag = q.tag /\ f.parser.in_think = q.in_think
      /\ part = <<>> => f.parser = q /\ f.say = <<>>
      /\ part # <<>> => (q.state = "parsing" => f.tool)
      /\ (q.state # "matching" => q.held = <<>>) =>
           /\ Cat(f.say, f.parser.held) = Cat(q.held, part)
           /\ f.parser.state # "matching" => f.parser.held = <<>>
      /\ ~ bullet /\ q.state # "matching" => f.parser.state # "matching"
  BY <1>b, Zenon DEF Fed
<1> DEFINE say == f.say
           r == f.parser
           new == said \o say
           before == Heard(said, p)
           after == Heard(new, r)
<1> HIDE DEF none
<1>7. /\ q.state # "matching" => q.held = none
      /\ Cat(say, r.held) = Cat(q.held, part) /\ (r.state # "matching" => r.held = none)
      /\ part = none => r = q /\ say = none
  BY <1>1, <1>3, <1>6, Zenon DEF none
<1>8. after = Append(before, m)
  <2>1. /\ say \in Seq(Nat) /\ r \in ParserRecord /\ r.tag = q.tag /\ ~ r.in_think
        /\ Cat(say, r.held) = Cat(p.held, part) /\ Cat(part, r.tag) = Append(p.tag, m)
    BY <1>0, <1>3, <1>6, <1>7
  <2> HIDE DEF say, r
  <2>2. Heard(Cat(said, say), r) = Append(Heard(said, p), m)
    <3>1. said \in Seq(Nat) /\ m \in Nat /\ part \in Seq(Nat)
      BY <1>1, <1>2, <1>3
    <3>2. Passing(said, p, m, part, say, r)
      BY <1>0, <2>1, <3>1, Zenon DEF Passing
    <3> QED BY <3>2, HeardFed
  <2>3. Heard(said \o say, r) = Append(Heard(said, p), m)
    BY <2>2 DEF Cat
  <2> QED BY <2>3 DEF say, r
<1>9. new \in Seq(Nat) /\ (say = none => new = said)
  BY <1>1, <1>6 DEF none
<1>10. \E rest \in Seq(Nat) : after = new \o rest
  BY <1>6, <1>9, HeardIs
<1> HIDE DEF say, r, new, before, after
<1>11. Rising(after, m)
  <2>1. before \in Seq(Nat) /\ Rising(before, n)
    <3>1. \E rest \in Seq(Nat) : Heard(said, p) = said \o rest
      BY <1>0, <1>1, HeardIs
    <3>2. Heard(said, p) \in Seq(Nat)
      BY <1>1, <3>1
    <3> QED BY <1>1, <3>2 DEF before
  <2> QED BY <1>1, <1>5, <1>8, <2>1, RisingNext
<1>12. before = UpTo(n) => after = UpTo(m)
  <2>1. Append(UpTo(n), n + 1) = UpTo(n + 1)
    BY <1>1, UpToNext
  <2> QED BY <1>5, <1>8, <2>1, Zenon
<1>13. before = UpTo(n) => new = UpTo(Len(new))
  <2>1. PICK rest \in Seq(Nat) : after = new \o rest
    BY <1>10
  <2>2. new \o rest = UpTo(m) => new = UpTo(Len(new))
    BY <1>2, <1>9, UpToStart
  <2> QED BY <1>12, <2>1, <2>2, Zenon
<1>14. ~ (bullets \/ bullet) => r.state # "matching" /\ after = UpTo(m)
  BY <1>1, <1>3, <1>6, <1>12, Zenon DEF before, r
<1>15. CASE part = none
  <2>1. r.state = p.state /\ new = said
    BY <1>3, <1>7, <1>9, <1>15
  <2>2. ~ tool2 => new = UpTo(Len(new))
    BY <1>0, <1>1, <2>1, Zenon
  <2>3. ~ tool2 /\ r.state # "parsing" => after = UpTo(m)
    BY <1>0, <1>1, <1>12, <2>1, Zenon DEF before
  <2> QED BY <1>2, <1>7, <1>9, <1>11, <1>14, <2>2, <2>3, Zenon DEF TextOf, after, new, r, say, m, none
<1>16. CASE part # none
  <2>1. ~ tool2 => before = UpTo(n)
    <3>1. q.state = "parsing" => f.tool
      BY <1>6, <1>16, Zenon DEF none
    <3> QED BY <1>0, <1>1, <1>3, <3>1, Zenon DEF before
  <2>2. ~ tool2 => new = UpTo(Len(new)) /\ after = UpTo(m)
    BY <1>12, <1>13, <2>1, Zenon
  <2> QED BY <1>2, <1>7, <1>9, <1>11, <1>14, <2>2, Zenon DEF TextOf, after, new, r, say, m, none
<1> QED BY <1>15, <1>16
-----------------------------------------------------------------------------
(* Where a continuation is joined to the text.                              *)

LEMMA StretchOf ==
  ASSUME NEW s \in Seq(Nat), NEW l \in Nat, NEW h \in Nat, l <= h, h <= Len(s)
  PROVE  LET t == SubSeq(s, l + 1, h)
         IN  t \in Seq(Nat) /\ Len(t) = h - l /\ \A k \in 1 .. h - l : t[k] = s[l + k]
<1>1. PICK a : a = l + 1
  OBVIOUS
<1>2. a \in Int /\ h \in Int /\ \A i \in a .. h : s[i] \in Nat
  BY <1>1
<1> DEFINE t == SubSeq(s, a, h)
<1>3. /\ t \in Seq(Nat) /\ Len(t) = (IF a <= h THEN h - a + 1 ELSE 0)
      /\ \A i \in 1 .. h - a + 1 : t[i] = s[a + i - 1]
  BY <1>2, SubSeqProperties
<1> HIDE DEF t
<1>4. Len(t) = h - l
  <2>1. PICK x : x = Len(t)
    OBVIOUS
  <2>2. x = (IF a <= h THEN h - a + 1 ELSE 0)
    BY <1>3, <2>1, Zenon
  <2>3. x = h - l
    BY <1>1, <2>2
  <2> QED BY <2>1, <2>3, Zenon
<1>5. ASSUME NEW k \in 1 .. h - l PROVE t[k] = s[l + k]
  <2>1. k \in 1 .. h - a + 1 /\ a + k - 1 = l + k
    BY <1>1
  <2> QED BY <1>3, <2>1
<1> QED BY <1>1, <1>3, <1>4, <1>5 DEF t

LEMMA PrefixIs ==
  ASSUME NEW s \in Seq(Nat), NEW t \in Seq(Nat)
  PROVE  IsPrefix(s, t) <=> Len(s) <= Len(t) /\ \A i \in 1 .. Len(s) : s[i] = t[i]
<1>1. PICK n : n = Len(s)
  OBVIOUS
<1>2. n \in Nat /\ Len(t) \in Nat
  BY <1>1
<1> DEFINE a == SubSeq(s, 0 + 1, n)
           b == SubSeq(t, 0 + 1, n)
<1>3. IsPrefix(s, t) <=> n <= Len(t) /\ a = b
  <2>1. 0 + 1 = 1
    OBVIOUS
  <2> QED BY <1>1, <2>1 DEF IsPrefix
<1>4. a \in Seq(Nat) /\ Len(a) = n - 0 /\ \A k \in 1 .. n - 0 : a[k] = s[0 + k]
  BY <1>1, <1>2, StretchOf
<1>5. n <= Len(t) => b \in Seq(Nat) /\ Len(b) = n - 0 /\ \A k \in 1 .. n - 0 : b[k] = t[0 + k]
  BY <1>2, StretchOf
<1> HIDE DEF a, b
<1>6. n - 0 = n /\ \A k \in 1 .. n : 0 + k = k
  BY <1>2
<1>7. ASSUME n <= Len(t) PROVE a = b <=> \A i \in 1 .. n : s[i] = t[i]
  <2>1. /\ a \in Seq(Nat) /\ b \in Seq(Nat) /\ Len(a) = n /\ Len(b) = n
        /\ \A k \in 1 .. n : a[k] = s[k] /\ b[k] = t[k]
    BY <1>4, <1>5, <1>6, <1>7
  <2>2. (\A i \in 1 .. n : s[i] = t[i]) => a = b
    <3>1. (\A i \in 1 .. Len(a) : a[i] = b[i]) => a = b
      BY <2>1, SeqEqual
    <3> QED BY <2>1, <3>1
  <2> QED BY <2>1, <2>2
<1> QED BY <1>1, <1>3, <1>7

LEMMA ReverseIs ==
  ASSUME NEW s \in Seq(Nat)
  PROVE  /\ Reverse(s) \in Seq(Nat) /\ Len(Reverse(s)) = Len(s)
         /\ \A i \in 1 .. Len(s) : Reverse(s)[i] = s[Len(s) - i + 1]
<1>1. PICK n : n = Len(s)
  OBVIOUS
<1>2. n \in Nat /\ \A i \in 1 .. n : s[(n - i) + 1] \in Nat
  BY <1>1
<1>3. Reverse(s) = [i \in 1 .. n |-> s[(n - i) + 1]]
  BY <1>1 DEF Reverse
<1> QED BY <1>1, <1>2, <1>3

LEMMA SuffixIs ==
  ASSUME NEW s \in Seq(Nat), NEW t \in Seq(Nat), Len(s) <= Len(t)
  PROVE  IsSuffix(s, t) <=>
           \A i \in 1 .. Len(s) : s[Len(s) - i + 1] = t[Len(t) - i + 1]
<1> DEFINE a == Reverse(s)
           b == Reverse(t)
<1>1. /\ a \in Seq(Nat) /\ Len(a) = Len(s) /\ b \in Seq(Nat) /\ Len(b) = Len(t)
      /\ \A i \in 1 .. Len(s) : a[i] = s[Len(s) - i + 1]
      /\ \A i \in 1 .. Len(t) : b[i] = t[Len(t) - i + 1]
  BY ReverseIs
<1>2. IsSuffix(s, t) <=> IsPrefix(a, b)
  BY DEF IsSuffix
<1> HIDE DEF a, b
<1>3. IsPrefix(a, b) <=> Len(a) <= Len(b) /\ \A i \in 1 .. Len(a) : a[i] = b[i]
  BY <1>1, PrefixIs
<1>4. \A i \in 1 .. Len(s) : i \in 1 .. Len(t)
  <2>1. Len(s) \in Nat /\ Len(t) \in Nat
    OBVIOUS
  <2> QED BY <2>1
<1>5. (\A i \in 1 .. Len(s) : a[i] = b[i]) <=>
        \A i \in 1 .. Len(s) : s[Len(s) - i + 1] = t[Len(t) - i + 1]
  <2> DEFINE up(i) == s[Len(s) - i + 1]
             down(i) == t[Len(t) - i + 1]
  <2>1. \A i \in 1 .. Len(s) : a[i] = up(i) /\ b[i] = down(i)
    BY <1>1, <1>4, Zenon
  <2> HIDE DEF up, down
  <2>2. (\A i \in 1 .. Len(s) : a[i] = b[i]) <=> \A i \in 1 .. Len(s) : up(i) = down(i)
    BY <2>1, Zenon
  <2> QED BY <2>2 DEF up, down
<1> QED BY <1>1, <1>2, <1>3, <1>5, Zenon
LEMMA OneIs ==
  ASSUME NEW t \in Seq(Nat), Len(t) = 1
  PROVE  t = <<t[1]>>
<1>1. PICK y : y = t[1]
  OBVIOUS
<1>2. y \in Nat
  <2>1. 1 \in 1 .. Len(t)
    OBVIOUS
  <2> QED BY <1>1, <2>1
<1> DEFINE u == <<y>>
<1>3. u \in Seq(Nat) /\ Len(u) = 1 /\ u[1] = y
  BY <1>2
<1> HIDE DEF u
<1>4. \A i \in 1 .. Len(t) : t[i] = u[i]
  BY <1>1, <1>3
<1>5. t = u
  BY <1>3, <1>4, SeqEqual
<1> QED BY <1>1, <1>5 DEF u

\* A continuation that goes on to new text is numbered from where it was asked to start.
LEMMA StretchFrom ==
  ASSUME ~ ShortRepeats, NEW n \in Nat, NEW s \in Seq(Nat), Len(s) = n,
         NEW c \in Stretches(s), c # <<>>
  PROVE  \E i \in 0 .. n : /\ c \in Seq(Nat) /\ Len(c) = n + 1 - i
                           /\ \A k \in 1 .. n + 1 - i : c[k] = i + k
<1>1. PICK i \in 0 .. n, j \in 0 .. n + 1 : c = [k \in 1 .. j - i |-> i + k]
  BY DEF Stretches, Candidates
<1>2. c \in Seq(Nat)
  <2>1. TRUE \in BOOLEAN
    OBVIOUS
  <2> QED BY <2>1, StretchIs
<1>3. c[Len(c)] > n
  BY DEF Stretches
<1>4. Len(c) \in Nat /\ Len(c) # 0 /\ DOMAIN c = 1 .. Len(c)
  BY <1>2
<1>5. DOMAIN c = 1 .. j - i
  BY <1>1
<1>6. PICK m : m = Len(c)
  OBVIOUS
<1>7. m = j - i
  <2>1. m \in Nat /\ m # 0 /\ 1 .. m = 1 .. j - i
    BY <1>4, <1>5, <1>6
  <2>2. m \in 1 .. j - i /\ 1 \in 1 .. j - i
    BY <2>1
  <2>3. j - i \in 1 .. m
    BY <2>1, <2>2
  <2> QED BY <2>1, <2>2, <2>3
<1>8. c[m] = i + m
  <2>1. m \in 1 .. j - i
    BY <1>4, <1>6, <1>7
  <2> QED BY <1>1, <2>1
<1>9. j = n + 1
  <2>1. j > n
    BY <1>3, <1>6, <1>7, <1>8
  <2> QED BY <2>1
<1>10. Len(c) = n + 1 - i /\ \A k \in 1 .. n + 1 - i : c[k] = i + k
  BY <1>1, <1>6, <1>7, <1>9
<1> QED BY <1>2, <1>10

\* Joined to a text that is complete so far, it brings the next piece or nothing.
LEMMA SuffixAfter ==
  ASSUME ~ ShortRepeats, NEW n \in Nat, NEW s, s = UpTo(n), NEW c \in Stretches(s),
         NEW short \in BOOLEAN
  PROVE  ContinuationSuffix(s, c, short) \in {<<>>, <<n + 1>>}
<1>1. s \in Seq(Nat) /\ Len(s) = n /\ \A k \in 1 .. n : s[k] = k
  BY UpToIs
<1>2. CASE c = <<>>
  BY <1>2 DEF ContinuationSuffix
<1>3. CASE c # <<>>
  <2>1. PICK i \in 0 .. n : /\ c \in Seq(Nat) /\ Len(c) = n + 1 - i
                            /\ \A k \in 1 .. n + 1 - i : c[k] = i + k
    BY <1>1, <1>3, StretchFrom
  <2> DEFINE last == <<n + 1>>
             m == n + 1 - i
  <2>2. m \in Nat /\ m >= 1 /\ m + i = n + 1
    BY <2>1
  <2>3. SubSeq(c, m, m) = last
    <3>1. SubSeq(c, m, m) = <<c[m]>>
      <4>1. c \in Seq(Nat) /\ m \in 1 .. Len(c)
        BY <2>1, <2>2
      <4>2. PICK x : x = m - 1
        OBVIOUS
      <4>3. x \in Nat /\ m = x + 1 /\ m - x = 1 /\ x <= m /\ m <= Len(c)
        BY <2>2, <4>1, <4>2
      <4> HIDE DEF m
      <4> DEFINE t == SubSeq(c, x + 1, m)
      <4>4. t \in Seq(Nat) /\ Len(t) = m - x /\ \A k \in 1 .. m - x : t[k] = c[x + k]
        BY <2>1, <2>2, <4>3, StretchOf
      <4> HIDE DEF t
      <4>5. Len(t) = 1 /\ t[1] = c[m]
        BY <4>3, <4>4
      <4>6. t = <<c[m]>>
        BY <4>4, <4>5, OneIs
      <4> QED BY <4>3, <4>6 DEF t
    <3>2. c[m] = n + 1
      BY <2>1, <2>2
    <3> QED BY <3>1, <3>2
  <2>4. CASE IsPrefix(s, c)
    <3>1. n <= m /\ \A k \in 1 .. n : s[k] = c[k]
      BY <1>1, <2>1, <2>4, PrefixIs
    <3>2. i = 0
      <4>1. CASE n = 0
        BY <2>1, <4>1
      <4>2. CASE n # 0
        <5>1. 1 \in 1 .. n /\ 1 \in 1 .. m
          BY <2>2, <4>2
        <5> QED BY <1>1, <2>1, <3>1, <5>1
      <4> QED BY <4>1, <4>2
    <3>3. Len(s) + 1 = m /\ Len(c) = m
      BY <1>1, <2>1, <3>2
    <3>4. ContinuationSuffix(s, c, short) = SubSeq(c, Len(s) + 1, Len(c))
      BY <1>3, <2>4, Zenon DEF ContinuationSuffix
    <3> QED BY <2>3, <3>3, <3>4, Zenon
  <2>5. CASE ~ IsPrefix(s, c)
    <3> DEFINE S == Overlaps(s, c)
    <3>1. ASSUME NEW k \in S PROVE k = n - i
      <4>1. k \in 1 .. m /\ k <= n /\ IsSuffix(SubSeq(c, 0 + 1, k), s)
        <5>1. 0 + 1 = 1
          OBVIOUS
        <5> QED BY <1>1, <2>1, <3>1, <5>1 DEF Overlaps
      <4> DEFINE t == SubSeq(c, 0 + 1, k)
      <4>2. t \in Seq(Nat) /\ Len(t) = k - 0 /\ \A x \in 1 .. k - 0 : t[x] = c[0 + x]
        BY <2>1, <2>2, <4>1, StretchOf
      <4> HIDE DEF t
      <4>3. k - 0 = k /\ k \in 1 .. k - 0 /\ 0 + k = k /\ k \in Nat
        BY <4>1
      <4>4. \A x \in 1 .. k : t[k - x + 1] = s[n - x + 1]
        <5>1. Len(t) = k /\ Len(t) <= Len(s)
          BY <1>1, <4>1, <4>2, <4>3
        <5>2. \A x \in 1 .. Len(t) : t[Len(t) - x + 1] = s[Len(s) - x + 1]
          BY <1>1, <4>1, <4>2, <5>1, SuffixIs DEF t
        <5> QED BY <1>1, <5>1, <5>2
      <4>5. 1 \in 1 .. k /\ k - 1 + 1 = k /\ n - 1 + 1 = n /\ n \in 1 .. n
        BY <4>1
      <4>6. t[k] = s[n] /\ t[k] = c[k]
        BY <4>2, <4>3, <4>4, <4>5
      <4>7. s[n] = n /\ c[k] = i + k
        BY <1>1, <2>1, <4>1, <4>5
      <4>8. i + k = n
        BY <4>6, <4>7
      <4> QED BY <2>1, <4>1, <4>8
    <3>2. CASE S # {}
      <4>1. S = {n - i}
        BY <3>1, <3>2
      <4>2. S \subseteq 1 .. m
        BY <2>1 DEF Overlaps
      <4> HIDE DEF S
      <4>3. Max(S) = n - i
        BY <2>2, <3>2, <4>1, <4>2, Greatest
      <4>4. Max(S) + 1 = m /\ Len(c) = m
        BY <2>1, <4>3
      <4>5. ContinuationSuffix(s, c, short) = SubSeq(c, Max(S) + 1, Len(c))
        BY <1>3, <2>5, <3>2, Zenon DEF ContinuationSuffix, S
      <4> QED BY <2>3, <4>4, <4>5, Zenon
    <3>3. CASE S = {}
      <4>1. i = n
        <5> SUFFICES ASSUME i # n PROVE n - i \in S
          BY <3>3
        <5>1. PICK k : k = n - i
          OBVIOUS
        <5>2. k \in 1 .. m /\ k <= n /\ k \in Nat /\ k <= m /\ 0 <= k /\ 0 \in Nat
          BY <2>1, <5>1
        <5> DEFINE t == SubSeq(c, 0 + 1, k)
        <5>3. t \in Seq(Nat) /\ Len(t) = k - 0 /\ \A x \in 1 .. k - 0 : t[x] = c[0 + x]
          BY <2>1, <5>2, StretchOf
        <5> HIDE DEF t
        <5>4. Len(t) = k /\ Len(t) <= Len(s) /\ \A x \in 1 .. k : t[x] = c[x]
          <6>1. k - 0 = k /\ \A x \in 1 .. k : 0 + x = x
            BY <5>2
          <6> QED BY <1>1, <5>2, <5>3, <6>1
        <5>5. ASSUME NEW x \in 1 .. k PROVE t[k - x + 1] = s[n - x + 1]
          <6>1. /\ k - x + 1 \in 1 .. k /\ k - x + 1 \in 1 .. m /\ n - x + 1 \in 1 .. n
                /\ i + (k - x + 1) = n - x + 1
            BY <2>1, <5>1, <5>2
          <6> QED BY <1>1, <2>1, <5>4, <6>1
        <5>6. IsSuffix(t, s)
          <6>1. \A x \in 1 .. Len(t) : t[Len(t) - x + 1] = s[Len(s) - x + 1]
            BY <1>1, <5>4, <5>5
          <6> QED BY <1>1, <5>3, <5>4, <6>1, SuffixIs
        <5>7. t = SubSeq(c, 1, k)
          BY DEF t
        <5>8. k \in S
          BY <1>1, <2>1, <5>2, <5>6, <5>7 DEF Overlaps
        <5> QED BY <5>1, <5>8
      <4>2. m = 1
        BY <2>1, <4>1
      <4>3. c = last
        <5>1. Len(c) = 1 /\ c[1] = n + 1
          BY <2>1, <4>1, <4>2
        <5> QED BY <2>1, <5>1
      <4>4. ContinuationSuffix(s, c, short) = IF short THEN c ELSE <<>>
        BY <1>3, <2>5, <3>3, Zenon DEF ContinuationSuffix
      <4> QED BY <4>3, <4>4
    <3> QED BY <3>2, <3>3
  <2> QED BY <2>4, <2>5
<1> QED BY <1>2, <1>3
-----------------------------------------------------------------------------
(* The text of the answer through every step.                               *)

\* A new attempt: no text yet.
LEMMA TextFresh ==
  ASSUME NEW p, p.held = <<>>, p.tag = <<>>, p.state = "text", NEW bullets, NEW tool
  PROVE  TextOf(<<>>, p, 0, bullets, tool)
<1> DEFINE none == <<>>
<1>1. none \in Seq(Nat) /\ none \o none = none /\ Len(none) = 0 /\ DOMAIN none = {}
  OBVIOUS
<1>2. none = UpTo(0)
  <2>1. \A i \in 1 .. Len(none) : none[i] = i
    BY <1>1
  <2> HIDE DEF none
  <2>2. none = UpTo(Len(none))
    BY <1>1, <2>1, UpToOnly
  <2> QED BY <1>1, <2>2
<1>3. p.held = none /\ p.tag = none /\ TextOf(<<>>, p, 0, bullets, tool) = TextOf(none, p, 0, bullets, tool)
  OBVIOUS
<1> HIDE DEF none
<1>4. Heard(none, p) = none
  BY <1>1, <1>3 DEF Heard
<1>5. Rising(none, 0)
  BY <1>1 DEF Rising
<1>6. none = UpTo(Len(none)) /\ 0 \in Nat
  BY <1>1, <1>2
<1>7. p.state # "matching"
  OBVIOUS
<1>8. TextOf(none, p, 0, bullets, tool)
  BY <1>1, <1>2, <1>3, <1>4, <1>5, <1>6, <1>7, Zenon DEF TextOf, none
<1> QED BY <1>3, <1>8

Said(said, p) == IF p.in_think THEN said ELSE said \o p.tag
Spells(said, p, n, bullets, tool, new) ==
  /\ p \in ParserRecord /\ TextOf(said, p, n, bullets, tool)
  /\ new = Said(said, p) \/ (new = EmptyObject /\ Said(said, p) = <<>>)
AllOf(said, n, bullets) ==
  Ordered(said, bullets) /\ (bullets \/ {i \in DOMAIN said : said[i] > 0} = 1 .. n)

\* The end of an answer: what the parser for tags held is said, and an answer without
\* anything is given a placeholder.
LEMMA TextAnswered ==
  ASSUME NEW said, NEW p, NEW n, NEW bullets, NEW tool, NEW new,
         Spells(said, p, n, bullets, tool, new)
  PROVE  AllOf(new, n, bullets)
<1> DEFINE t == IF p.in_think THEN <<>> ELSE p.tag
           h == p.held
           none == <<>>
           s == Said(said, p)
<1>0. /\ p \in ParserRecord /\ TextOf(said, p, n, bullets, tool)
      /\ new = s \/ (new = EmptyObject /\ s = <<>>)
  BY Zenon DEF Spells
<1>1. /\ said \in Seq(Nat) /\ n \in Nat /\ Rising(Heard(said, p), n)
      /\ p.state # "matching" => h = none
      /\ ~ bullets => p.state # "matching" /\ Heard(said, p) = UpTo(n)
  BY <1>0, Zenon DEF TextOf
<1>2. h \in Seq(Nat) /\ t \in Seq(Nat)
  BY <1>0, ParserIs
<1>3. s = said \o t
  <2>1. CASE p.in_think
    BY <1>1, <2>1 DEF Said
  <2>2. CASE ~ p.in_think
    BY <2>2 DEF Said
  <2> QED BY <2>1, <2>2
<1>4. Heard(said, p) = (said \o h) \o t
  BY Zenon DEF Heard
<1>5. said \o none = said
  BY <1>1
<1>6. new = s \/ (new = EmptyObject /\ s = none)
  BY <1>0
<1> HIDE DEF t, h, none, s
<1>a. said \o t \in Seq(Nat)
  BY <1>1, <1>2, Joined
<1>7. s \in Seq(Nat)
  BY <1>3, <1>a, Zenon
<1>b. Rising(said \o t, n)
  <2>1. Rising((said \o h) \o t, n)
    BY <1>1, <1>4
  <2> QED BY <1>1, <1>2, <2>1, RisingAround
<1>8. Rising(s, n)
  BY <1>3, <1>b, Zenon
<1>9. ~ bullets => s = UpTo(n)
  <2>1. ~ bullets => h = none
    BY <1>1, Zenon
  <2>2. h = none => (said \o h) \o t = s
    BY <1>3, <1>5
  <2> QED BY <1>1, <1>4, <2>1, <2>2
<1>10. Order(s) /\ (~ bullets => Exact(s) /\ {i \in DOMAIN s : s[i] > 0} = 1 .. n)
  <2>1. Order(s)
    BY <1>1, <1>8, RisingOrder
  <2>2. Exact(UpTo(n)) /\ {i \in DOMAIN UpTo(n) : UpTo(n)[i] > 0} = 1 .. n
    BY <1>1, UpToIs
  <2> QED BY <1>9, <2>1, <2>2
<1>11. CASE new = s
  BY <1>10, <1>11, Zenon DEF Ordered, AllOf
<1>12. CASE new = EmptyObject /\ s = none
  <2>1. /\ Order(s) => Order(EmptyObject)
        /\ Exact(s) => Exact(EmptyObject)
        /\ {i \in DOMAIN EmptyObject : EmptyObject[i] > 0} = {}
    BY <1>7, OrderToldMore
  <2>2. {i \in DOMAIN s : s[i] > 0} = {}
    BY <1>12 DEF none
  <2> QED BY <1>10, <1>12, <2>1, <2>2 DEF Ordered, AllOf
<1> QED BY <1>6, <1>11, <1>12

\* What is said of the text while an answer is written, and when it is over.
Texts == TextOf(chat_ledger.said, chat_parser, chat_upstream.text, chat_upstream.bullets,
                HasToolBlock(chat_ledger))
Ends == Ordered(chat_ledger.said, chat_upstream.bullets)
AllSaid ==
  /\ Paid(chat_ledger, chat_upstream.tools, chat_upstream.args)
  /\ \/ chat_upstream.bullets
     \/ {i \in DOMAIN chat_ledger.said : chat_ledger.said[i] > 0} = 1 .. chat_upstream.text
ChatText ==
  /\ chat_phase \notin ChatOver => Texts
  /\ chat_phase \in ChatOver => Ends
  /\ chat_phase = "answered" => AllSaid

\* Where the stream stays, as far as the text is concerned.
Goes == chat_phase \notin ChatOver /\ chat_phase' \notin ChatOver /\ chat_phase' # "answered"
Keeps == chat_upstream'.text = chat_upstream.text /\ chat_upstream'.bullets = chat_upstream.bullets

LEMMA TextStays ==
  ASSUME ChatText, Goes, Keeps, chat_ledger'.said = chat_ledger.said, chat_parser' = chat_parser,
         HasToolBlock(chat_ledger) => HasToolBlock(chat_ledger')
  PROVE  ChatText'
<1>1. Texts
  BY Zenon DEF ChatText, Goes
<1> DEFINE tool == HasToolBlock(chat_ledger)
           tool2 == HasToolBlock(chat_ledger')
<1>2. tool => tool2
  OBVIOUS
<1>3. TextOf(chat_ledger.said, chat_parser, chat_upstream.text, chat_upstream.bullets, tool)
  BY <1>1, Zenon DEF Texts
<1> HIDE DEF tool, tool2
<1>4. TextOf(chat_ledger.said, chat_parser, chat_upstream.text, chat_upstream.bullets, tool2)
  BY <1>2, <1>3, TextTool
<1>5. Texts'
  BY <1>4, Zenon DEF Texts, Keeps, tool2
<1> QED BY <1>5, Zenon DEF ChatText, Goes

LEMMA HandleGoes ==
  ASSUME NEW w, NEW up, NEW parser, Handle(w, up, parser)
  PROVE  Goes /\ chat_parser' = parser /\ chat_upstream' = [up EXCEPT !.chunks = @ + 1]
BY DEF Handle, Ready, Goes, ChatOver
LEMMA StartsText ==
  ASSUME ChatSafe, ChatText, ChatStarts
  PROVE  ChatText'
<1>1. /\ chat_phase = "starting" /\ chat_phase' = "opening" /\ chat_parser' = chat_parser
      /\ chat_upstream' = chat_upstream
  BY Zenon DEF ChatStarts, Ready
<1>2. Goes /\ Keeps
  BY <1>1 DEF Goes, Keeps, ChatOver
<1>3. ~ HasToolBlock(chat_ledger)
  <2>1. chat_ledger = NewLedger
    BY <1>1, <1>2, Zenon DEF ChatSafe, ChatLive, Goes
  <2> QED BY <2>1, NewLedgerIs DEF HasToolBlock
<1>4. chat_ledger'.said = chat_ledger.said
  BY StartsSafe
<1> QED BY <1>1, <1>2, <1>3, <1>4, TextStays

LEMMA OpensText ==
  ASSUME ChatSafe, ChatText, ChatOpens \/ ChatFinishes
  PROVE  ChatText'
<1>1. /\ chat_phase \in {"opening", "streaming"} /\ chat_phase' = "streaming"
      /\ chat_parser' = chat_parser /\ chat_ledger' = chat_ledger
      /\ chat_upstream' \in {chat_upstream, [chat_upstream EXCEPT !.finished = TRUE]}
  BY DEF ChatOpens, ChatFinishes, Ready
<1>2. chat_upstream \in UpstreamRecord
  BY Zenon DEF ChatSafe, ChatFields
<1>3. Keeps
  BY <1>1, <1>2 DEF Keeps, UpstreamRecord
<1>4. Goes
  BY <1>1 DEF Goes, ChatOver
<1> QED BY <1>1, <1>3, <1>4, TextStays

LEMMA ReasoningText ==
  ASSUME ChatSafe, ChatText, ChatReasoning
  PROVE  ChatText'
<1> DEFINE n == chat_upstream.thinking + 1
           up == [chat_upstream EXCEPT !.thinking = n]
           w == Think(Work(chat_ledger), <<n>>)
<1>1. Handle(w, up, chat_parser)
  BY DEF ChatReasoning
<1> HIDE DEF n, w
<1>2. chat_upstream \in UpstreamRecord
  BY Zenon DEF ChatSafe, ChatFields
<1>3. Goes /\ chat_parser' = chat_parser /\ chat_upstream' = [up EXCEPT !.chunks = @ + 1]
  BY <1>1, HandleGoes
<1>4. Keeps
  BY <1>2, <1>3 DEF Keeps, UpstreamRecord
<1> QED BY <1>3, <1>4, ReasoningSafe, TextStays

LEMMA ToolCallText ==
  ASSUME ChatSafe, ChatText, NEW t \in ChatTools, NEW name \in CallName,
         NEW fragment \in BOOLEAN, ChatToolCall(t, name, fragment)
  PROVE  ChatText'
<1>1. Goes
  BY Zenon, HandleGoes DEF ChatToolCall
<1>2. /\ chat_ledger'.said = chat_ledger.said
      /\ HasToolBlock(chat_ledger) => HasToolBlock(chat_ledger')
      /\ chat_parser' = chat_parser /\ Keeps
  BY ToolCallSafe DEF Keeps
<1> QED BY <1>1, <1>2, TextStays

\* A parser that changed, and holds the same text.
LEMMA ParserText ==
  ASSUME ChatText, Goes, Keeps, chat_ledger'.said = chat_ledger.said,
         HasToolBlock(chat_ledger) => HasToolBlock(chat_ledger'),
         NEW q, chat_parser' = q, q.held = chat_parser.held, q.state = chat_parser.state,
         Heard(chat_ledger.said, q) = Heard(chat_ledger.said, chat_parser)
  PROVE  ChatText'
<1>1. Texts
  BY Zenon DEF ChatText, Goes
<1> DEFINE tool == HasToolBlock(chat_ledger)
           tool2 == HasToolBlock(chat_ledger')
           said == chat_ledger.said
           text == chat_upstream.text
           bullets == chat_upstream.bullets
<1>2. tool => tool2
  OBVIOUS
<1>3. TextOf(said, chat_parser, text, bullets, tool) /\ Heard(said, q) = Heard(said, chat_parser)
  BY <1>1, Zenon DEF Texts
<1> HIDE DEF tool, tool2, said, text, bullets
<1>4. TextOf(said, q, text, bullets, tool)
  BY <1>3, TextParser
<1>5. TextOf(said, q, text, bullets, tool2)
  BY <1>2, <1>4, TextTool
<1>6. Texts'
  BY <1>5, Zenon DEF Texts, Keeps, tool2, said, text, bullets
<1> QED BY <1>6, Zenon DEF ChatText, Goes

LEMMA TagText ==
  ASSUME ChatSafe, ChatText, ChatTag
  PROVE  ChatText'
<1> DEFINE q == [chat_parser EXCEPT !.in_think = ~ @]
           w == Work(chat_ledger)
<1>1. chat_parser.tag = <<>> /\ Handle(w, chat_upstream, q)
  BY DEF ChatTag
<1>2. chat_upstream \in UpstreamRecord /\ chat_parser \in ParserRecord
  BY Zenon DEF ChatSafe, ChatFields
<1>3. q.held = chat_parser.held /\ q.state = chat_parser.state /\ q.tag = chat_parser.tag
  BY <1>2 DEF ParserRecord
<1> HIDE DEF q, w
<1>4. Goes /\ chat_parser' = q /\ chat_upstream' = [chat_upstream EXCEPT !.chunks = @ + 1]
  BY <1>1, HandleGoes
<1>5. Keeps
  BY <1>2, <1>4 DEF Keeps, UpstreamRecord
<1> DEFINE none == <<>>
<1>6. q.tag = none /\ chat_parser.tag = none
  BY <1>1, <1>3
<1>7. Heard(chat_ledger.said, q) = Heard(chat_ledger.said, chat_parser)
  <2>1. /\ (IF q.in_think THEN none ELSE q.tag) = none
        /\ (IF chat_parser.in_think THEN none ELSE chat_parser.tag) = none
    BY <1>6
  <2> HIDE DEF none
  <2> QED BY <1>3, <2>1, Zenon DEF Heard, none
<1>8. chat_ledger' = chat_ledger
  BY TagSafe
<1> QED BY <1>3, <1>4, <1>5, <1>7, <1>8, ParserText

LEMMA FunctionText ==
  ASSUME ChatSafe, ChatText, ChatFunction
  PROVE  ChatText'
<1> DEFINE w == SayFed([say |-> <<>>, tool |-> chat_parser.state = "parsing"])
           none == <<>>
           q == [chat_parser EXCEPT !.state = "parsing", !.held = none]
<1>1. chat_parser.tag = none /\ ~ chat_parser.in_think /\ Handle(w, chat_upstream, q)
  BY DEF ChatFunction
<1> HIDE DEF w
<1>2. chat_upstream \in UpstreamRecord /\ chat_parser \in ParserRecord
  BY Zenon DEF ChatSafe, ChatFields
<1>3. q.held = none /\ q.state = "parsing" /\ q.tag = none /\ ~ q.in_think
  <2> HIDE DEF none
  <2> QED BY <1>1, <1>2 DEF ParserRecord
<1> HIDE DEF q
<1>4. Goes /\ chat_parser' = q /\ chat_upstream' = [chat_upstream EXCEPT !.chunks = @ + 1]
  BY <1>1, HandleGoes
<1>5. Keeps
  BY <1>2, <1>4 DEF Keeps, UpstreamRecord
<1>6. Texts
  BY <1>4, Zenon DEF ChatText, Goes
<1> DEFINE tool == HasToolBlock(chat_ledger)
           tool2 == HasToolBlock(chat_ledger')
           said == chat_ledger.said
           text == chat_upstream.text
           bullets == chat_upstream.bullets
<1>7. (tool => tool2) /\ chat_ledger'.said = said
  BY FunctionSafe
<1>8. TextOf(said, chat_parser, text, bullets, tool)
  BY <1>6, Zenon DEF Texts
<1> HIDE DEF tool, tool2, said, text, bullets
<1>9. TextOf(said, q, text, bullets, tool)
  BY <1>1, <1>2, <1>3, <1>8, TextFunction
<1>10. TextOf(said, q, text, bullets, tool2)
  BY <1>7, <1>9, TextTool
<1>11. Texts'
  BY <1>4, <1>5, <1>7, <1>10, Zenon DEF Texts, Keeps, tool2, text, bullets
<1> QED BY <1>4, <1>11, Zenon DEF ChatText, Goes
LEMMA ContentText ==
  ASSUME ChatSafe, ChatText, NEW bullet \in BOOLEAN, NEW partial \in BOOLEAN,
         ChatContent(bullet, partial)
  PROVE  ChatText'
<1> DEFINE p == chat_parser
           n == chat_upstream.text
           tool == HasToolBlock(chat_ledger)
           tool2 == HasToolBlock(chat_ledger')
           said == chat_ledger.said
           bullets == chat_upstream.bullets
<1>1. Goes
  BY Zenon, HandleGoes DEF ChatContent
<1>2. (tool => tool2) /\ (Thought(partial) \/ Answered(bullet, partial))
  BY ContentSafe
<1>3. p \in ParserRecord /\ bullets \in BOOLEAN
  BY UpstreamIs DEF ChatSafe, ChatFields
<1>4. CASE Thought(partial)
  <2>1. p.in_think /\ chat_ledger'.said = said /\ Keeps
    BY <1>4, Zenon DEF Thought, Keeps
  <2>2. PICK k \in Nat : chat_parser' = Retagged(p, k, partial)
    BY <1>4, Zenon DEF Thought
  <2> DEFINE q == Retagged(p, k, partial)
  <2>3. q.held = p.held /\ q.state = p.state /\ q.in_think = p.in_think
    BY <1>3, <2>2, ThroughIs
  <2>4. chat_parser' = q
    BY <2>2
  <2> HIDE DEF q
  <2>5. Heard(said, q) = Heard(said, p)
    <3> DEFINE none == <<>>
    <3>1. (IF q.in_think THEN none ELSE q.tag) = none /\ (IF p.in_think THEN none ELSE p.tag) = none
      BY <2>1, <2>3
    <3> HIDE DEF none
    <3> QED BY <2>3, <3>1, Zenon DEF Heard, none
  <2> QED BY <1>1, <1>2, <2>1, <2>3, <2>4, <2>5, ParserText
<1>5. CASE Answered(bullet, partial)
  <2>1. /\ ~ p.in_think /\ chat_upstream'.text = n + 1
        /\ chat_upstream'.bullets = (bullets \/ bullet)
    BY <1>5, Zenon DEF Answered
  <2>2. PICK f \in Feed(Retagged(p, n + 1, partial), Through(p, n + 1, partial), bullet) :
          /\ chat_ledger'.said = said \o f.say /\ chat_parser' = f.parser
          /\ f.tool => tool2
    BY <1>5, Zenon DEF Answered
  <2>3. TextOf(said, p, n, bullets, tool)
    BY <1>1, Zenon DEF ChatText, Goes, Texts
  <2> HIDE DEF p, n, tool, tool2, said, bullets
  <2>a. Feeding(said, p, n, bullets, tool, bullet, partial, f, tool2)
    BY <1>2, <1>3, <2>1, <2>2, <2>3, Zenon DEF Feeding
  <2>4. TextOf(said \o f.say, f.parser, n + 1, bullets \/ bullet, tool2)
    BY <2>a, TextFed
  <2>5. TextOf(chat_ledger'.said, chat_parser', chat_upstream'.text, chat_upstream'.bullets, tool2)
    BY <2>1, <2>2, <2>4
  <2>6. Texts'
    BY <2>5, Zenon DEF Texts, tool2
  <2> QED BY <1>1, <2>6, Zenon DEF ChatText, Goes
<1> QED BY <1>2, <1>4, <1>5

LEMMA AgainText ==
  ASSUME Again
  PROVE  ChatText'
<1>1. /\ chat_ledger' = NewLedger /\ chat_parser' = FreshParser /\ chat_upstream' = FreshUpstream
      /\ chat_phase' = "starting"
  BY DEF Again
<1>2. chat_phase' \notin ChatOver /\ chat_phase' # "answered"
  BY <1>1 DEF ChatOver
<1>3. NewLedger.said = <<>> /\ FreshUpstream.text = 0
  BY NewLedgerIs DEF FreshUpstream
<1> DEFINE p == FreshParser
           tool == HasToolBlock(NewLedger)
           bullets == FreshUpstream.bullets
<1>4. p.held = <<>> /\ p.tag = <<>> /\ p.state = "text"
  BY DEF FreshParser
<1> HIDE DEF p, tool, bullets
<1>5. TextOf(<<>>, p, 0, bullets, tool)
  BY <1>4, TextFresh
<1>6. TextOf(NewLedger.said, p, FreshUpstream.text, bullets, tool)
  BY <1>3, <1>5
<1>7. Texts'
  BY <1>1, <1>6, Zenon DEF Texts, p, tool, bullets
<1> QED BY <1>2, <1>7, Zenon DEF ChatText

\* Whatever was said so far is in order, and stays so with a message of failure.
LEMMA StopsText ==
  ASSUME ChatSafe, ChatText, chat_phase \notin ChatOver, chat_phase' \in ChatOver,
         chat_phase' # "answered", chat_upstream' = chat_upstream,
         chat_ledger'.said = chat_ledger.said \/ chat_ledger'.said = chat_ledger.said \o EmptyObject
  PROVE  ChatText'
<1> DEFINE said == chat_ledger.said
           bullets == chat_upstream.bullets
<1>1. TextOf(said, chat_parser, chat_upstream.text, bullets, HasToolBlock(chat_ledger))
  BY Zenon DEF ChatText, Texts
<1>2. said \in Seq(Nat) /\ chat_parser \in ParserRecord
  BY <1>1, Zenon DEF ChatSafe, ChatFields, TextOf
<1> HIDE DEF said, bullets
<1>3. Ordered(said, bullets)
  BY <1>1, <1>2, TextOrdered
<1>4. Ordered(said \o EmptyObject, bullets)
  BY <1>2, <1>3, OrderedMore
<1>5. chat_ledger'.said = said \/ chat_ledger'.said = said \o EmptyObject
  BY DEF said
<1>6. Ordered(chat_ledger'.said, chat_upstream'.bullets)
  BY <1>3, <1>4, <1>5 DEF bullets
<1>7. Ends'
  BY <1>6, Zenon DEF Ends
<1> QED BY <1>7, Zenon DEF ChatText

LEMMA RecoversText ==
  ASSUME ChatText, chat_phase \notin ChatOver, Recovers
  PROVE  ChatText'
<1>1. /\ chat_phase' = "recovering" /\ chat_ledger' = chat_ledger /\ chat_parser' = chat_parser
      /\ chat_upstream' = chat_upstream
  BY DEF Recovers
<1>2. Goes /\ Keeps
  BY <1>1 DEF Goes, Keeps, ChatOver
<1> QED BY <1>1, <1>2, TextStays

LEMMA GivesUpText ==
  ASSUME ChatSafe, ChatText, chat_buffer.wire = <<>>, chat_phase \notin ChatOver,
         chat_phase # "starting", ChatGivesUp
  PROVE  ChatText'
<1>1. chat_phase' = "failed" /\ chat_upstream' = chat_upstream
  BY DEF ChatGivesUp
<1>2. chat_phase' \in ChatOver /\ chat_phase' # "answered"
  BY <1>1 DEF ChatOver
<1>3. chat_ledger'.said = chat_ledger.said \/ chat_ledger'.said = chat_ledger.said \o EmptyObject
  BY GivesUpSafe
<1> QED BY <1>1, <1>2, <1>3, StopsText

LEMMA BrokenText ==
  ASSUME ChatSafe, ChatText, ChatOpenFails \/ ChatBreaks \/ ChatRecoveryFails
  PROVE  ChatText'
<1>1. ASSUME NEW p \in {"opening", "streaming", "recovering"}, Ready(p)
      PROVE  chat_buffer.wire = <<>> /\ chat_phase \notin ChatOver /\ chat_phase # "starting"
  BY <1>1 DEF Ready, ChatOver
<1>2. \/ ChatGivesUp
      \/ \E r, o : ChatFails(r, o)
  BY Zenon DEF ChatOpenFails, ChatBreaks, ChatRecoveryFails
<1>3. Again \/ Recovers \/ ChatGivesUp
  BY <1>2, ChatFailsIs, Zenon
<1>4. \E p \in {"opening", "streaming", "recovering"} : Ready(p)
  BY Zenon DEF ChatOpenFails, ChatBreaks, ChatRecoveryFails
<1>5. chat_buffer.wire = <<>> /\ chat_phase \notin ChatOver /\ chat_phase # "starting"
  BY <1>1, <1>4, Zenon
<1> QED BY <1>3, <1>5, AgainText, RecoversText, GivesUpText
LEMMA AnsweredText ==
  ASSUME ChatSafe, ChatText, ChatAnswered
  PROVE  ChatText'
<1> DEFINE said == chat_ledger.said
           p == chat_parser
           s == IF p.in_think THEN said ELSE said \o p.tag
           new == chat_ledger'.said
           n == chat_upstream.text
           bullets == chat_upstream.bullets
           tool == HasToolBlock(chat_ledger)
<1>1. /\ chat_phase = "streaming" /\ chat_phase' = "answered" /\ chat_upstream' = chat_upstream
  BY DEF ChatAnswered, Ready
<1>2. chat_phase \notin ChatOver /\ chat_phase' \in ChatOver
  BY <1>1 DEF ChatOver
<1>3. Spelled /\ Paid(chat_ledger', chat_upstream.tools, chat_upstream.args)
  BY AnsweredSafe
<1>4. TextOf(said, p, n, bullets, tool) /\ p \in ParserRecord
  BY <1>2, Zenon DEF ChatText, Texts, ChatSafe, ChatFields
<1>5. new = s \/ (new = EmptyObject /\ s = <<>>)
  BY <1>3, Zenon DEF Spelled
<1>6. Spells(said, p, n, bullets, tool, new)
  BY <1>4, <1>5, Zenon DEF Spells, Said
<1> HIDE DEF said, p, s, new, n, bullets, tool
<1>7. Ordered(new, bullets) /\ (bullets \/ {i \in DOMAIN new : new[i] > 0} = 1 .. n)
  BY <1>6, TextAnswered DEF AllOf
<1>8. Ends'
  BY <1>1, <1>7, Zenon DEF Ends, new, bullets
<1>9. AllSaid'
  BY <1>1, <1>3, <1>7, Zenon DEF AllSaid, new, bullets, n
<1> QED BY <1>2, <1>8, <1>9, Zenon DEF ChatText

LEMMA RepairsText ==
  ASSUME ChatSafe, ChatText, ChatRepairs
  PROVE  ChatText'
<1>1. chat_phase = "recovering" /\ chat_phase' = "continued" /\ chat_upstream' = chat_upstream
  BY Zenon DEF ChatRepairs, Ready
<1>2. chat_phase \notin ChatOver /\ chat_phase' \in ChatOver /\ chat_phase' # "answered"
  BY <1>1 DEF ChatOver
<1> QED BY <1>1, <1>2, RepairsSafe, StopsText

LEMMA ContinuesText ==
  ASSUME ChatSafe, ChatText, ~ ShortRepeats, NEW more \in BOOLEAN, NEW short \in BOOLEAN,
         NEW candidate \in Stretches(chat_ledger.said), ChatContinues(more, candidate, short)
  PROVE  ChatText'
<1> DEFINE said == chat_ledger.said
           text == ContinuationSuffix(said, candidate, short)
           m == Len(said)
           new == said \o text
<1>1. chat_phase = "recovering" /\ chat_phase' = "continued" /\ chat_upstream' = chat_upstream
  BY Zenon DEF ChatContinues, Ready
<1>2. chat_phase \notin ChatOver /\ chat_phase' \in ChatOver /\ chat_phase' # "answered"
  BY <1>1 DEF ChatOver
<1>3. ~ HasToolBlock(chat_ledger) /\ chat_ledger'.said = new
  BY ContinuesSafe
<1>4. said \in Seq(Nat) /\ said = UpTo(m)
  <2>1. TextOf(said, chat_parser, chat_upstream.text, chat_upstream.bullets, HasToolBlock(chat_ledger))
    BY <1>2, Zenon DEF ChatText, Texts
  <2> QED BY <1>3, <2>1, Zenon DEF TextOf
<1>5. m \in Nat
  BY <1>4
<1> DEFINE none == <<>>
           last == <<m + 1>>
<1>6. text = none \/ text = last
  <2>1. candidate \in Stretches(said)
    OBVIOUS
  <2> HIDE DEF said, m
  <2>2. text \in {<<>>, <<m + 1>>}
    BY <1>4, <1>5, <2>1, SuffixAfter
  <2> QED BY <2>2
<1> HIDE DEF said, m, text, none
<1>7. new = UpTo(m) \/ new = UpTo(m + 1)
  <2>1. said \o none = said
    BY <1>4 DEF none
  <2>2. UpTo(m) \o last = UpTo(m + 1)
    BY <1>5, UpToNext
  <2> HIDE DEF last
  <2>3. CASE text = none
    BY <1>4, <2>1, <2>3
  <2>4. CASE text = last
    BY <1>4, <2>2, <2>4, Zenon
  <2> QED BY <1>6, <2>3, <2>4
<1> HIDE DEF new, last
<1>8. ASSUME NEW k \in Nat PROVE Order(UpTo(k)) /\ Exact(UpTo(k))
  BY UpToIs, RisingOrder
<1>9. m + 1 \in Nat
  BY <1>5
<1>10. Order(new) /\ Exact(new)
  BY <1>5, <1>7, <1>8, <1>9, Zenon
<1>11. Ends'
  BY <1>3, <1>10, Zenon DEF Ends, Ordered
<1> QED BY <1>2, <1>11, Zenon DEF ChatText

LEMMA StallsText ==
  ASSUME ChatSafe, ChatText, ChatStalls
  PROVE  ChatText'
<1>1. /\ chat_phase \notin ChatOver /\ chat_phase' = "failed" /\ chat_upstream' = chat_upstream
      /\ chat_ledger' = chat_ledger
  BY Zenon DEF ChatStalls
<1>2. chat_phase' \in ChatOver /\ chat_phase' # "answered"
  BY <1>1 DEF ChatOver
<1> QED BY <1>1, <1>2, StopsText

LEMMA SilentText ==
  ASSUME ChatText, ChatDeliver \/ UNCHANGED chat_vars
  PROVE  ChatText'
<1>1. /\ chat_phase' = chat_phase /\ chat_ledger' = chat_ledger /\ chat_parser' = chat_parser
      /\ chat_upstream' = chat_upstream
  BY Zenon DEF ChatDeliver, chat_vars
<1> QED BY <1>1, Zenon DEF ChatText, Texts, Ends, AllSaid

LEMMA NextText ==
  ASSUME ChatSafe, ChatText, ~ ShortRepeats, [ChatNext]_chat_vars
  PROVE  ChatText'
<1>0. CASE ChatDeliver \/ UNCHANGED chat_vars
  BY <1>0, SilentText
<1>1. CASE \E bullet, partial \in BOOLEAN : ChatContent(bullet, partial)
  BY <1>1, ContentText
<1>2. CASE \E t \in ChatTools, name \in ToolName \cup {""}, fragment \in BOOLEAN :
             ChatToolCall(t, name, fragment)
  <2>1. \E t \in ChatTools, name \in CallName, fragment \in BOOLEAN :
          ChatToolCall(t, name, fragment)
    BY <1>2, Zenon DEF CallName
  <2> QED BY <2>1, ToolCallText
<1>3. CASE \E more, short \in BOOLEAN, c \in Stretches(chat_ledger.said) :
             ChatContinues(more, c, short)
  BY <1>3, ContinuesText
<1>4. CASE ChatStarts \/ ChatOpens \/ ChatOpenFails \/ ChatFinishes \/ ChatBreaks
           \/ ChatRecoveryFails
  BY <1>4, StartsText, OpensText, BrokenText
<1>5. CASE ChatReasoning \/ ChatTag \/ ChatFunction
  BY <1>5, ReasoningText, TagText, FunctionText
<1>6. CASE ChatAnswered \/ ChatRepairs \/ ChatStalls
  BY <1>6, AnsweredText, RepairsText, StallsText
<1>7. CASE Adapter
  BY <1>1, <1>2, <1>3, <1>4, <1>5, <1>6, <1>7, Zenon DEF Adapter
<1> QED BY <1>0, <1>7, NextIs

LEMMA InitText ==
  ASSUME ChatInit
  PROVE  ChatText
<1>1. /\ chat_ledger = NewLedger /\ chat_parser = FreshParser /\ chat_upstream = FreshUpstream
      /\ chat_phase = "starting"
  BY DEF ChatInit
<1>2. chat_phase \notin ChatOver /\ chat_phase # "answered"
  BY <1>1 DEF ChatOver
<1>3. NewLedger.said = <<>> /\ FreshUpstream.text = 0
  BY NewLedgerIs DEF FreshUpstream
<1> DEFINE p == FreshParser
           tool == HasToolBlock(NewLedger)
           bullets == FreshUpstream.bullets
<1>4. p.held = <<>> /\ p.tag = <<>> /\ p.state = "text"
  BY DEF FreshParser
<1> HIDE DEF p, tool, bullets
<1>5. TextOf(<<>>, p, 0, bullets, tool)
  BY <1>4, TextFresh
<1>6. TextOf(NewLedger.said, p, FreshUpstream.text, bullets, tool)
  BY <1>3, <1>5
<1>7. Texts
  BY <1>1, <1>6, Zenon DEF Texts, p, tool, bullets
<1> QED BY <1>2, <1>7, Zenon DEF ChatText

LEMMA ChatAlwaysText ==
  ASSUME ~ LateStalls, ~ ShortRepeats
  PROVE  ChatSpec => [](ChatSafe /\ ChatText)
<1>1. ChatInit => ChatSafe /\ ChatText
  BY InitSafe, InitText
<1>2. ChatSafe /\ ChatText /\ [ChatNext]_chat_vars => (ChatSafe /\ ChatText)'
  BY NextSafe, NextText
<1> QED BY <1>1, <1>2, PTL DEF ChatSpec
-----------------------------------------------------------------------------
(* What the client has read is the beginning of what was written for it.    *)

Begins(s, t) == Len(s) <= Len(t) /\ \A k \in 1 .. Len(s) : s[k] = t[k]

LEMMA ReadBegins ==
  ASSUME NEW c \in Client, NEW e \in Event
  PROVE  Begins(c.text, Read(c, e).text)
<1>1. c.text \in Seq(Nat) /\ e.data \in Seq(Nat)
  <2>1. c.text \in Seq(Nat)
    BY Zenon DEF Client
  <2>2. e.data \in Seq(Nat)
    BY Zenon DEF Event
  <2> QED BY <2>1, <2>2
<1>2. Read(c, e).text = TextAfter(c, e)
  BY ReadFields
<1>3. ASSUME NEW s \in Seq(Nat), NEW t \in Seq(Nat) PROVE Begins(s, s) /\ Begins(s, s \o t)
  BY ConcatProperties DEF Begins
<1>4. TextAfter(c, e) = c.text \/ TextAfter(c, e) = c.text \o e.data
  BY DEF TextAfter
<1> QED BY <1>1, <1>2, <1>3, <1>4

LEMMA BeginsOn ==
  ASSUME NEW s \in Seq(Nat), NEW t \in Seq(Nat), NEW u \in Seq(Nat), Begins(s, t), Begins(t, u)
  PROVE  Begins(s, u)
<1>1. Len(s) \in Nat /\ Len(t) \in Nat /\ Len(u) \in Nat
  OBVIOUS
<1> QED BY <1>1 DEF Begins

LEMMA PathBegins ==
  ASSUME NEW c \in Client, NEW d \in Client, NEW es \in Seq(Event), Path(c, es, d)
  PROVE  Begins(c.text, d.text)
<1>1. PICK st : Along(st, c, es, d)
  BY DEF Path
<1>2. c.text \in Seq(Nat) /\ Len(es) \in Nat /\ \A k \in 1 .. Len(es) : es[k] \in Event
  BY DEF Client
<1> DEFINE N == {k \in Nat : k <= Len(es) => st[k] \in Client /\ Begins(c.text, st[k].text)}
<1>3. 0 \in N
  BY <1>1, <1>2 DEF Along, Begins
<1>4. ASSUME NEW k \in Nat, k \in N, k + 1 <= Len(es)
      PROVE  st[k + 1] \in Client /\ Begins(c.text, st[k + 1].text)
  <2>1. k <= Len(es) /\ k + 1 \in 1 .. Len(es) /\ (k + 1) - 1 = k
    BY <1>2, <1>4
  <2>2. st[k] \in Client /\ Begins(c.text, st[k].text)
    BY <1>4, <2>1
  <2>3. Legal(st[k], es[k + 1]) /\ st[k + 1] = Read(st[k], es[k + 1]) /\ es[k + 1] \in Event
    BY <1>1, <1>2, <2>1 DEF Along
  <2>4. st[k + 1] \in Client /\ Begins(st[k].text, st[k + 1].text)
    BY <2>2, <2>3, ReadClient, ReadBegins
  <2>5. st[k].text \in Seq(Nat) /\ st[k + 1].text \in Seq(Nat)
    BY <2>2, <2>4 DEF Client
  <2> QED BY <1>2, <2>2, <2>4, <2>5, BeginsOn
<1>5. \A k \in Nat : k \in N => k + 1 \in N
  BY <1>4
<1> HIDE DEF N
<1>6. Nat \subseteq N
  BY <1>3, <1>5, EveryNumber
<1>7. Len(es) \in N
  BY <1>2, <1>6
<1> QED BY <1>1, <1>2, <1>7 DEF N, Along

LEMMA OrderedBegins ==
  ASSUME NEW s \in Seq(Nat), NEW t \in Seq(Nat), NEW bullets, Begins(s, t), Ordered(t, bullets)
  PROVE  Ordered(s, bullets)
<1>0. DOMAIN s = 1 .. Len(s) /\ DOMAIN t = 1 .. Len(t) /\ Len(s) \in Nat /\ Len(t) \in Nat
  OBVIOUS
<1>1. \A i \in 1 .. Len(s) : s[i] = t[i] /\ i \in 1 .. Len(t)
  BY <1>0 DEF Begins
<1>2. Order(t) => Order(s)
  BY <1>0, <1>1 DEF Order
<1>3. Exact(t) => Exact(s)
  BY <1>0, <1>1 DEF Exact
<1> QED BY <1>2, <1>3 DEF Ordered

\* Nothing but placeholders is in any order.
LEMMA SilenceOrdered ==
  ASSUME NEW s, s = <<>> \/ s = EmptyObject, NEW bullets
  PROVE  Ordered(s, bullets)
<1>1. \A i \in DOMAIN s : ~ (s[i] > 0)
  BY DEF EmptyObject
<1> QED BY <1>1 DEF Ordered, Order, Exact

\* What will have been read when everything is delivered.
LEMMA LiveBegins ==
  ASSUME ChatSafe, chat_phase \notin ChatOver
  PROVE  Begins(chat_client.text, chat_ledger.said)
<1>1. chat_client \in Client /\ Tells(Listener(chat_client, FALSE),
         [l |-> chat_ledger, out |-> chat_buffer.wire \o chat_buffer.held])
  BY Zenon DEF ChatSafe, ChatLive, Live
<1> DEFINE w == [l |-> chat_ledger, out |-> chat_buffer.wire \o chat_buffer.held]
<1>2. w.l = chat_ledger
  OBVIOUS
<1> HIDE DEF w
<1>3. PICK d : Knows(Listener(chat_client, FALSE), w, d)
  BY <1>1, Zenon DEF Tells, w
<1>4. w.out \in Seq(Event)
  BY <1>1, ToldFields, Zenon DEF w
<1>5. Listener(chat_client, FALSE).from = chat_client
  BY DEF Listener
<1>6. d \in Client /\ Path(chat_client, w.out, d) /\ d.text = chat_ledger.said
  BY <1>2, <1>3, <1>5, Zenon DEF Knows, Agrees
<1>7. Begins(chat_client.text, d.text)
  BY <1>1, <1>4, <1>6, PathBegins
<1> QED BY <1>6, <1>7

LEMMA OverBegins ==
  ASSUME NEW u, chat_client \in Client, Over(u)
  PROVE  Begins(chat_client.text, u.l.said)
<1>1. Tells(Listener(chat_client, FALSE), u)
  BY Zenon DEF Over
<1>2. PICK d : Knows(Listener(chat_client, FALSE), u, d)
  BY <1>1, Zenon DEF Tells
<1>3. u.out \in Seq(Event)
  BY <1>1, ToldFields
<1>4. Listener(chat_client, FALSE).from = chat_client
  BY DEF Listener
<1>5. d \in Client /\ Path(chat_client, u.out, d) /\ d.text = u.l.said
  BY <1>2, <1>4, Zenon DEF Knows, Agrees
<1>6. Begins(chat_client.text, d.text)
  BY <1>3, <1>5, PathBegins
<1> QED BY <1>5, <1>6

LEMMA SafeOrdered ==
  ASSUME ChatSafe, ChatText
  PROVE  Ordered(chat_client.text, chat_upstream.bullets)
<1> DEFINE bullets == chat_upstream.bullets
           said == chat_ledger.said
<1>1. chat_client \in Client /\ chat_client.text \in Seq(Nat) /\ said \in Seq(Nat)
  BY LedgerFields DEF ChatSafe, ChatFields, Client
<1>2. CASE chat_phase \notin ChatOver
  <2>1. Begins(chat_client.text, said)
    BY <1>2, LiveBegins
  <2>2. TextOf(said, chat_parser, chat_upstream.text, bullets, HasToolBlock(chat_ledger))
    BY <1>2, Zenon DEF ChatText, Texts
  <2>3. chat_parser \in ParserRecord
    BY DEF ChatSafe, ChatFields
  <2> HIDE DEF bullets, said
  <2>4. Ordered(said, bullets)
    BY <2>2, <2>3, TextOrdered
  <2>5. Ordered(chat_client.text, bullets)
    BY <1>1, <2>1, <2>4, OrderedBegins
  <2> QED BY <2>5 DEF bullets
<1>3. CASE chat_phase \in ChatOver
  <2>1. PICK u : Over(u)
    BY <1>3, Zenon DEF ChatSafe, ChatEnd
  <2>2. Ordered(said, bullets)
    BY <1>3, Zenon DEF ChatText, Ends
  <2>3. u.l = chat_ledger \/ u.l.said = <<>> \/ u.l.said = EmptyObject
    BY <2>1, Zenon DEF Over
  <2>4. Ordered(u.l.said, bullets)
    BY <2>2, <2>3, SilenceOrdered
  <2>5. Begins(chat_client.text, u.l.said)
    BY <1>1, <2>1, OverBegins
  <2>6. Tells(Listener(chat_client, FALSE), u)
    BY <2>1, Zenon DEF Over
  <2>7. u.l.said \in Seq(Nat)
    BY <2>6, ToldFields, LedgerFields
  <2> HIDE DEF bullets, said
  <2>8. Ordered(chat_client.text, bullets)
    BY <1>1, <2>4, <2>5, <2>7, OrderedBegins
  <2> QED BY <2>8 DEF bullets
<1> QED BY <1>2, <1>3

LEMMA SafeInOrder ==
  ASSUME ChatSafe, ChatText
  PROVE  ChatTextInOrder
<1> DEFINE text == chat_client.text
<1>1. text \in Seq(Nat)
  BY DEF ChatSafe, ChatFields, Client
<1>2. Ordered(text, chat_upstream.bullets)
  BY SafeOrdered
<1>3. Own(chat_client) = {i \in DOMAIN text : text[i] > 0}
  BY DEF Own
<1> HIDE DEF text
<1>4. \A i, j \in Own(chat_client) : i < j => text[i] < text[j]
  BY <1>2, <1>3 DEF Ordered, Order
<1>5. chat_upstream.bullets \/ \A i \in Own(chat_client) : text[i] = i
  BY <1>2, <1>3 DEF Ordered, Exact
<1> QED BY <1>4, <1>5 DEF ChatTextInOrder, text

\* What the client of a chat-completions provider has read so far is the answer's text
\* in its order, whatever parser or buffer held some of it back, and whatever was made
\* again, continued or repaired: nothing is said twice, and nothing is left out unless
\* the model wrote a bullet (openai_chat/stream.py, recovery.py).
THEOREM ChatTextKeepsOrder ==
  ASSUME ~ LateStalls, ~ ShortRepeats
  PROVE  ChatSpec => []ChatTextInOrder
<1>1. ChatSafe /\ ChatText => ChatTextInOrder
  BY SafeInOrder
<1> QED BY <1>1, ChatAlwaysText, PTL
LEMMA SafeWhole ==
  ASSUME ChatSafe, ChatText
  PROVE  ChatAnswerWhole
<1> SUFFICES ASSUME chat_phase = "answered", chat_buffer.wire = <<>>
             PROVE  /\ chat_upstream.bullets \/ Own(chat_client) = 1 .. chat_upstream.text
                    /\ \A t \in StartedTools(chat_ledger) :
                         LET tool == chat_ledger.tools[t]
                             got == chat_client.args[tool.block]
                         IN  IF tool.name = "Task" /\ chat_upstream.args[t] = 1
                             THEN got = EmptyObject
                             ELSE got = SubSeq(Whole, 1, chat_upstream.args[t])
  BY DEF ChatAnswerWhole
<1>1. chat_phase \in ChatOver /\ chat_phase # "failed"
  BY DEF ChatOver
<1>2. PICK u : Over(u) /\ Agrees(chat_client, u.l)
  BY <1>1, DoneIs
<1>3. u.l = chat_ledger
  BY <1>1, <1>2, Zenon DEF Over
<1>4. chat_client.text = chat_ledger.said /\ chat_client.args = ArgsOf(chat_ledger)
  BY <1>2, <1>3, Zenon DEF Agrees
<1>5. AllSaid
  BY Zenon DEF ChatText
<1>6. Own(chat_client) = {i \in DOMAIN chat_ledger.said : chat_ledger.said[i] > 0}
  BY <1>4, Zenon DEF Own
<1>7. chat_upstream.bullets \/ Own(chat_client) = 1 .. chat_upstream.text
  BY <1>5, <1>6, Zenon DEF AllSaid
<1>8. chat_upstream \in UpstreamRecord
  BY DEF ChatSafe, ChatFields
<1> DEFINE l == chat_ledger
           args == chat_upstream.args
           n == chat_upstream.tools
<1>9. args \in [ChatTools -> 0 .. 2] /\ n \in 0 .. ChatCalls /\ ChatTools = 1 .. ChatCalls
  BY <1>8, UpstreamIs DEF ChatTools
<1>10. Paid(l, n, args)
  BY <1>5, Zenon DEF AllSaid
<1> HIDE DEF l, args, n
<1>11. ASSUME NEW t \in StartedTools(l)
       PROVE  IF l.tools[t].name = "Task" /\ args[t] = 1
              THEN ArgsOf(l)[l.tools[t].block] = EmptyObject
              ELSE ArgsOf(l)[l.tools[t].block] = SubSeq(Whole, 1, args[t])
  <2>1. t \in DOMAIN l.tools /\ l.tools[t].block # NoIndex
    BY <1>11, Zenon DEF StartedTools, Started
  <2>2. t \in 1 .. n /\ Flushed(l, t, args[t]) /\ l.tools[t].block \in ToolBlocks(l)
    BY <1>10, <2>1, Zenon DEF Paid
  <2>3. ArgsOf(l)[l.tools[t].block] = FlushedData(l.tools[t].name, args[t])
    BY <2>1, <2>2, Zenon DEF Flushed, ArgsOf
  <2>4. t \in ChatTools
    BY <1>9, <2>2, ChatAssumption
  <2>5. args[t] \in 0 .. 2
    BY <1>9, <2>4
  <2>6. SubSeq(Whole, 1, args[t]) = Part(args[t])
    BY <2>5, PartIs
  <2> QED BY <2>3, <2>6, Zenon DEF FlushedData
<1>12. \A t \in StartedTools(chat_ledger) :
         IF chat_ledger.tools[t].name = "Task" /\ chat_upstream.args[t] = 1
         THEN chat_client.args[chat_ledger.tools[t].block] = EmptyObject
         ELSE chat_client.args[chat_ledger.tools[t].block]
                = SubSeq(Whole, 1, chat_upstream.args[t])
  BY <1>4, <1>11, Zenon DEF l, args
<1> QED BY <1>7, <1>12

\* An answer of a chat-completions provider that ended well was read to its last piece:
\* all the text the model wrote, unless some was behind a bullet, and the arguments of
\* each call exactly as they were sent, or {} for a Task whose arguments are no JSON
\* (openai_chat/stream.py, tool_calls.py flush_task_arg_buffers).
THEOREM ChatAnswersAreWhole ==
  ASSUME ~ LateStalls, ~ ShortRepeats
  PROVE  ChatSpec => []ChatAnswerWhole
<1>1. ChatSafe /\ ChatText => ChatAnswerWhole
  BY SafeWhole
<1> QED BY <1>1, ChatAlwaysText, PTL
=============================================================================
