---------------------------- MODULE GatewayProofs ----------------------------
(***************************************************************************)
(* Theorems about the gateway's parts, for every value of the constants:   *)
(* the local web tools, the tools of Codex, who answers a request, the     *)
(* transcript of a turn and the record of the usage.                       *)
(***************************************************************************)
EXTENDS Gateway, SequenceTheorems, WellFoundedInduction, TLAPS

-----------------------------------------------------------------------------
(* The least and the greatest of the places of a sequence.                  *)

LEMMA Least ==
  ASSUME NEW S, S \subseteq Nat, S # {}
  PROVE  Min(S) \in S /\ \A y \in S : Min(S) <= y
<1> DEFINE R == OpToRel(<, Nat)
<1>1. \E x \in S : \A y \in S : <<y, x>> \notin R
  <2>1. IsWellFoundedOn(R, Nat)
    BY NatLessThanWellFounded
  <2> QED BY <2>1, WFMin
<1>2. PICK x \in S : \A y \in S : <<y, x>> \notin R
  BY <1>1
<1>3. \A y \in S : x <= y
  <2>1. R = {ss \in Nat \X Nat : ss[1] < ss[2]}
    BY Zenon DEF OpToRel
  <2>2. \A y \in S : <<y, x>> \in Nat \X Nat /\ <<y, x>>[1] = y /\ <<y, x>>[2] = x
    OBVIOUS
  <2> HIDE DEF R
  <2>3. \A y \in S : ~ (y < x)
    BY <1>2, <2>1, <2>2
  <2> QED BY <2>3
<1> QED BY <1>3 DEF Min

LEMMA Greatest ==
  ASSUME NEW n \in Nat, NEW S, S \subseteq 1 .. n, S # {}
  PROVE  Max(S) \in S /\ \A y \in S : Max(S) >= y
<1> DEFINE T == {n - y : y \in S}
<1>1. T \subseteq Nat /\ T # {}
  <2>1. \A y \in S : n - y \in Nat
    OBVIOUS
  <2> QED BY <2>1
<1>2. PICK t \in T : \A y \in T : t <= y
  <2> HIDE DEF T
  <2> QED BY <1>1, Least
<1>3. PICK x \in S : t = n - x
  BY <1>2
<1>4. ASSUME NEW y \in S PROVE x >= y
  <2>1. n - y \in T /\ x \in 1 .. n /\ y \in 1 .. n
    OBVIOUS
  <2>2. n - x <= n - y
    BY <1>2, <1>3, <2>1
  <2> QED BY <2>1, <2>2
<1> QED BY <1>4 DEF Max

-----------------------------------------------------------------------------
(* The local web tools.                                                     *)

\* The events of an answer before the tool runs, and all of them.
Opening == <<<<"message_start">>, Opens("call"), Closes("call")>>
WholeAnswer ==
  <<<<"message_start">>, Opens("call"), Closes("call"), Opens("result"), Closes("result"),
    Opens("text"), <<"delta", "text">>, Closes("text"), <<"message_delta">>, <<"message_stop">>>>

\* A fetch that is looked at after h redirects has connected h times, one that is connected
\* once more, all of them to permitted hosts; the answer is told in two pieces.
WebTyped ==
  /\ web \in [pc : {"idle", "checking", "connected", "reading", "told", "done"},
              tool : {"none", "web_search", "web_fetch"}, at : Hosts \cup {Nowhere},
              hops : 0 .. MaxRedirects, bytes : 0 .. MaxBytes, failed : BOOLEAN]
  /\ visited \in Seq(Permitted)

WebReach ==
  /\ web.pc = "idle" => web.hops = 0
  /\ web.pc \in {"idle", "checking"} => Len(visited) = web.hops
  /\ web.pc = "connected" => Len(visited) = web.hops + 1
  /\ Len(visited) <= web.hops + 1
  /\ web.pc \in {"reading", "told", "done"} /\ web.tool = "web_fetch" /\ ~ web.failed =>
       Len(visited) > 0

WebTold ==
  sent = CASE web.pc = "idle" -> <<>> [] web.pc = "done" -> WholeAnswer [] OTHER -> Opening

WebInv == WebTyped /\ WebReach /\ WebTold

LEMMA ThreeAndSeven ==
  ASSUME NEW a, NEW b, NEW c, NEW d, NEW e, NEW f, NEW g, NEW h, NEW i, NEW j
  PROVE  <<a, b, c>> \o <<d, e, f, g, h, i, j>> = <<a, b, c, d, e, f, g, h, i, j>>
<1> DEFINE S == {a, b, c, d, e, f, g, h, i, j}
           s == <<a, b, c>>
           t == <<d, e, f, g, h, i, j>>
           u == <<a, b, c, d, e, f, g, h, i, j>>
<1>1. /\ s \in Seq(S) /\ t \in Seq(S) /\ u \in Seq(S)
      /\ Len(s) = 3 /\ Len(t) = 7 /\ Len(u) = 10
  OBVIOUS
<1>2. \A k \in 1 .. 10 : u[k] = IF k <= 3 THEN s[k] ELSE t[k - 3]
  OBVIOUS
<1>3. /\ s \o t \in Seq(S) /\ Len(s \o t) = Len(s) + Len(t)
      /\ \A k \in 1 .. Len(s) + Len(t) :
           (s \o t)[k] = IF k <= Len(s) THEN s[k] ELSE t[k - Len(s)]
  <2> HIDE DEF s, t, S
  <2> QED BY <1>1, ConcatProperties
<1> HIDE DEF s, t, u, S
<1>4. s \o t = u
  <2>1. Len(s \o t) = Len(u) /\ \A k \in 1 .. Len(s \o t) : (s \o t)[k] = u[k]
    BY <1>1, <1>2, <1>3
  <2> QED BY <1>1, <1>3, <2>1, SeqEqual
<1> QED BY <1>4 DEF s, t, u

LEMMA WebStarts == WebInit => WebInv
<1> SUFFICES ASSUME WebInit PROVE WebInv
  OBVIOUS
<1>1. <<>> \in Seq(Permitted) /\ Len(<<>>) = 0
  OBVIOUS
<1> QED BY <1>1, WebAssumption DEF WebInit, WebInv, WebTyped, WebReach, WebTold, NotAsked

\* The request is over, and what it was told so far stays.
LEMMA WebFails ==
  ASSUME WebInv, Fails, web.pc \in {"checking", "connected", "reading"}
  PROVE  WebInv'
<1>1. WebTyped'
  BY DEF Fails, WebInv, WebTyped
<1>2. web'.pc = "told" /\ web'.failed /\ web'.hops = web.hops /\ visited' = visited /\ sent' = sent
  BY DEF Fails, WebInv, WebTyped
<1>3. WebReach'
  BY <1>2 DEF WebInv, WebReach, WebTyped
<1>4. WebTold'
  BY <1>2 DEF WebInv, WebTold
<1> QED BY <1>1, <1>3, <1>4 DEF WebInv

LEMMA WebStep ==
  ASSUME WebInv, WebNext
  PROVE  WebInv'
<1>0. MaxRedirects \in Nat /\ MaxBytes \in Nat /\ Permitted \subseteq Hosts /\ Len(visited) \in Nat
  BY WebAssumption DEF WebInv, WebTyped
<1>1. ASSUME NEW tool \in {"web_search", "web_fetch"}, NEW host \in Hosts, Asks(tool, host)
      PROVE  WebInv'
  <2>1. WebTyped'
    <3>1. web' = [pc |-> IF tool = "web_search" THEN "reading" ELSE "checking", tool |-> tool,
                  at |-> host, hops |-> 0, bytes |-> 0, failed |-> FALSE]
      BY <1>1 DEF Asks, NotAsked
    <3>2. visited' = visited
      BY <1>1 DEF Asks
    <3> QED BY <1>0, <3>1, <3>2 DEF WebInv, WebTyped
  <2>2. /\ web.pc = "idle" /\ sent' = Opening /\ visited' = visited /\ web'.tool = tool
        /\ web'.hops = 0 /\ web'.pc = IF tool = "web_search" THEN "reading" ELSE "checking"
    BY <1>1 DEF Asks, NotAsked, Opening
  <2>3. WebReach'
    BY <1>0, <2>2 DEF WebInv, WebReach
  <2>4. WebTold'
    BY <2>2 DEF WebTold
  <2> QED BY <2>1, <2>3, <2>4 DEF WebInv
<1>2. ASSUME Checks PROVE WebInv'
  <2>1. CASE EgressAllows(web.at, web.hops)
    <3>1. /\ web.pc = "checking" /\ web' = [web EXCEPT !.pc = "connected"]
          /\ visited' = Append(visited, web.at) /\ sent' = sent /\ web.at \in Permitted
      BY <1>2, <2>1 DEF Checks, EgressAllows
    <3>2. visited' \in Seq(Permitted) /\ Len(visited') = Len(visited) + 1
      BY <3>1 DEF WebInv, WebTyped
    <3>3. WebTyped'
      BY <3>1, <3>2 DEF WebInv, WebTyped
    <3>4. web'.pc = "connected" /\ web'.hops = web.hops /\ sent' = sent
      BY <3>1 DEF WebInv, WebTyped
    <3>5. WebReach'
      BY <1>0, <3>1, <3>2, <3>4 DEF WebInv, WebReach
    <3>6. WebTold'
      BY <3>1, <3>4 DEF WebInv, WebTold
    <3> QED BY <3>3, <3>5, <3>6 DEF WebInv
  <2>2. CASE ~ EgressAllows(web.at, web.hops)
    BY <1>2, <2>2, WebFails DEF Checks
  <2> QED BY <2>1, <2>2
<1>3. ASSUME NEW to \in Hosts \cup {Nowhere}, Redirects(to) PROVE WebInv'
  <2>1. CASE web.hops >= MaxRedirects \/ to = Nowhere
    BY <1>3, <2>1, WebFails DEF Redirects
  <2>2. CASE ~ (web.hops >= MaxRedirects \/ to = Nowhere)
    <3>1. /\ web.pc = "connected" /\ web.hops < MaxRedirects
          /\ web' = [web EXCEPT !.pc = "checking", !.at = to, !.hops = @ + 1]
          /\ visited' = visited /\ sent' = sent
      BY <1>0, <1>3, <2>2 DEF Redirects, WebInv, WebTyped
    <3>2. WebTyped'
      <4>1. web.hops + 1 \in 0 .. MaxRedirects
        BY <1>0, <3>1 DEF WebInv, WebTyped
      <4> QED BY <1>3, <3>1, <4>1 DEF WebInv, WebTyped
    <3>3. web'.pc = "checking" /\ web'.hops = web.hops + 1
      BY <3>1 DEF WebInv, WebTyped
    <3>4. WebReach'
      BY <1>0, <3>1, <3>3 DEF WebInv, WebReach
    <3>5. WebTold'
      BY <3>1, <3>3 DEF WebInv, WebTold
    <3> QED BY <3>2, <3>4, <3>5 DEF WebInv
  <2> QED BY <2>1, <2>2
<1>4. CASE Responds
  <2>1. /\ WebTyped' /\ web.pc = "connected" /\ web'.pc = "reading" /\ web'.hops = web.hops
        /\ visited' = visited /\ sent' = sent
    BY <1>4 DEF Responds, WebInv, WebTyped
  <2> QED BY <1>0, <2>1 DEF WebInv, WebTyped, WebReach, WebTold
<1>5. ASSUME NEW chunk \in 1 .. 2, Reads(chunk) PROVE WebInv'
  <2>1. /\ WebTyped' /\ web'.pc = web.pc /\ web'.hops = web.hops /\ web'.tool = web.tool
        /\ web'.failed = web.failed /\ visited' = visited /\ sent' = sent
    BY <1>0, <1>5 DEF Reads, WebInv, WebTyped
  <2> QED BY <2>1 DEF WebInv, WebReach, WebTold
<1>6. CASE Finishes
  <2>1. /\ WebTyped' /\ web.pc = "reading" /\ web'.pc = "told" /\ web'.hops = web.hops
        /\ web'.tool = web.tool /\ web'.failed = web.failed /\ visited' = visited /\ sent' = sent
    BY <1>6 DEF Finishes, WebInv, WebTyped
  <2> QED BY <2>1 DEF WebInv, WebReach, WebTold
<1>7. CASE Breaks
  BY <1>7, WebFails DEF Breaks
<1>8. CASE Tells
  <2>1. /\ WebTyped' /\ web.pc = "told" /\ web'.pc = "done" /\ web'.hops = web.hops
        /\ web'.tool = web.tool /\ web'.failed = web.failed /\ visited' = visited
    BY <1>8 DEF Tells, WebInv, WebTyped
  <2>2. sent' = Opening \o <<Opens("result"), Closes("result"), Opens("text"), <<"delta", "text">>,
                             Closes("text"), <<"message_delta">>, <<"message_stop">>>>
    BY <1>8, <2>1 DEF Tells, WebInv, WebTold
  <2>3. sent' = WholeAnswer
    BY <2>2, ThreeAndSeven DEF Opening, WholeAnswer
  <2> QED BY <2>1, <2>3 DEF WebInv, WebReach, WebTold
<1> QED BY <1>1, <1>2, <1>3, <1>4, <1>5, <1>6, <1>7, <1>8 DEF WebNext

\* What the whole answer is, event by event.
LEMMA WholeAnswerIsWhole ==
  LET s == WholeAnswer
  IN  /\ Len(s) = 10 /\ DOMAIN s = 1 .. 10
      /\ s[2] = Opens("call") /\ s[3] = Closes("call") /\ s[4] = Opens("result")
      /\ s[5] = Closes("result") /\ s[6] = Opens("text") /\ s[7][1] = "delta"
      /\ s[8] = Closes("text") /\ s[10] = <<"message_stop">>
      /\ {i \in DOMAIN s : s[i][1] = "start"} = {2, 4, 6}
<1>1. \A k \in {1, 3, 5, 7, 8, 9, 10} : WholeAnswer[k][1] # "start"
  BY DEF WholeAnswer, Opens, Closes
<1>2. \A k \in {2, 4, 6} : WholeAnswer[k][1] = "start"
  BY DEF WholeAnswer, Opens, Closes
<1>3. DOMAIN WholeAnswer = 1 .. 10 /\ Len(WholeAnswer) = 10
  BY DEF WholeAnswer
<1>4. 1 .. 10 = {1, 2, 3, 4, 5, 6, 7, 8, 9, 10}
  OBVIOUS
<1> QED BY <1>1, <1>2, <1>3, <1>4 DEF WholeAnswer

LEMMA WebInvIsEnough == WebInv => WebAnswerWhole
<1> SUFFICES ASSUME WebInv PROVE WebAnswerWhole
  OBVIOUS
<1>1. /\ Range(visited) \subseteq Permitted /\ Len(visited) <= MaxRedirects + 1
      /\ web.bytes <= MaxBytes
  BY WebAssumption DEF WebInv, WebTyped, WebReach, Range
<1>2. ASSUME web.pc = "done"
      PROVE  /\ \E call, result, text \in DOMAIN sent :
                  /\ call < result /\ result < text
                  /\ sent[call] = Opens("call") /\ sent[result] = Opens("result")
                  /\ sent[text] = Opens("text")
                  /\ {i \in DOMAIN sent : sent[i][1] = "start"} = {call, result, text}
             /\ \A i \in DOMAIN sent : sent[i][1] = "start" =>
                  \E j \in i + 1 .. Len(sent) :
                    sent[j] = Closes(sent[i][2]) /\ \A k \in i + 1 .. j - 1 : sent[k][1] = "delta"
             /\ Last(sent) = <<"message_stop">>
  <2>1. sent = WholeAnswer
    BY <1>2 DEF WebInv, WebTold
  <2> HIDE DEF WholeAnswer
  <2>2. /\ Len(sent) = 10 /\ DOMAIN sent = 1 .. 10
        /\ sent[2] = Opens("call") /\ sent[3] = Closes("call") /\ sent[4] = Opens("result")
        /\ sent[5] = Closes("result") /\ sent[6] = Opens("text") /\ sent[7][1] = "delta"
        /\ sent[8] = Closes("text") /\ sent[10] = <<"message_stop">>
        /\ {i \in DOMAIN sent : sent[i][1] = "start"} = {2, 4, 6}
    BY <2>1, WholeAnswerIsWhole
  <2>3. \E call, result, text \in DOMAIN sent :
          /\ call < result /\ result < text
          /\ sent[call] = Opens("call") /\ sent[result] = Opens("result")
          /\ sent[text] = Opens("text")
          /\ {i \in DOMAIN sent : sent[i][1] = "start"} = {call, result, text}
    BY <2>2
  <2>4. ASSUME NEW i \in DOMAIN sent, sent[i][1] = "start"
        PROVE  \E j \in i + 1 .. Len(sent) :
                 sent[j] = Closes(sent[i][2]) /\ \A k \in i + 1 .. j - 1 : sent[k][1] = "delta"
    <3>1. i \in {2, 4, 6}
      BY <2>2, <2>4
    <3>2. CASE i = 2
      <4>1. sent[3] = Closes(sent[2][2]) /\ \A k \in 3 .. 2 : sent[k][1] = "delta"
        BY <2>2 DEF Opens
      <4> QED BY <2>2, <3>2, <4>1
    <3>3. CASE i = 4
      <4>1. sent[5] = Closes(sent[4][2]) /\ \A k \in 5 .. 4 : sent[k][1] = "delta"
        BY <2>2 DEF Opens
      <4> QED BY <2>2, <3>3, <4>1
    <3>4. CASE i = 6
      <4>1. sent[8] = Closes(sent[6][2]) /\ \A k \in 7 .. 7 : sent[k][1] = "delta"
        BY <2>2 DEF Opens
      <4> QED BY <2>2, <3>4, <4>1
    <3> QED BY <3>1, <3>2, <3>3, <3>4
  <2>5. Last(sent) = <<"message_stop">>
    BY <2>2 DEF Last
  <2> QED BY <2>3, <2>4, <2>5
<1>3. web.pc = "done" /\ ~ web.failed /\ web.tool = "web_fetch" => visited # <<>>
  BY DEF WebInv, WebTyped, WebReach
<1> QED BY <1>1, <1>2, <1>3 DEF WebAnswerWhole

-----------------------------------------------------------------------------
(* The tools of Codex.                                                      *)

ToolType == [kind : ToolKinds, namespace : Namespaces \cup {TopLevel}, name : ToolNames]

\* A call is made once, of the tool that was forced if one was, and from then on the list of
\* the tools and the choice stay.
ToolsInv ==
  /\ tools \in Seq(ToolType)
  /\ chosen # NoTool => \E i \in ConvertTools : chosen = tools[i]
  /\ choice = IF chosen = NoTool THEN <<>> ELSE FlatOf(chosen)
  /\ called = <<>> => reported = NoTool
  /\ called # <<>> => reported = Identity(called)
  /\ called # <<>> /\ chosen # NoTool => called = FlatOf(chosen)

LEMMA PartsStay ==
  ASSUME NEW name \in Seq(STRING)
  PROVE  /\ DOMAIN NamePart(name) = 1 .. Len(name)
         /\ \A i \in 1 .. Len(name) : name[i] \notin DOMAIN Cleaned => NamePart(name)[i] = name[i]
         /\ Range(name) \cap DOMAIN Cleaned = {} => NamePart(name) = name
<1>1. DOMAIN name = 1 .. Len(name) /\ name = [i \in 1 .. Len(name) |-> name[i]]
  OBVIOUS
<1>2. /\ DOMAIN NamePart(name) = 1 .. Len(name)
      /\ \A i \in 1 .. Len(name) : name[i] \notin DOMAIN Cleaned => NamePart(name)[i] = name[i]
  BY <1>1 DEF NamePart
<1>3. ASSUME Range(name) \cap DOMAIN Cleaned = {}
      PROVE  NamePart(name) = name
  <2>1. \A i \in DOMAIN name : name[i] \notin DOMAIN Cleaned
    BY <1>3 DEF Range
  <2>2. NamePart(name) = [i \in DOMAIN name |-> name[i]]
    BY <2>1 DEF NamePart
  <2> QED BY <1>1, <2>2
<1> QED BY <1>2, <1>3

LEMMA PartsAreASeq ==
  ASSUME NEW name \in Seq(STRING)
  PROVE  NamePart(name) \in Seq(STRING \cup Range(Cleaned)) /\ Len(NamePart(name)) = Len(name)
<1>1. DOMAIN name = 1 .. Len(name) /\ Len(name) \in Nat /\ \A i \in DOMAIN name : name[i] \in STRING
  OBVIOUS
<1>2. NamePart(name) \in [1 .. Len(name) -> STRING \cup Range(Cleaned)]
  BY <1>1 DEF NamePart, Range
<1> QED BY <1>1, <1>2

LEMMA FlatIsNamed ==
  ASSUME NEW tool \in ToolType
  PROVE  FlatOf(tool) # <<>>
<1>1. /\ tool.name \in Seq(STRING) /\ tool.name # <<>>
      /\ tool.namespace # TopLevel => tool.namespace \in Seq(STRING) /\ tool.namespace # <<>>
  BY ToolsAssumption DEF ToolType, TopLevel
<1>2. CASE tool.namespace = TopLevel
  BY <1>1, <1>2 DEF FlatOf, FlatName
<1>3. CASE tool.namespace # TopLevel
  <2> DEFINE space == NamePart(tool.namespace)
             name == NamePart(tool.name)
             S == STRING \cup Range(Cleaned)
  <2>1. space \in Seq(S) /\ name \in Seq(S) /\ Len(name) = Len(tool.name)
    BY <1>1, <1>3, PartsAreASeq
  <2>2. Len(tool.name) \in Nat \ {0}
    BY <1>1
  <2>3. FlatOf(tool) = space \o name
    BY <1>3 DEF FlatOf, FlatName
  <2> HIDE DEF space, name, S
  <2>4. Len(space \o name) = Len(space) + Len(name) /\ Len(space) \in Nat
    BY <2>1
  <2>5. Len(space \o name) # 0
    BY <2>1, <2>2, <2>4
  <2> QED BY <2>3, <2>5
<1> QED BY <1>2, <1>3

LEMMA OneAndOne ==
  ASSUME NEW S, NEW s \in Seq(S), NEW t \in Seq(S), Len(s) = 1, Len(t) = 1
  PROVE  Len(s \o t) = 2 /\ (s \o t)[1] = s[1] /\ (s \o t)[2] = t[1]
<1>1. /\ Len(s \o t) = Len(s) + Len(t)
      /\ \A i \in 1 .. Len(s) + Len(t) :
           (s \o t)[i] = IF i <= Len(s) THEN s[i] ELSE t[i - Len(s)]
  BY ConcatProperties
<1>2. 1 \in 1 .. Len(s) + Len(t) /\ 2 \in 1 .. Len(s) + Len(t)
  OBVIOUS
<1>3. (s \o t)[1] = s[1]
  BY <1>1, <1>2
<1>4. (s \o t)[2] = t[2 - 1]
  BY <1>1, <1>2
<1> QED BY <1>1, <1>3, <1>4

\* Names of one part that need no cleaning do not meet.
LEMMA PlainlyIsFlatly ==
  ASSUME tools \in Seq(ToolType), PlainlyDistinct
  PROVE  FlatlyDistinct
<1>1. \A i \in ConvertTools :
        /\ tools[i] \in ToolType /\ tools[i].name \in Seq(STRING) /\ Len(tools[i].name) = 1
        /\ \/ tools[i].namespace = TopLevel
           \/ /\ tools[i].namespace # TopLevel /\ tools[i].namespace \in Seq(STRING)
              /\ Len(tools[i].namespace) = 1
  <2> SUFFICES ASSUME NEW i \in ConvertTools
               PROVE  /\ tools[i] \in ToolType /\ tools[i].name \in Seq(STRING)
                      /\ Len(tools[i].name) = 1
                      /\ \/ tools[i].namespace = TopLevel
                         \/ /\ tools[i].namespace # TopLevel /\ tools[i].namespace \in Seq(STRING)
                            /\ Len(tools[i].namespace) = 1
    OBVIOUS
  <2>1. tools[i] \in ToolType
    BY DEF ConvertTools
  <2>2. Len(tools[i].name) = 1 /\ Len(tools[i].namespace) <= 1
    BY DEF PlainlyDistinct
  <2> QED BY <2>1, <2>2, ToolsAssumption DEF ToolType, TopLevel
<1>2. ASSUME NEW i \in ConvertTools
      PROVE  FlatOf(tools[i]) = IF tools[i].namespace = TopLevel THEN tools[i].name
                                ELSE tools[i].namespace \o tools[i].name
  <2>1. /\ Range(tools[i].name) \cap DOMAIN Cleaned = {}
        /\ Range(tools[i].namespace) \cap DOMAIN Cleaned = {}
    BY DEF PlainlyDistinct
  <2>2. NamePart(tools[i].name) = tools[i].name
    BY <1>1, <2>1, PartsStay
  <2>3. tools[i].namespace # TopLevel => NamePart(tools[i].namespace) = tools[i].namespace
    BY <1>1, <2>1, PartsStay
  <2> QED BY <2>2, <2>3 DEF FlatOf, FlatName
<1>3. ASSUME NEW i \in ConvertTools, NEW j \in ConvertTools, i # j,
             FlatOf(tools[i]) = FlatOf(tools[j])
      PROVE  FALSE
  <2> DEFINE a == tools[i].namespace
             b == tools[i].name
             c == tools[j].namespace
             d == tools[j].name
  <2>1. a # c \/ b # d
    BY <1>3 DEF PlainlyDistinct
  <2>2. /\ b \in Seq(STRING) /\ d \in Seq(STRING) /\ Len(b) = 1 /\ Len(d) = 1
        /\ a # TopLevel => a \in Seq(STRING) /\ Len(a) = 1
        /\ c # TopLevel => c \in Seq(STRING) /\ Len(c) = 1
        /\ (IF a = TopLevel THEN b ELSE a \o b) = (IF c = TopLevel THEN d ELSE c \o d)
    BY <1>1, <1>2, <1>3
  <2> HIDE DEF a, b, c, d
  <2>3. a # TopLevel => Len(a \o b) = 2 /\ (a \o b)[1] = a[1] /\ (a \o b)[2] = b[1]
    BY <2>2, OneAndOne
  <2>4. c # TopLevel => Len(c \o d) = 2 /\ (c \o d)[1] = c[1] /\ (c \o d)[2] = d[1]
    BY <2>2, OneAndOne
  <2>5. CASE a = TopLevel
    <3>1. c = TopLevel
      BY <2>2, <2>4, <2>5
    <3> QED BY <2>1, <2>2, <2>5, <3>1
  <2>6. CASE a # TopLevel
    <3>1. c # TopLevel
      BY <2>2, <2>3, <2>6
    <3>2. a[1] = c[1] /\ b[1] = d[1]
      BY <2>2, <2>3, <2>4, <2>6, <3>1
    <3>3. a = c
      BY <2>2, <2>6, <3>1, <3>2, SeqEqual
    <3>4. b = d
      BY <2>2, <3>2, SeqEqual
    <3> QED BY <2>1, <3>3, <3>4
  <2> QED BY <2>5, <2>6
<1> QED BY <1>3 DEF FlatlyDistinct

\* What a flat name is told back as: a tool with that name, or a function of that name.
LEMMA IdentityFits ==
  ASSUME tools \in Seq(ToolType), NEW flat
  PROVE  /\ FlatOf(Identity(flat)) = flat
         /\ FlatlyDistinct => \A i \in ConvertTools : FlatOf(tools[i]) = flat => Identity(flat) = tools[i]
<1> DEFINE same == {i \in ConvertTools : FlatOf(tools[i]) = flat}
<1>1. CASE same = {}
  <2>1. Identity(flat) = Tool("function", TopLevel, flat)
    BY <1>1 DEF Identity
  <2> QED BY <1>1, <2>1 DEF FlatOf, FlatName, Tool
<1>2. CASE same # {}
  <2>1. same \subseteq Nat
    BY DEF ConvertTools
  <2>2. Min(same) \in same
    <3> HIDE DEF same
    <3> QED BY <1>2, <2>1, Least
  <2>3. Identity(flat) = tools[Min(same)]
    BY <1>2 DEF Identity
  <2>4. ASSUME FlatlyDistinct, NEW i \in ConvertTools, FlatOf(tools[i]) = flat
        PROVE  i = Min(same)
    BY <2>2, <2>4 DEF FlatlyDistinct
  <2> QED BY <2>2, <2>3, <2>4
<1> QED BY <1>1, <1>2

LEMMA ToolsStart == ToolsInit => ToolsInv
BY DEF ToolsInit, ToolsInv

LEMMA ToolsStep ==
  ASSUME ToolsInv, ToolsNext
  PROVE  ToolsInv'
<1>1. ASSUME NEW kind \in ToolKinds, NEW namespace \in Namespaces \cup {TopLevel},
             NEW name \in ToolNames, Offer(Tool(kind, namespace, name))
      PROVE  ToolsInv'
  <2>1. /\ chosen = NoTool /\ called = <<>> /\ choice' = choice /\ chosen' = chosen
        /\ called' = called /\ reported' = reported
        /\ tools' = Append(tools, Tool(kind, namespace, name))
    BY <1>1 DEF Offer
  <2>2. Tool(kind, namespace, name) \in ToolType
    BY DEF Tool, ToolType
  <2>3. tools' \in Seq(ToolType)
    BY <2>1, <2>2 DEF ToolsInv
  <2> QED BY <2>1, <2>3 DEF ToolsInv
<1>2. ASSUME NEW i \in ConvertTools, Choose(tools[i])
      PROVE  ToolsInv'
  <2>1. /\ called = <<>> /\ called' = called /\ reported' = reported /\ tools' = tools
        /\ chosen' = tools[i] /\ choice' = FlatOf(tools[i])
    BY <1>2 DEF Choose, ConvertToolChoice
  <2>2. tools[i] # NoTool
    BY DEF ToolsInv, ToolType, ConvertTools, NoTool, Tool, ToolKinds
  <2>3. ConvertTools' = ConvertTools
    BY <2>1 DEF ConvertTools
  <2> QED BY <2>1, <2>2, <2>3 DEF ToolsInv
<1>3. ASSUME NEW flat \in {FlatOf(tools[i]) : i \in ConvertTools} \cup ToolNames, Call(flat)
      PROVE  ToolsInv'
  <2>1. /\ tools' = tools /\ choice' = choice /\ chosen' = chosen
        /\ called' = flat /\ reported' = Identity(flat) /\ (choice # <<>> => flat = choice)
    BY <1>3 DEF Call
  <2>2. \A i \in ConvertTools : FlatOf(tools[i]) # <<>>
    BY FlatIsNamed DEF ToolsInv, ConvertTools
  <2>3. flat # <<>>
    BY <2>2, ToolsAssumption DEF TopLevel
  <2>4. ConvertTools' = ConvertTools /\ Identity(flat)' = Identity(flat)
    BY <2>1 DEF ConvertTools, Identity
  <2>5. chosen # NoTool => choice # <<>> /\ choice = FlatOf(chosen)
    BY <2>2 DEF ToolsInv
  <2> QED BY <2>1, <2>3, <2>4, <2>5 DEF ToolsInv
<1> QED BY <1>1, <1>2, <1>3 DEF ToolsNext

LEMMA ToolsInvIsEnough == ToolsInv => ToolsAgree
<1> SUFFICES ASSUME ToolsInv, reported # NoTool PROVE ToolsAgree
  BY DEF ToolsAgree
<1>1. called # <<>> /\ reported = Identity(called) /\ tools \in Seq(ToolType)
  BY DEF ToolsInv
<1>2. FlatOf(reported) = called
  BY <1>1, IdentityFits
<1>3. ASSUME FlatlyDistinct \/ PlainlyDistinct
      PROVE  /\ \A i \in ConvertTools : FlatOf(tools[i]) = called => reported = tools[i]
             /\ chosen # NoTool => reported = chosen
  <2>1. FlatlyDistinct
    BY <1>1, <1>3, PlainlyIsFlatly
  <2>2. \A i \in ConvertTools : FlatOf(tools[i]) = called => reported = tools[i]
    BY <1>1, <2>1, IdentityFits
  <2> QED BY <1>1, <2>2 DEF ToolsInv
<1> QED BY <1>2, <1>3 DEF ToolsAgree

-----------------------------------------------------------------------------
(* The names of the models, and who answers a request.                      *)

LEMMA RefsAreNamed ==
  ASSUME NEW ref \in Refs
  PROVE  /\ ref \in Seq(STRING) /\ Len(ref) \in Nat /\ Len(ref) >= 2 /\ ref # <<>>
         /\ Head(ref) \in Supported
         /\ Head(ref) \notin {"anthropic", "claude-3-freecc-no-thinking"}
<1>1. ref \in Seq(STRING) /\ Len(ref) >= 2 /\ ref[1] \in Supported
  BY RoutingAssumption
<1>2. Len(ref) \in Nat /\ ref # <<>> /\ Head(ref) = ref[1]
  BY <1>1
<1> QED BY <1>1, <1>2, RoutingAssumption

LEMMA OneInFront ==
  ASSUME NEW S, NEW x \in S, NEW s \in Seq(S)
  PROVE  /\ Len(<<x>> \o s) = Len(s) + 1 /\ Head(<<x>> \o s) = x /\ Tail(<<x>> \o s) = s
<1> DEFINE t == <<x>> \o s
<1>0. <<x>> \in Seq(S) /\ Len(<<x>>) = 1 /\ <<x>>[1] = x /\ Len(s) \in Nat
  OBVIOUS
<1>1. /\ t \in Seq(S) /\ Len(t) = Len(s) + 1
      /\ t[1] = x /\ \A i \in 1 .. Len(s) : t[i + 1] = s[i]
  <2>1. /\ t \in Seq(S) /\ Len(t) = 1 + Len(s)
        /\ \A i \in 1 .. 1 + Len(s) : t[i] = IF i <= 1 THEN <<x>>[i] ELSE s[i - 1]
    <3> DEFINE u == <<x>>
    <3>1. /\ u \o s \in Seq(S) /\ Len(u \o s) = Len(u) + Len(s)
          /\ \A i \in 1 .. Len(u) + Len(s) : (u \o s)[i] = IF i <= Len(u) THEN u[i] ELSE s[i - Len(u)]
      <4> HIDE DEF u
      <4> QED BY <1>0, ConcatProperties DEF u
    <3>2. Len(u) = 1
      BY <1>0
    <3> HIDE DEF u
    <3>3. /\ u \o s \in Seq(S) /\ Len(u \o s) = 1 + Len(s)
          /\ \A i \in 1 .. 1 + Len(s) : (u \o s)[i] = IF i <= 1 THEN u[i] ELSE s[i - 1]
      BY <3>1, <3>2
    <3> QED BY <3>3 DEF u
  <2> HIDE DEF t
  <2>2. \A i \in 1 .. Len(s) : i + 1 \in 1 .. 1 + Len(s) /\ ~ i + 1 <= 1 /\ (i + 1) - 1 = i
    BY <1>0
  <2>3. 1 \in 1 .. 1 + Len(s)
    BY <1>0
  <2> QED BY <1>0, <2>1, <2>2, <2>3
<1> HIDE DEF t
<1>2. t # <<>>
  BY <1>0, <1>1
<1>3. Head(t) = x
  BY <1>1, <1>2
<1>4. /\ Tail(t) \in Seq(S) /\ Len(Tail(t)) = Len(t) - 1
      /\ \A i \in 1 .. Len(Tail(t)) : Tail(t)[i] = t[i + 1]
  BY <1>1, <1>2, HeadTailProperties
<1>5. Len(Tail(t)) = Len(s) /\ \A i \in 1 .. Len(Tail(t)) : Tail(t)[i] = s[i]
  BY <1>0, <1>1, <1>4
<1>6. Tail(t) = s
  BY <1>4, <1>5, SeqEqual
<1> QED BY <1>1, <1>3, <1>6 DEF t

\* Both names the gateway gives to a model, and its own name, are resolved to that model
\* whatever the settings are and whatever the model is called, a part of it like one of the
\* gateway's prefixes included; the variant without thinking does not think
\* (gateway_model_ids.py, ModelRouter.resolve).
THEOREM NamesResolved ==
  ASSUME NEW s, NEW ref \in Refs
  PROVE  /\ Resolve(s, ref).ref = ref
         /\ Resolve(s, GatewayId(ref)).ref = ref
         /\ Resolve(s, NoThinkingId(ref)).ref = ref
         /\ ~ Resolve(s, NoThinkingId(ref)).thinking
<1>1. /\ ref \in Seq(STRING) /\ Len(ref) \in Nat /\ Len(ref) >= 2 /\ ref # <<>>
      /\ Head(ref) \in Supported
      /\ Head(ref) \notin {"anthropic", "claude-3-freecc-no-thinking"}
  BY RefsAreNamed
<1>2. /\ Len(GatewayId(ref)) = Len(ref) + 1 /\ Head(GatewayId(ref)) = "anthropic"
      /\ Tail(GatewayId(ref)) = ref
  BY <1>1, OneInFront DEF GatewayId
<1>3. /\ Len(NoThinkingId(ref)) = Len(ref) + 1
      /\ Head(NoThinkingId(ref)) = "claude-3-freecc-no-thinking"
      /\ Tail(NoThinkingId(ref)) = ref
  BY <1>1, OneInFront DEF NoThinkingId
<1>4. Decoded(ref) = ref /\ Decoded(GatewayId(ref)) = ref /\ Decoded(NoThinkingId(ref)) = ref
  BY <1>1, <1>2, <1>3 DEF Decoded
<1>5. Direct(ref) = ref /\ Direct(GatewayId(ref)) = ref /\ Direct(NoThinkingId(ref)) = ref
  BY <1>1, <1>4 DEF Direct
<1> QED BY <1>1, <1>3, <1>5 DEF Resolve, NoRef

\* An answer is the one to the request that is asked.
RoutingInv ==
  /\ request = NoRequest => answer = NoAnswer
  /\ request # NoRequest =>
       /\ request.api \in {"messages", "responses", "count"}
       /\ request.tools \in {"none", "own"} \cup WebTools
       /\ request.forced \in {"none"} \cup WebTools
  /\ answer # NoAnswer => answer = AnswerTo(settings, request)

LEMMA RoutingStarts == RoutingInit \/ RoutingRests => RoutingInv
BY DEF RoutingInit, RoutingRests, RoutingInv

LEMMA RoutingStep ==
  ASSUME RoutingInv, RoutingNext
  PROVE  RoutingInv'
<1>1. CASE ListModels
  BY <1>1 DEF ListModels, RoutingInv
<1>2. CASE Ask
  <2>1. request = NoRequest /\ answer = NoAnswer /\ answer' = answer
    BY <1>2 DEF Ask, RoutingInv
  <2>2. \/ \E name : request' \in TurnRequests(name)
        \/ request' \in PromptRequests
    BY <1>2 DEF Ask
  <2>3. /\ request'.api \in {"messages", "responses", "count"}
        /\ request'.tools \in {"none", "own"} \cup WebTools
        /\ request'.forced \in {"none"} \cup WebTools
    BY <2>2 DEF TurnRequests, PromptRequests
  <2>4. request' # NoRequest
    BY <2>3 DEF NoRequest
  <2> QED BY <2>1, <2>3, <2>4 DEF RoutingInv
<1>3. CASE Answer
  BY <1>3 DEF Answer, RoutingInv
<1> QED BY <1>1, <1>2, <1>3 DEF RoutingNext

\* A turn of an agent is none of the housekeeping prompts.
LEMMA NoShortcut ==
  ASSUME NEW s, NEW r, r.tools = "own", r.messages = 2, "suggestion" \notin r.marks
  PROVE  Shortcut(s, r) = "none"
<1>1. /\ ~ Matches(r, "quota") /\ ~ Matches(r, "prefix") /\ ~ Matches(r, "title")
      /\ ~ Matches(r, "suggestion") /\ ~ Matches(r, "filepaths")
  BY DEF Matches, IsQuota, IsPrefixDetection, IsTitle, IsSuggestion, IsFilepaths, Alone, NoTools
<1>2. \A k \in DOMAIN Shortcuts :
        Shortcuts[k] \in {"quota", "prefix", "title", "suggestion", "filepaths"}
  BY DEF Shortcuts
<1>3. {k \in DOMAIN Shortcuts : Shortcuts[k] \in s.shortcuts /\ Matches(r, Shortcuts[k])} = {}
  BY <1>1, <1>2
<1> QED BY <1>3 DEF Shortcut

LEMMA RoutingInvIsEnough == RoutingInv => PromptsLead
<1> SUFFICES ASSUME RoutingInv, answer.by # "none", request.api # "count" PROVE PromptsLead
  BY DEF PromptsLead
<1> DEFINE r == request
<1>1. /\ answer = AnswerTo(settings, r) /\ r # NoRequest
      /\ r.api \in {"messages", "responses"} /\ r.forced \in {"none", "web_search", "web_fetch"}
  BY DEF RoutingInv, NoAnswer, WebTools
<1>2. CASE r.api = "responses"
  <2>1. answer = Responses(settings, r)
    BY <1>1, <1>2 DEF AnswerTo
  <2>2. answer.by = IF r.messages = 0 THEN "error" ELSE "provider"
    BY <2>1 DEF Responses, Refused, Provided
  <2> QED BY <1>2, <2>2 DEF PromptsLead
<1>3. CASE r.api = "messages"
  <2>1. answer = Messages(settings, r)
    BY <1>1, <1>3 DEF AnswerTo
  <2>2. ASSUME r.tools = "own", r.messages = 2, "suggestion" \notin r.marks
        PROVE  answer.by = "provider" \/ (r.forced # "none" /\ ~ settings.web)
    <3>1. ~ IsWebRequest(r)
      BY <1>1, <2>2 DEF IsWebRequest
    <3>2. ServerToolError(settings, r) => r.forced # "none" /\ ~ settings.web
      BY <2>2 DEF ServerToolError, WebTools
    <3>3. Shortcut(settings, r) = "none"
      BY <2>2, NoShortcut
    <3> DEFINE routed == Resolve(settings, r.name)
               resolved == IF IsClassifier(r) THEN [routed EXCEPT !.thinking = FALSE] ELSE routed
    <3>4. \/ ServerToolError(settings, r)
          \/ answer = Provided(resolved, r)
      BY <2>1, <2>2, <3>1, <3>3 DEF Messages
    <3> HIDE DEF resolved
    <3>5. Provided(resolved, r).by = "provider"
      BY DEF Provided
    <3> QED BY <3>2, <3>4, <3>5
  <2>3. ASSUME answer.by = "provider", answer.ref[1] \in ChatProviders, r.forced = "none"
        PROVE  r.tools \notin WebTools
    <3> DEFINE routed == Resolve(settings, r.name)
               resolved == IF IsClassifier(r) THEN [routed EXCEPT !.thinking = FALSE] ELSE routed
    <3>1. Shortcut(settings, r) \in {"none", "quota", "prefix", "title", "suggestion", "filepaths"}
      <4> DEFINE matching == {k \in DOMAIN Shortcuts :
                                Shortcuts[k] \in settings.shortcuts /\ Matches(r, Shortcuts[k])}
      <4>1. matching \subseteq Nat
        BY DEF Shortcuts
      <4>2. matching # {} => Min(matching) \in DOMAIN Shortcuts
        <5> HIDE DEF matching
        <5>1. matching # {} => Min(matching) \in matching
          BY <4>1, Least
        <5> QED BY <5>1 DEF matching
      <4>3. \A k \in DOMAIN Shortcuts :
              Shortcuts[k] \in {"quota", "prefix", "title", "suggestion", "filepaths"}
        BY DEF Shortcuts
      <4> QED BY <4>2, <4>3 DEF Shortcut
    <3>2. answer = Provided(resolved, r) /\ ~ (resolved.ref[1] \in ChatProviders /\ ServerToolError(settings, r))
      BY <2>1, <2>3, <3>1 DEF Messages, Refused, Locally
    <3>3. answer.ref = resolved.ref
      BY <3>2 DEF Provided
    <3> QED BY <2>3, <3>2, <3>3 DEF ServerToolError
  <2> QED BY <1>3, <2>2, <2>3 DEF PromptsLead
<1> QED BY <1>1, <1>2, <1>3

-----------------------------------------------------------------------------
(* The record of the usage.                                                 *)

\* The deque is the end of what was recorded.
UsageInv ==
  /\ now \in 0 .. MaxClock /\ records \in Seq(Record) /\ ended \in Seq(Record)
  /\ Len(records) = IF Len(ended) < MaxRecords THEN Len(ended) ELSE MaxRecords
  /\ \A i \in 1 .. Len(records) : records[i] = ended[Len(ended) - Len(records) + i]

LEMMA UsageStarts == UsageInit => UsageInv
<1> SUFFICES ASSUME UsageInit PROVE UsageInv
  OBVIOUS
<1>1. <<>> \in Seq(Record) /\ Len(<<>>) = 0
  OBVIOUS
<1> QED BY <1>1, UsageAssumption DEF UsageInit, UsageInv

LEMMA UsageStep ==
  ASSUME UsageInv, UsageNext
  PROVE  UsageInv'
<1>0. MaxRecords \in Nat \ {0} /\ MaxClock \in Nat /\ Len(records) \in Nat /\ Len(ended) \in Nat
  BY UsageAssumption DEF UsageInv
<1>1. ASSUME NEW r \in Record, RecordUsage(r) PROVE UsageInv'
  <2>1. /\ ended' = Append(ended, r) /\ now' = now
        /\ records' = IF Len(records) < MaxRecords THEN Append(records, r)
                      ELSE Append(Tail(records), r)
    BY <1>1 DEF RecordUsage
  <2>2. /\ ended' \in Seq(Record) /\ Len(ended') = Len(ended) + 1 /\ ended'[Len(ended) + 1] = r
        /\ \A i \in 1 .. Len(ended) : ended'[i] = ended[i]
    BY <2>1 DEF UsageInv
  <2>3. CASE Len(records) < MaxRecords
    <3>1. /\ records' \in Seq(Record) /\ Len(records') = Len(records) + 1
          /\ records'[Len(records) + 1] = r
          /\ \A i \in 1 .. Len(records) : records'[i] = records[i]
      BY <2>1, <2>3 DEF UsageInv
    <3>2. Len(records) = Len(ended)
      BY <1>0, <2>3 DEF UsageInv
    <3>3. \A i \in 1 .. Len(records') : records'[i] = ended'[i]
      <4>1. \A i \in 1 .. Len(records) : Len(ended) - Len(records) + i = i
        BY <1>0, <3>2
      <4>2. \A i \in 1 .. Len(records) : records[i] = ended[i]
        BY <4>1 DEF UsageInv
      <4> QED BY <1>0, <2>2, <3>1, <3>2, <4>2
    <3>4. Len(records') = Len(ended') /\ Len(ended') <= MaxRecords
      BY <1>0, <2>2, <2>3, <3>1, <3>2
    <3>5. \A i \in 1 .. Len(records') : Len(ended') - Len(records') + i = i
      BY <1>0, <2>2, <3>4
    <3>6. \A i \in 1 .. Len(records') : records'[i] = ended'[Len(ended') - Len(records') + i]
      BY <3>3, <3>5
    <3>7. Len(records') = IF Len(ended') < MaxRecords THEN Len(ended') ELSE MaxRecords
      BY <1>0, <2>2, <3>4
    <3>8. now' \in 0 .. MaxClock
      BY <2>1 DEF UsageInv
    <3> QED BY <2>2, <3>1, <3>6, <3>7, <3>8 DEF UsageInv
  <2>4. CASE ~ Len(records) < MaxRecords
    <3>1. Len(records) = MaxRecords /\ Len(ended) >= MaxRecords /\ records # <<>>
      BY <1>0, <2>4 DEF UsageInv
    <3>2. /\ Tail(records) \in Seq(Record) /\ Len(Tail(records)) = MaxRecords - 1
          /\ \A i \in 1 .. MaxRecords - 1 : Tail(records)[i] = records[i + 1]
      BY <3>1, HeadTailProperties DEF UsageInv
    <3>3. /\ records' \in Seq(Record) /\ Len(records') = MaxRecords /\ records'[MaxRecords] = r
          /\ \A i \in 1 .. MaxRecords - 1 : records'[i] = records[i + 1]
      BY <1>0, <2>1, <2>4, <3>2
    <3>4. ASSUME NEW i \in 1 .. MaxRecords
          PROVE  records'[i] = ended'[Len(ended) + 1 - MaxRecords + i]
      <4>1. CASE i = MaxRecords
        BY <1>0, <2>2, <3>1, <3>3, <4>1
      <4>2. CASE i \in 1 .. MaxRecords - 1
        <5>1. i + 1 \in 1 .. Len(records) /\ Len(ended) - MaxRecords + i + 1 \in 1 .. Len(ended)
          BY <1>0, <3>1, <4>2
        <5>2. records[i + 1] = ended[Len(ended) - MaxRecords + (i + 1)]
          BY <3>1, <5>1 DEF UsageInv
        <5> DEFINE k == Len(ended) + 1 - MaxRecords + i
        <5>3. Len(ended) - MaxRecords + (i + 1) = k /\ k \in 1 .. Len(ended)
          BY <1>0, <5>1
        <5> HIDE DEF k
        <5>4. ended'[k] = ended[k] /\ records'[i] = records[i + 1]
          BY <2>2, <3>3, <4>2, <5>3
        <5>5. records'[i] = ended'[k]
          BY <5>2, <5>3, <5>4
        <5> QED BY <5>5 DEF k
      <4>3. i = MaxRecords \/ i \in 1 .. MaxRecords - 1
        BY <1>0
      <4> QED BY <4>1, <4>2, <4>3
    <3>5. \A i \in 1 .. Len(records') : records'[i] = ended'[Len(ended') - Len(records') + i]
      BY <1>0, <2>2, <3>3, <3>4
    <3>6. Len(records') = IF Len(ended') < MaxRecords THEN Len(ended') ELSE MaxRecords
      BY <1>0, <2>2, <3>1, <3>3
    <3>7. now' \in 0 .. MaxClock
      BY <2>1 DEF UsageInv
    <3> QED BY <2>2, <3>3, <3>5, <3>6, <3>7 DEF UsageInv
  <2> QED BY <2>3, <2>4
<1>2. CASE ClockMoves
  BY <1>2 DEF ClockMoves, UsageInv
<1> QED BY <1>1, <1>2 DEF UsageNext

LEMMA UsageInvIsEnough == UsageInv => UsageTypeOK /\ RecordsNewest
<1> SUFFICES ASSUME UsageInv PROVE UsageTypeOK /\ RecordsNewest
  OBVIOUS
<1>0. MaxRecords \in Nat \ {0} /\ Len(records) \in Nat /\ Len(ended) \in Nat
  BY UsageAssumption DEF UsageInv
<1>1. UsageTypeOK
  BY <1>0 DEF UsageInv, UsageTypeOK, Range
<1> DEFINE first == IF Len(ended) > MaxRecords THEN Len(ended) - MaxRecords + 1 ELSE 1
<1>2. first \in Int /\ \A i \in first .. Len(ended) : ended[i] \in Record
  BY <1>0 DEF UsageInv
<1>3. /\ SubSeq(ended, first, Len(ended)) \in Seq(Record)
      /\ Len(SubSeq(ended, first, Len(ended))) =
           IF first <= Len(ended) THEN Len(ended) - first + 1 ELSE 0
      /\ \A i \in 1 .. Len(ended) - first + 1 :
           SubSeq(ended, first, Len(ended))[i] = ended[first + i - 1]
  <2> HIDE DEF first
  <2> QED BY <1>0, <1>2, SubSeqProperties
<1>4. Len(records) = Len(ended) - first + 1
  <2>1. Len(records) = IF Len(ended) < MaxRecords THEN Len(ended) ELSE MaxRecords
    BY DEF UsageInv
  <2>2. CASE Len(ended) > MaxRecords
    <3>1. first = Len(ended) - MaxRecords + 1 /\ Len(records) = MaxRecords
      BY <1>0, <2>1, <2>2
    <3> HIDE DEF first
    <3> QED BY <1>0, <3>1
  <2>3. CASE ~ Len(ended) > MaxRecords
    <3>1. first = 1 /\ Len(records) = Len(ended)
      BY <1>0, <2>1, <2>3
    <3> HIDE DEF first
    <3> QED BY <1>0, <3>1
  <2> QED BY <2>2, <2>3
<1>5. \A i \in 1 .. Len(records) : first + i - 1 = Len(ended) - Len(records) + i
  BY <1>0, <1>4
<1>6. Newest = SubSeq(ended, first, Len(ended))
  BY DEF Newest
<1> HIDE DEF first
<1>7. Len(Newest) = Len(records) /\ \A i \in 1 .. Len(records) : records[i] = Newest[i]
  <2>1. Len(Newest) = Len(records)
    BY <1>0, <1>2, <1>3, <1>4, <1>6
  <2>2. \A i \in 1 .. Len(records) : Newest[i] = ended[first + i - 1]
    BY <1>3, <1>4, <1>6
  <2>3. \A i \in 1 .. Len(records) : records[i] = ended[Len(ended) - Len(records) + i]
    BY DEF UsageInv
  <2> QED BY <1>5, <2>1, <2>2, <2>3
<1>8. records = Newest
  BY <1>3, <1>6, <1>7, SeqEqual DEF UsageInv
<1> QED BY <1>1, <1>8 DEF RecordsNewest

-----------------------------------------------------------------------------
(* The transcript's operators: what each makes of the segments and of the   *)
(* stack.                                                                   *)

IsSeq(s) == s \in Seq(Range(s))

\* A TranscriptBuffer.
IsTranscript(tr) ==
  /\ tr = [segments |-> tr.segments, open |-> tr.open, stack |-> tr.stack, agents |-> tr.agents]
  /\ IsSeq(tr.segments)

SameStack(tr, with) == with.stack = tr.stack /\ with.agents = tr.agents

\* A transcript with other segments, or with another stack, is one.
LEMMA Replaced ==
  ASSUME NEW tr, IsTranscript(tr), NEW segments, NEW stack, NEW agents
  PROVE  /\ [tr EXCEPT !.segments = segments] =
               [segments |-> segments, open |-> tr.open, stack |-> tr.stack, agents |-> tr.agents]
         /\ [tr EXCEPT !.stack = stack, !.agents = agents] =
               [segments |-> tr.segments, open |-> tr.open, stack |-> stack, agents |-> agents]
<1>1. PICK a, b, c, d : tr = [segments |-> a, open |-> b, stack |-> c, agents |-> d]
  BY DEF IsTranscript
<1>2. tr.segments = a /\ tr.open = b /\ tr.stack = c /\ tr.agents = d
  BY <1>1
<1>3. [[segments |-> a, open |-> b, stack |-> c, agents |-> d] EXCEPT !.segments = segments] =
        [segments |-> segments, open |-> b, stack |-> c, agents |-> d]
  OBVIOUS
<1>4. [[segments |-> a, open |-> b, stack |-> c, agents |-> d] EXCEPT !.stack = stack, !.agents = agents] =
        [segments |-> a, open |-> b, stack |-> stack, agents |-> agents]
  <2> DEFINE old == [segments |-> a, open |-> b, stack |-> c, agents |-> d]
  <2>1. [old EXCEPT !.stack = stack] = [segments |-> a, open |-> b, stack |-> stack, agents |-> d]
    OBVIOUS
  <2>2. [[segments |-> a, open |-> b, stack |-> stack, agents |-> d] EXCEPT !.agents = agents] =
          [segments |-> a, open |-> b, stack |-> stack, agents |-> agents]
    OBVIOUS
  <2>3. [old EXCEPT !.stack = stack, !.agents = agents] =
          [[old EXCEPT !.stack = stack] EXCEPT !.agents = agents]
    BY Zenon
  <2> QED BY <2>1, <2>2, <2>3
<1> QED BY <1>1, <1>2, <1>3, <1>4

LEMMA SeqIsSeq ==
  ASSUME NEW T, NEW t \in Seq(T)
  PROVE  IsSeq(t)
<1>1. DOMAIN t = 1 .. Len(t) /\ Len(t) \in Nat /\ t = [i \in 1 .. Len(t) |-> t[i]]
  OBVIOUS
<1>2. \A i \in 1 .. Len(t) : t[i] \in Range(t)
  BY <1>1 DEF Range
<1>3. t \in [1 .. Len(t) -> Range(t)]
  BY <1>1, <1>2
<1> QED BY <1>1, <1>3 DEF IsSeq

LEMMA AppendIsSeq ==
  ASSUME NEW s, IsSeq(s), NEW e
  PROVE  IsSeq(Append(s, e)) /\ Len(Append(s, e)) = Len(s) + 1
<1> DEFINE T == Range(s) \cup {e}
<1>1. s \in Seq(T) /\ e \in T
  <2>1. s \in Seq(Range(s)) /\ Range(s) \subseteq T
    BY DEF IsSeq
  <2> HIDE DEF T
  <2>2. s \in Seq(T)
    BY <2>1, SeqMonotonic
  <2> QED BY <2>2 DEF T
<1> HIDE DEF T
<1>2. Append(s, e) \in Seq(T) /\ Len(Append(s, e)) = Len(s) + 1
  BY <1>1
<1> QED BY <1>2, SeqIsSeq

LEMMA ExceptIsSeq ==
  ASSUME NEW s, IsSeq(s), NEW at, NEW e
  PROVE  IsSeq([s EXCEPT ![at] = e])
<1> DEFINE t == [s EXCEPT ![at] = e]
           T == Range(s) \cup {e}
<1>1. s \in [1 .. Len(s) -> Range(s)] /\ Len(s) \in Nat
  BY DEF IsSeq
<1>2. t \in [1 .. Len(s) -> T]
  BY <1>1
<1>3. t \in Seq(T)
  <2> HIDE DEF t, T
  <2> QED BY <1>1, <1>2
<1> HIDE DEF t, T
<1>4. IsSeq(t)
  BY <1>3, SeqIsSeq
<1> QED BY <1>4 DEF t

LEMMA ClosedKeeps ==
  ASSUME NEW tr, IsTranscript(tr), NEW index
  PROVE  IsTranscript(Closed(tr, index)) /\ SameStack(tr, Closed(tr, index))
<1> DEFINE closed_ == Closed(tr, index)
<1>1. /\ closed_ = [segments |-> closed_.segments, open |-> closed_.open,
                    stack |-> closed_.stack, agents |-> closed_.agents]
      /\ closed_.segments = tr.segments /\ closed_.stack = tr.stack /\ closed_.agents = tr.agents
  BY DEF Closed, IsTranscript
<1> QED BY <1>1 DEF IsTranscript, SameStack

LEMMA AddedKeeps ==
  ASSUME NEW tr, IsTranscript(tr), NEW segment
  PROVE  IsTranscript(Added(tr, segment)) /\ SameStack(tr, Added(tr, segment))
<1> DEFINE added == Added(tr, segment)
<1>1. /\ added = [segments |-> added.segments, open |-> added.open,
                  stack |-> added.stack, agents |-> added.agents]
      /\ added.segments = Append(tr.segments, segment)
      /\ added.stack = tr.stack /\ added.agents = tr.agents
  BY DEF Added, IsTranscript
<1>2. IsSeq(added.segments)
  BY <1>1, AppendIsSeq DEF IsTranscript
<1> QED BY <1>1, <1>2 DEF IsTranscript, SameStack

LEMMA OpenedKeeps ==
  ASSUME NEW tr, IsTranscript(tr), NEW index
  PROVE  IsTranscript(Opened(tr, index)) /\ SameStack(tr, Opened(tr, index))
<1> DEFINE opened == Opened(tr, index)
<1>1. /\ opened = [segments |-> opened.segments, open |-> opened.open,
                   stack |-> opened.stack, agents |-> opened.agents]
      /\ opened.segments = tr.segments /\ opened.stack = tr.stack /\ opened.agents = tr.agents
  BY DEF Opened, IsTranscript
<1> QED BY <1>1 DEF IsTranscript, SameStack

LEMMA TextStartsKeeps ==
  ASSUME NEW tr, IsTranscript(tr), NEW kind, NEW index
  PROVE  IsTranscript(TextStarts(tr, kind, index)) /\ SameStack(tr, TextStarts(tr, kind, index))
<1> DEFINE here == Closed(tr, index)
           added == Added(here, Segment(kind, <<>>))
<1>1. IsTranscript(here) /\ SameStack(tr, here)
  BY ClosedKeeps
<1> HIDE DEF here
<1>2. IsTranscript(added) /\ SameStack(here, added)
  BY <1>1, AddedKeeps
<1> HIDE DEF added
<1>3. IsTranscript(Opened(added, index)) /\ SameStack(added, Opened(added, index))
  BY <1>2, OpenedKeeps
<1>4. TextStarts(tr, kind, index) = IF tr.stack # <<>> THEN tr ELSE Opened(added, index)
  BY DEF TextStarts, added, here
<1> QED BY <1>1, <1>2, <1>3, <1>4 DEF SameStack

LEMMA TextGrowsKeeps ==
  ASSUME NEW tr, IsTranscript(tr), NEW kind, NEW index, NEW p
  PROVE  IsTranscript(TextGrows(tr, kind, index, p)) /\ SameStack(tr, TextGrows(tr, kind, index, p))
<1> DEFINE added == Added(tr, Segment(kind, <<>>))
           there == IF index \in DOMAIN tr.open THEN tr ELSE Opened(added, index)
           at == IF index \in DOMAIN there.open THEN there.open[index] ELSE Len(there.segments)
           grown == [there EXCEPT !.segments[at].parts = Append(@, p)]
<1>1. IsTranscript(added) /\ SameStack(tr, added)
  BY AddedKeeps
<1> HIDE DEF added
<1>2. IsTranscript(there) /\ SameStack(tr, there)
  BY <1>1, OpenedKeeps DEF SameStack
<1>3. TextGrows(tr, kind, index, p) = IF tr.stack # <<>> THEN tr ELSE grown
  BY DEF TextGrows, added
<1> HIDE DEF there, at
<1> DEFINE segments == [there.segments EXCEPT ![at].parts = Append(@, p)]
<1>4. IsSeq(segments)
  <2> DEFINE segment == [there.segments[at] EXCEPT !.parts = Append(@, p)]
  <2>1. segments = [there.segments EXCEPT ![at] = segment]
    OBVIOUS
  <2> HIDE DEF segment, segments
  <2> QED BY <1>2, <2>1, ExceptIsSeq DEF IsTranscript
<1>5. grown = [there EXCEPT !.segments = segments]
  OBVIOUS
<1> HIDE DEF segments, grown
<1>6. grown = [segments |-> segments, open |-> there.open, stack |-> there.stack,
               agents |-> there.agents]
  BY <1>2, <1>5, Replaced
<1>7. IsTranscript(grown) /\ SameStack(there, grown)
  BY <1>4, <1>6 DEF IsTranscript, SameStack
<1> QED BY <1>2, <1>3, <1>7 DEF SameStack

LEMMA TaskUsedMakes ==
  ASSUME NEW tr, IsTranscript(tr), IsSeq(tr.agents), NEW index, NEW id
  PROVE  LET with == ToolUsed(tr, TRUE, index, id)
         IN  /\ IsTranscript(with)
             /\ id = Omitted => with.stack = Append(tr.stack, Synthetic(Len(tr.stack) + 1))
             /\ id # Omitted => with.stack = Append(tr.stack, id)
             /\ IsSeq(with.agents) /\ Len(with.agents) = Len(tr.agents) + 1
<1> DEFINE with == ToolUsed(tr, TRUE, index, id)
           here == Closed(tr, index)
           name == IF id = Omitted THEN Synthetic(Len(tr.stack) + 1) ELSE id
<1>0. IsTranscript(here) /\ SameStack(tr, here)
  BY ClosedKeeps
<1> HIDE DEF here
<1> DEFINE added == Added(here, Segment("subagent", <<>>))
           place == Len(here.segments) + 1
<1>1. IsTranscript(added) /\ SameStack(here, added)
  BY <1>0, AddedKeeps
<1> HIDE DEF added, place
<1>2. with = [added EXCEPT !.stack = Append(@, name), !.agents = Append(@, place)]
  BY DEF ToolUsed, added, place, here
<1> HIDE DEF with, name
<1>3. /\ with.stack = Append(added.stack, name) /\ with.agents = Append(added.agents, place)
      /\ with.segments = added.segments
      /\ with = [segments |-> with.segments, open |-> with.open,
                 stack |-> with.stack, agents |-> with.agents]
  BY <1>1, <1>2 DEF IsTranscript
<1>4. with.stack = Append(tr.stack, name) /\ with.agents = Append(tr.agents, place)
  BY <1>0, <1>1, <1>3 DEF SameStack
<1>5. IsTranscript(with)
  BY <1>1, <1>3 DEF IsTranscript
<1>6. IsSeq(with.agents) /\ Len(with.agents) = Len(tr.agents) + 1
  BY <1>4, AppendIsSeq
<1> QED BY <1>4, <1>5, <1>6 DEF with, name

LEMMA ToolUsedKeeps ==
  ASSUME NEW tr, IsTranscript(tr), NEW index, NEW id, Len(tr.stack) \in Nat
  PROVE  LET with == ToolUsed(tr, FALSE, index, id)
         IN  IsTranscript(with) /\ SameStack(tr, with)
<1> DEFINE with == ToolUsed(tr, FALSE, index, id)
           here == Closed(tr, index)
<1>1. IsTranscript(here) /\ SameStack(tr, here)
  BY ClosedKeeps
<1> HIDE DEF here
<1>2. CASE Len(tr.stack) > 0
  <2> DEFINE at == Last(tr.agents)
             shown == [here EXCEPT !.segments[at].parts = <<"a tool">>]
  <2>1. with = shown
    BY <1>2 DEF ToolUsed, here
  <2> HIDE DEF at
  <2> DEFINE segments == [here.segments EXCEPT ![at].parts = <<"a tool">>]
  <2>2. IsSeq(segments)
    <3> DEFINE segment == [here.segments[at] EXCEPT !.parts = <<"a tool">>]
    <3>1. segments = [here.segments EXCEPT ![at] = segment]
      OBVIOUS
    <3> HIDE DEF segment, segments
    <3> QED BY <1>1, <3>1, ExceptIsSeq DEF IsTranscript
  <2>3. shown = [here EXCEPT !.segments = segments]
    OBVIOUS
  <2> HIDE DEF segments, shown
  <2>4. shown = [segments |-> segments, open |-> here.open, stack |-> here.stack,
                 agents |-> here.agents]
    BY <1>1, <2>3, Replaced
  <2>5. IsTranscript(shown) /\ SameStack(tr, shown)
    BY <1>1, <2>2, <2>4 DEF IsTranscript, SameStack
  <2> QED BY <2>1, <2>5
<1>3. CASE ~ Len(tr.stack) > 0
  <2> DEFINE added == Added(here, Segment("tool_call", <<"a tool">>))
  <2>1. IsTranscript(added) /\ SameStack(here, added)
    BY <1>1, AddedKeeps
  <2> HIDE DEF added
  <2>2. IsTranscript(Opened(added, index)) /\ SameStack(added, Opened(added, index))
    BY <2>1, OpenedKeeps
  <2>3. with = Opened(added, index)
    BY <1>3 DEF ToolUsed, added, here
  <2> QED BY <1>1, <2>1, <2>2, <2>3 DEF SameStack
<1> QED BY <1>2, <1>3

LEMMA PoppedMakes ==
  ASSUME NEW tr, IsTranscript(tr), NEW depth
  PROVE  LET with == Popped(tr, depth)
         IN  /\ IsTranscript(with)
             /\ with.stack = SubSeq(tr.stack, 1, depth) /\ with.agents = SubSeq(tr.agents, 1, depth)
<1> DEFINE with == Popped(tr, depth)
           stack == SubSeq(tr.stack, 1, depth)
           agents == SubSeq(tr.agents, 1, depth)
<1>1. with = [tr EXCEPT !.stack = stack, !.agents = agents]
  BY DEF Popped
<1> HIDE DEF with, stack, agents
<1>2. with = [segments |-> tr.segments, open |-> tr.open, stack |-> stack, agents |-> agents]
  BY <1>1, Replaced
<1>3. IsTranscript(with) /\ with.stack = stack /\ with.agents = agents
  BY <1>2 DEF IsTranscript
<1> QED BY <1>3 DEF with, stack, agents

\* The ids of a turn are sequences over these.
Words == {"task", "__task", "tool", "more"} \cup Nat
TaskId(k) == <<"task", k>>
Endings == {<<>>, <<"more">>}

LEMMA MatchesAgree ==
  ASSUME NEW s \in Seq(Words), NEW t \in Seq(Words), RoughlyMatch(s, t),
         NEW i \in Nat, i > 0, i <= Len(s), i <= Len(t)
  PROVE  s[i] = t[i]
<1>1. ASSUME NEW p \in Seq(Words), NEW q \in Seq(Words), IsPrefix(p, q), i <= Len(p)
      PROVE  p[i] = q[i]
  <2>1. Len(p) \in Nat /\ Len(q) \in Nat /\ Len(p) <= Len(q)
    BY <1>1 DEF IsPrefix
  <2>2. \A j \in 1 .. Len(p) : SubSeq(p, 1, Len(p))[j] = p[j]
    BY <2>1
  <2>3. \A j \in 1 .. Len(p) : SubSeq(q, 1, Len(p))[j] = q[j]
    BY <2>1
  <2>4. SubSeq(p, 1, Len(p)) = SubSeq(q, 1, Len(p))
    BY <1>1 DEF IsPrefix
  <2>5. i \in 1 .. Len(p)
    BY <1>1, <2>1
  <2> QED BY <2>2, <2>3, <2>4, <2>5
<1> QED BY <1>1 DEF RoughlyMatch

LEMMA MatchesBegin ==
  ASSUME NEW s \in Seq(Words), NEW t \in Seq(Words), RoughlyMatch(s, t)
  PROVE  /\ Len(s) >= 1 /\ Len(t) >= 1 => s[1] = t[1]
         /\ Len(s) >= 2 /\ Len(t) >= 2 => s[2] = t[2]
<1>1. Len(s) \in Nat /\ Len(t) \in Nat /\ 1 \in Nat /\ 2 \in Nat
  OBVIOUS
<1>2. ASSUME NEW i \in Nat, i > 0, i <= Len(s), i <= Len(t) PROVE s[i] = t[i]
  BY <1>2, MatchesAgree
<1>3. Len(s) >= 1 /\ Len(t) >= 1 => s[1] = t[1]
  BY <1>1, <1>2
<1>4. Len(s) >= 2 /\ Len(t) >= 2 => s[2] = t[2]
  BY <1>1, <1>2
<1> QED BY <1>3, <1>4

LEMMA IdsAreSeqs ==
  /\ \A k \in Nat : TaskId(k) \in Seq(Words) /\ Len(TaskId(k)) = 2
                    /\ TaskId(k)[1] = "task" /\ TaskId(k)[2] = k
  /\ \A k \in Nat : Synthetic(k) \in Seq(Words) /\ Len(Synthetic(k)) = 2
                    /\ Synthetic(k)[1] = "__task"
  /\ <<"tool">> \in Seq(Words) /\ Len(<<"tool">>) = 1 /\ <<"tool">>[1] = "tool"
BY DEF Words, TaskId, Synthetic

LEMMA Prolonged ==
  ASSUME NEW S, NEW s \in Seq(S), NEW t \in Seq(S), Len(s) = 2
  PROVE  /\ s \o t \in Seq(S) /\ Len(s \o t) \in Nat /\ Len(s \o t) >= 2
         /\ (s \o t)[1] = s[1] /\ (s \o t)[2] = s[2]
         /\ IsPrefix(s, s \o t)
<1>1. /\ s \o t \in Seq(S) /\ Len(s \o t) = 2 + Len(t) /\ Len(t) \in Nat
      /\ \A i \in 1 .. 2 + Len(t) : (s \o t)[i] = IF i <= 2 THEN s[i] ELSE t[i - 2]
  <2>1. /\ s \o t \in Seq(S)
        /\ Len(s \o t) = Len(s) + Len(t)
        /\ \A i \in 1 .. Len(s) + Len(t) :
             (s \o t)[i] = IF i <= Len(s) THEN s[i] ELSE t[i - Len(s)]
    BY ConcatProperties, Zenon
  <2>2. Len(t) \in Nat
    OBVIOUS
  <2> QED BY <2>1, <2>2, Zenon
<1>2. (s \o t)[1] = s[1] /\ (s \o t)[2] = s[2]
  BY <1>1
<1> DEFINE long == s \o t
<1> HIDE DEF long
<1>3. long \in Seq(S) /\ Len(long) \in Nat /\ Len(long) >= 2 /\ long[1] = s[1] /\ long[2] = s[2]
  BY <1>1, <1>2 DEF long
<1>4. SubSeq(s, 1, 2) = SubSeq(long, 1, 2)
  BY <1>3
<1> QED BY <1>3, <1>4 DEF IsPrefix, long

LEMMA ResultIsSeq ==
  ASSUME NEW k \in Nat, NEW suffix \in Endings
  PROVE  LET id == TaskId(k) \o suffix
         IN  /\ id \in Seq(Words) /\ Len(id) >= 2 /\ id[1] = "task" /\ id[2] = k
             /\ IsPrefix(TaskId(k), id)
<1>1. <<>> \in Seq(Words) /\ <<"more">> \in Seq(Words)
  BY DEF Words
<1>2. suffix \in Seq(Words)
  BY <1>1 DEF Endings
<1>3. PICK id : id = TaskId(k) /\ id \in Seq(Words) /\ Len(id) = 2 /\ id[1] = "task" /\ id[2] = k
  BY IdsAreSeqs
<1>4. /\ id \o suffix \in Seq(Words) /\ Len(id \o suffix) >= 2
      /\ (id \o suffix)[1] = id[1] /\ (id \o suffix)[2] = id[2] /\ IsPrefix(id, id \o suffix)
  BY <1>2, <1>3, Prolonged
<1> QED BY <1>3, <1>4

\* A Task's result matches its own id, and that of no other Task, tool or segment.
LEMMA ResultMatches ==
  ASSUME NEW j \in Nat, NEW k \in Nat, NEW suffix \in Endings
  PROVE  RoughlyMatch(TaskId(j), TaskId(k) \o suffix) <=> j = k
<1> DEFINE id == TaskId(k) \o suffix
<1>1. id \in Seq(Words) /\ Len(id) >= 2 /\ id[2] = k /\ IsPrefix(TaskId(k), id)
  BY ResultIsSeq
<1>2. PICK own : own = TaskId(j) /\ own \in Seq(Words) /\ Len(own) = 2 /\ own[2] = j
  BY IdsAreSeqs
<1>3. RoughlyMatch(own, id) => j = k
  <2> HIDE DEF id
  <2> SUFFICES ASSUME RoughlyMatch(own, id) PROVE own[2] = id[2]
    BY <1>1, <1>2
  <2>1. Len(own) >= 2
    BY <1>2
  <2> QED BY <1>1, <1>2, <2>1, MatchesBegin, Zenon
<1>4. j = k => RoughlyMatch(own, id)
  BY <1>1, <1>2 DEF RoughlyMatch
<1> QED BY <1>2, <1>3, <1>4

LEMMA OthersDiffer ==
  ASSUME NEW k \in Nat, NEW j \in Nat
  PROVE  /\ ~ RoughlyMatch(TaskId(k), <<"tool">>) /\ ~ RoughlyMatch(Synthetic(k), <<"tool">>)
         /\ \A suffix \in Endings : ~ RoughlyMatch(Synthetic(j), TaskId(k) \o suffix)
         /\ ~ IsSynthetic(TaskId(k)) /\ IsSynthetic(Synthetic(k))
<1>1. PICK tool : tool = <<"tool">> /\ tool \in Seq(Words) /\ Len(tool) = 1 /\ tool[1] = "tool"
  BY IdsAreSeqs
<1>2. PICK own : own = TaskId(k) /\ own \in Seq(Words) /\ Len(own) = 2 /\ own[1] = "task"
  BY IdsAreSeqs
<1>3. PICK made : made = Synthetic(k) /\ made \in Seq(Words) /\ Len(made) = 2 /\ made[1] = "__task"
  BY IdsAreSeqs
<1>4. ~ RoughlyMatch(own, tool)
  <2> SUFFICES ASSUME RoughlyMatch(own, tool) PROVE own[1] = tool[1]
    BY <1>1, <1>2
  <2>1. Len(own) >= 1 /\ Len(tool) >= 1
    BY <1>1, <1>2
  <2> QED BY <1>1, <1>2, <2>1, MatchesBegin, Zenon
<1>5. ~ RoughlyMatch(made, tool)
  <2> SUFFICES ASSUME RoughlyMatch(made, tool) PROVE made[1] = tool[1]
    BY <1>1, <1>3
  <2>1. Len(made) >= 1 /\ Len(tool) >= 1
    BY <1>1, <1>3
  <2> QED BY <1>1, <1>3, <2>1, MatchesBegin, Zenon
<1>6. ASSUME NEW suffix \in Endings PROVE ~ RoughlyMatch(Synthetic(j), TaskId(k) \o suffix)
  <2>1. PICK id : /\ id = TaskId(k) \o suffix
                  /\ id \in Seq(Words) /\ Len(id) >= 2 /\ id[1] = "task"
    BY ResultIsSeq
  <2>2. PICK other : other = Synthetic(j) /\ other \in Seq(Words) /\ Len(other) = 2
                     /\ other[1] = "__task"
    BY IdsAreSeqs
  <2>3. ~ RoughlyMatch(other, id)
    <3> SUFFICES ASSUME RoughlyMatch(other, id) PROVE other[1] = id[1]
      BY <2>1, <2>2
    <3>1. Len(other) >= 1 /\ Len(id) >= 1
      BY <2>1, <2>2
    <3> QED BY <2>1, <2>2, <3>1, MatchesBegin, Zenon
  <2> QED BY <2>1, <2>2, <2>3
<1>7. ~ IsSynthetic(TaskId(k)) /\ IsSynthetic(Synthetic(k))
  BY DEF IsSynthetic, TaskId, Synthetic
<1> QED BY <1>1, <1>2, <1>3, <1>4, <1>5, <1>6, <1>7

-----------------------------------------------------------------------------
(* The stack and the Tasks. With ids the stack holds ids of Tasks that run, *)
(* each once, and it is their whole list unless one ended early; without    *)
(* them it is as long as their list.                                        *)

Nested(ids, early, started, tasks, stack) ==
  /\ \A i \in 1 .. Len(tasks) : \E k \in 1 .. started : tasks[i] = TaskId(k)
  /\ ids => /\ \A i \in 1 .. Len(stack) : \E j \in 1 .. Len(tasks) : stack[i] = tasks[j]
            /\ \A i, j \in 1 .. Len(stack) : stack[i] = stack[j] => i = j
            /\ ~ early => stack = tasks
  /\ ~ ids => /\ Len(stack) = Len(tasks)
              /\ \A i \in 1 .. Len(stack) : stack[i] = Synthetic(i)

LEMMA Appended ==
  ASSUME NEW s, IsSeq(s), NEW e
  PROVE  /\ Len(s) \in Nat /\ Len(Append(s, e)) = Len(s) + 1
         /\ Append(s, e)[Len(s) + 1] = e
         /\ \A i \in 1 .. Len(s) : Append(s, e)[i] = s[i]
<1> DEFINE T == Range(s) \cup {e}
<1>1. s \in Seq(T) /\ e \in T
  <2>1. s \in Seq(Range(s)) /\ Range(s) \subseteq T
    BY DEF IsSeq
  <2> HIDE DEF T
  <2>2. s \in Seq(T)
    BY <2>1, SeqMonotonic
  <2> QED BY <2>2 DEF T
<1> HIDE DEF T
<1> QED BY <1>1

LEMMA Shortened ==
  ASSUME NEW s, IsSeq(s), NEW m \in 1 .. Len(s)
  PROVE  LET t == SubSeq(s, 1, m - 1)
         IN  IsSeq(t) /\ Len(t) = m - 1 /\ \A i \in 1 .. m - 1 : t[i] = s[i]
<1>1. s \in Seq(Range(s)) /\ Len(s) \in Nat /\ m - 1 \in Int /\ m - 1 <= Len(s) /\ m - 1 >= 0
  BY DEF IsSeq
<1>2. \A i \in 1 .. m - 1 : s[i] \in Range(s)
  BY <1>1
<1>3. /\ SubSeq(s, 1, m - 1) \in Seq(Range(s))
      /\ Len(SubSeq(s, 1, m - 1)) = IF 1 <= m - 1 THEN m - 1 - 1 + 1 ELSE 0
      /\ \A i \in 1 .. m - 1 - 1 + 1 : SubSeq(s, 1, m - 1)[i] = s[1 + i - 1]
  BY <1>1, <1>2, SubSeqProperties
<1> DEFINE t == SubSeq(s, 1, m - 1)
<1> HIDE DEF t
<1>4. /\ t \in Seq(Range(s))
      /\ Len(t) = IF 1 <= m - 1 THEN m - 1 - 1 + 1 ELSE 0
      /\ \A i \in 1 .. m - 1 - 1 + 1 : t[i] = s[1 + i - 1]
  BY <1>3 DEF t
<1>5. Len(t) = m - 1 /\ \A i \in 1 .. m - 1 : t[i] = s[i]
  BY <1>1, <1>4
<1>6. IsSeq(t)
  BY <1>4, SeqIsSeq
<1> QED BY <1>5, <1>6 DEF t

LEMMA TakenOut ==
  ASSUME NEW s, IsSeq(s), NEW i \in 1 .. Len(s)
  PROVE  LET t == RemoveAt(s, i)
         IN  /\ IsSeq(t) /\ Len(t) = Len(s) - 1
             /\ \A j \in 1 .. Len(t) : t[j] = IF j < i THEN s[j] ELSE s[j + 1]
<1>1. s \in Seq(Range(s)) /\ Len(s) \in Nat
  BY DEF IsSeq
<1> DEFINE front == SubSeq(s, 1, i - 1)
           back == SubSeq(s, i + 1, Len(s))
           t == RemoveAt(s, i)
<1>2. front \in Seq(Range(s)) /\ Len(front) = i - 1 /\ \A j \in 1 .. i - 1 : front[j] = s[j]
  <2>1. i - 1 \in Int /\ \A j \in 1 .. i - 1 : s[j] \in Range(s)
    BY <1>1
  <2>2. /\ front \in Seq(Range(s)) /\ Len(front) = IF 1 <= i - 1 THEN i - 1 - 1 + 1 ELSE 0
        /\ \A j \in 1 .. i - 1 - 1 + 1 : front[j] = s[1 + j - 1]
    BY <2>1, SubSeqProperties
  <2> HIDE DEF front
  <2> QED BY <2>2
<1>3. /\ back \in Seq(Range(s)) /\ Len(back) = Len(s) - i
      /\ \A j \in 1 .. Len(s) - i : back[j] = s[i + j]
  <2>1. i + 1 \in Int /\ Len(s) \in Int /\ \A j \in i + 1 .. Len(s) : s[j] \in Range(s)
    BY <1>1
  <2>2. /\ back \in Seq(Range(s))
        /\ Len(back) = IF i + 1 <= Len(s) THEN Len(s) - (i + 1) + 1 ELSE 0
        /\ \A j \in 1 .. Len(s) - (i + 1) + 1 : back[j] = s[i + 1 + j - 1]
    BY <2>1, SubSeqProperties
  <2> HIDE DEF back
  <2> QED BY <1>1, <2>2
<1>4. t = front \o back
  BY DEF RemoveAt
<1> HIDE DEF t, front, back
<1>5. /\ t \in Seq(Range(s)) /\ Len(t) = Len(front) + Len(back)
      /\ \A j \in 1 .. Len(front) + Len(back) :
           t[j] = IF j <= Len(front) THEN front[j] ELSE back[j - Len(front)]
  BY <1>2, <1>3, <1>4, ConcatProperties
<1>6. Len(t) = Len(s) - 1
  BY <1>1, <1>2, <1>3, <1>5
<1>7. ASSUME NEW j \in 1 .. Len(t) PROVE t[j] = IF j < i THEN s[j] ELSE s[j + 1]
  <2>1. CASE j < i
    BY <1>1, <1>2, <1>5, <1>6, <2>1
  <2>2. CASE ~ j < i
    <3>1. j - Len(front) \in 1 .. Len(s) - i /\ ~ j <= Len(front)
      BY <1>1, <1>2, <1>6, <2>2
    <3>2. t[j] = back[j - Len(front)] /\ back[j - Len(front)] = s[i + (j - Len(front))]
      BY <1>1, <1>2, <1>3, <1>5, <1>6, <3>1
    <3>3. i + (j - Len(front)) = j + 1
      BY <1>1, <1>2
    <3> QED BY <2>2, <3>2, <3>3
  <2> QED BY <2>1, <2>2
<1>8. IsSeq(t)
  BY <1>5, SeqIsSeq
<1> QED BY <1>6, <1>7, <1>8 DEF t

\* A Task starts: its id goes onto the stack, or the segment's.
LEMMA NestedGrows ==
  ASSUME NEW ids \in BOOLEAN, NEW early \in BOOLEAN, NEW started \in Nat,
         NEW tasks, IsSeq(tasks), NEW stack, IsSeq(stack),
         Nested(ids, early, started, tasks, stack)
  PROVE  Nested(ids, early, started + 1, Append(tasks, TaskId(started + 1)),
                Append(stack, IF ids THEN TaskId(started + 1) ELSE Synthetic(Len(stack) + 1)))
<1> DEFINE id == TaskId(started + 1)
           name == IF ids THEN id ELSE Synthetic(Len(stack) + 1)
           tasks_ == Append(tasks, id)
           stack_ == Append(stack, name)
<1>1. /\ Len(tasks) \in Nat /\ Len(tasks_) = Len(tasks) + 1 /\ tasks_[Len(tasks) + 1] = id
      /\ \A i \in 1 .. Len(tasks) : tasks_[i] = tasks[i]
  BY Appended
<1>2. /\ Len(stack) \in Nat /\ Len(stack_) = Len(stack) + 1 /\ stack_[Len(stack) + 1] = name
      /\ \A i \in 1 .. Len(stack) : stack_[i] = stack[i]
  BY Appended
<1>3. \A k \in 1 .. started : TaskId(k) # id
  <2>1. \A k \in Nat : TaskId(k)[2] = k
    BY IdsAreSeqs
  <2>2. TaskId(started + 1)[2] = started + 1
    BY <2>1
  <2> QED BY <2>1, <2>2
<1>4. ids /\ ~ early => stack_ = tasks_
  BY DEF Nested
<1> HIDE DEF tasks_, stack_
<1>5. \A i \in 1 .. Len(tasks_) : \E k \in 1 .. started + 1 : tasks_[i] = TaskId(k)
  <2>1. \A i \in 1 .. Len(tasks) : \E k \in 1 .. started + 1 : tasks_[i] = TaskId(k)
    BY <1>1 DEF Nested
  <2>2. started + 1 \in 1 .. started + 1 /\ tasks_[Len(tasks) + 1] = TaskId(started + 1)
    BY <1>1
  <2>3. \A i \in 1 .. Len(tasks_) : i \in 1 .. Len(tasks) \/ i = Len(tasks) + 1
    BY <1>1
  <2> QED BY <2>1, <2>2, <2>3
<1>6. \A i \in 1 .. Len(stack_) : i \in 1 .. Len(stack) \/ i = Len(stack) + 1
  BY <1>2
<1>7. ASSUME ids
      PROVE  /\ \A i \in 1 .. Len(stack_) : \E j \in 1 .. Len(tasks_) : stack_[i] = tasks_[j]
             /\ \A i, j \in 1 .. Len(stack_) : stack_[i] = stack_[j] => i = j
  <2>1. name = id
    BY <1>7
  <2> HIDE DEF name, id
  <2>2. \A i \in 1 .. Len(stack) : stack_[i] # id
    <3>1. \A j \in 1 .. Len(tasks) : tasks[j] # id
      BY <1>3 DEF Nested
    <3> QED BY <1>2, <1>7, <3>1 DEF Nested
  <2>3. ASSUME NEW i \in 1 .. Len(stack_) PROVE \E j \in 1 .. Len(tasks_) : stack_[i] = tasks_[j]
    <3>1. CASE i \in 1 .. Len(stack)
      <4>1. PICK j \in 1 .. Len(tasks) : stack[i] = tasks[j]
        BY <1>7, <3>1 DEF Nested
      <4>2. j \in 1 .. Len(tasks_)
        BY <1>1
      <4> QED BY <1>1, <1>2, <3>1, <4>1, <4>2
    <3>2. CASE i = Len(stack) + 1
      <4>1. Len(tasks) + 1 \in 1 .. Len(tasks_)
        BY <1>1
      <4> QED BY <1>1, <1>2, <2>1, <3>2, <4>1
    <3> QED BY <1>6, <3>1, <3>2
  <2>4. ASSUME NEW i \in 1 .. Len(stack_), NEW j \in 1 .. Len(stack_), stack_[i] = stack_[j]
        PROVE  i = j
    BY <1>2, <1>6, <1>7, <2>1, <2>2, <2>4 DEF Nested
  <2> QED BY <2>3, <2>4
<1>8. ASSUME ~ ids
      PROVE  /\ Len(stack_) = Len(tasks_)
             /\ \A i \in 1 .. Len(stack_) : stack_[i] = Synthetic(i)
  <2>1. name = Synthetic(Len(stack) + 1)
    BY <1>8
  <2> HIDE DEF name
  <2> QED BY <1>1, <1>2, <1>6, <1>8, <2>1 DEF Nested
<1> HIDE DEF name, id
<1>9. Nested(ids, early, started + 1, tasks_, stack_)
  BY <1>4, <1>5, <1>7, <1>8 DEF Nested
<1> QED BY <1>9 DEF tasks_, stack_, name, id

LEMMA SameSeq ==
  ASSUME NEW s, IsSeq(s), NEW t, IsSeq(t), Len(s) = Len(t), \A i \in 1 .. Len(s) : s[i] = t[i]
  PROVE  s = t
<1> DEFINE T == Range(s) \cup Range(t)
<1>1. s \in Seq(T) /\ t \in Seq(T)
  <2>1. s \in Seq(Range(s)) /\ t \in Seq(Range(t)) /\ Range(s) \subseteq T /\ Range(t) \subseteq T
    BY DEF IsSeq
  <2> HIDE DEF T
  <2> QED BY <2>1, SeqMonotonic
<1> HIDE DEF T
<1> QED BY <1>1, SeqEqual

\* With ids: the Task that ends has its place on the stack, or has lost it.
LEMMA NestedShrinks ==
  ASSUME NEW early \in BOOLEAN, NEW started \in Nat,
         NEW tasks, IsSeq(tasks), NEW stack, IsSeq(stack),
         Nested(TRUE, early, started, tasks, stack), NEW i \in 1 .. Len(tasks)
  PROVE  LET over == early \/ i < Len(tasks)
             left == RemoveAt(tasks, i)
         IN  /\ \A m \in 1 .. Len(stack) :
                  stack[m] = tasks[i] => Nested(TRUE, over, started, left, SubSeq(stack, 1, m - 1))
             /\ (\A m \in 1 .. Len(stack) : stack[m] # tasks[i]) =>
                  Nested(TRUE, over, started, left, stack)
<1> DEFINE over == early \/ i < Len(tasks)
           left == RemoveAt(tasks, i)
<1>1. Len(tasks) \in Nat /\ Len(stack) \in Nat
  BY DEF IsSeq
<1>2. /\ IsSeq(left) /\ Len(left) = Len(tasks) - 1
      /\ \A j \in 1 .. Len(left) : left[j] = IF j < i THEN tasks[j] ELSE tasks[j + 1]
  BY TakenOut
<1> HIDE DEF left
<1>3. \A j \in 1 .. Len(left) : \E k \in 1 .. started : left[j] = TaskId(k)
  <2> SUFFICES ASSUME NEW j \in 1 .. Len(left) PROVE \E k \in 1 .. started : left[j] = TaskId(k)
    OBVIOUS
  <2>1. PICK h \in 1 .. Len(tasks) : left[j] = tasks[h]
    BY <1>1, <1>2
  <2> QED BY <2>1 DEF Nested
<1>4. ASSUME NEW m \in 1 .. Len(stack), stack[m] # tasks[i]
      PROVE  \E j \in 1 .. Len(left) : stack[m] = left[j]
  <2>1. PICK h \in 1 .. Len(tasks) : stack[m] = tasks[h]
    BY DEF Nested
  <2>2. h # i
    BY <1>4, <2>1
  <2>3. CASE h < i
    BY <1>1, <1>2, <2>1, <2>3
  <2>4. CASE h > i
    <3>1. h - 1 \in 1 .. Len(left) /\ ~ h - 1 < i /\ h - 1 + 1 = h
      BY <1>1, <1>2, <2>4
    <3> QED BY <1>2, <2>1, <3>1
  <2> QED BY <2>2, <2>3, <2>4
<1>5. ASSUME NEW m \in 1 .. Len(stack), stack[m] = tasks[i]
      PROVE  Nested(TRUE, over, started, left, SubSeq(stack, 1, m - 1))
  <2> DEFINE rest == SubSeq(stack, 1, m - 1)
  <2>1. IsSeq(rest) /\ Len(rest) = m - 1 /\ \A j \in 1 .. m - 1 : rest[j] = stack[j]
    BY Shortened
  <2> HIDE DEF rest
  <2>2. \A j \in 1 .. Len(rest) : j \in 1 .. Len(stack) /\ rest[j] = stack[j] /\ j # m
    BY <1>1, <2>1
  <2>3. \A j \in 1 .. Len(rest) : stack[j] # tasks[i]
    BY <1>5, <2>2 DEF Nested
  <2>4. \A j \in 1 .. Len(rest) : \E h \in 1 .. Len(left) : rest[j] = left[h]
    BY <1>4, <2>2, <2>3
  <2>5. \A j, h \in 1 .. Len(rest) : rest[j] = rest[h] => j = h
    BY <2>2 DEF Nested
  <2>6. ASSUME ~ over PROVE rest = left
    <3>1. i = Len(tasks) /\ stack = tasks
      BY <1>1, <2>6 DEF Nested
    <3>2. m = i
      BY <1>5, <3>1 DEF Nested
    <3>3. Len(rest) = Len(left)
      BY <1>2, <2>1, <3>1, <3>2
    <3>4. \A j \in 1 .. Len(rest) : j < i
      BY <1>1, <2>1, <3>2
    <3>5. \A j \in 1 .. Len(rest) : rest[j] = left[j]
      BY <1>2, <2>2, <3>1, <3>3, <3>4
    <3> QED BY <1>2, <2>1, <3>3, <3>5, SameSeq
  <2> HIDE DEF over
  <2>7. Nested(TRUE, over, started, left, rest)
    BY <1>3, <2>4, <2>5, <2>6 DEF Nested
  <2> QED BY <2>7 DEF rest
<1>6. ASSUME \A m \in 1 .. Len(stack) : stack[m] # tasks[i]
      PROVE  Nested(TRUE, over, started, left, stack)
  <2>1. ~ over => stack = left
    BY <1>6 DEF Nested
  <2>2. \A m \in 1 .. Len(stack) : \E h \in 1 .. Len(left) : stack[m] = left[h]
    BY <1>4, <1>6
  <2>3. \A m, h \in 1 .. Len(stack) : stack[m] = stack[h] => m = h
    BY DEF Nested
  <2> HIDE DEF over
  <2> QED BY <1>3, <2>1, <2>2, <2>3 DEF Nested
<1> QED BY <1>5, <1>6 DEF left

\* The ids' stack, in a transcript.
Stacked(tr) ==
  IsTranscript(tr) /\ IsSeq(tr.stack) /\ IsSeq(tr.agents) /\ Len(tr.agents) = Len(tr.stack)

LEMMA PoppedIsStacked ==
  ASSUME NEW tr, Stacked(tr), NEW m \in 1 .. Len(tr.stack)
  PROVE  Stacked(Popped(tr, m - 1)) /\ Popped(tr, m - 1).stack = SubSeq(tr.stack, 1, m - 1)
<1> DEFINE with == Popped(tr, m - 1)
<1>1. /\ IsTranscript(with)
      /\ with.stack = SubSeq(tr.stack, 1, m - 1) /\ with.agents = SubSeq(tr.agents, 1, m - 1)
  BY PoppedMakes DEF Stacked
<1> HIDE DEF with
<1>2. IsSeq(with.stack) /\ Len(with.stack) = m - 1
  BY <1>1, Shortened DEF Stacked
<1>3. IsSeq(with.agents) /\ Len(with.agents) = m - 1
  BY <1>1, Shortened DEF Stacked
<1>4. Stacked(with)
  BY <1>1, <1>2, <1>3 DEF Stacked
<1> QED BY <1>1, <1>4 DEF with

\* The result of a tool of the main agent's, and of no Task, ends none.
LEMMA ToolEndsNone ==
  ASSUME NEW tr, Stacked(tr), NEW ids \in BOOLEAN, NEW early, NEW started \in Nat,
         NEW tasks, IsSeq(tasks), Nested(ids, early, started, tasks, tr.stack)
  PROVE  ToolResult(tr, <<"tool">>, "a tool") = tr
<1> DEFINE matching == {m \in 1 .. Len(tr.stack) : RoughlyMatch(tr.stack[m], <<"tool">>)}
<1>1. ASSUME NEW m \in 1 .. Len(tr.stack) PROVE ~ RoughlyMatch(tr.stack[m], <<"tool">>)
  <2>1. CASE ids
    <3>1. PICK k \in Nat : tr.stack[m] = TaskId(k)
      BY <2>1 DEF Nested
    <3> QED BY <3>1, OthersDiffer
  <2>2. CASE ~ ids
    <3>1. tr.stack[m] = Synthetic(m) /\ m \in Nat
      BY <2>2 DEF Nested
    <3> QED BY <3>1, OthersDiffer
  <2> QED BY <2>1, <2>2
<1>2. matching = {}
  BY <1>1
<1>3. "a tool" \notin {None, "Task"}
  BY DEF None
<1> QED BY <1>2, <1>3 DEF ToolResult

\* The result of a Task ends it, and the Tasks that started after it.
LEMMA TaskEndsIts ==
  ASSUME NEW tr, Stacked(tr), NEW ids \in BOOLEAN, NEW early \in BOOLEAN, NEW started \in Nat,
         NEW tasks, IsSeq(tasks), Nested(ids, early, started, tasks, tr.stack),
         NEW i \in 1 .. Len(tasks), NEW suffix \in Endings
  PROVE  LET with == ToolResult(tr, tasks[i] \o suffix, IF ids THEN "Task" ELSE None)
         IN  /\ Stacked(with)
             /\ Nested(ids, early \/ i < Len(tasks), started, RemoveAt(tasks, i), with.stack)
<1> DEFINE id == tasks[i] \o suffix
           depth == Len(tr.stack)
           matching == {m \in 1 .. depth : RoughlyMatch(tr.stack[m], id)}
           over == early \/ i < Len(tasks)
           left == RemoveAt(tasks, i)
           with == ToolResult(tr, id, IF ids THEN "Task" ELSE None)
<1>1. PICK k \in Nat : tasks[i] = TaskId(k)
  BY DEF Nested
<1>2. /\ IsSeq(tr.stack) /\ depth \in Nat
  BY DEF Stacked, IsSeq
<1>3. CASE ids
  <2>1. Nested(TRUE, early, started, tasks, tr.stack)
    BY <1>3 DEF Nested
  <2>2. ASSUME NEW m \in 1 .. depth
        PROVE  /\ RoughlyMatch(tr.stack[m], id) <=> tr.stack[m] = tasks[i]
               /\ ~ IsSynthetic(tr.stack[m])
    <3>1. PICK j \in Nat : tr.stack[m] = TaskId(j)
      <4>1. PICK h \in 1 .. Len(tasks) : tr.stack[m] = tasks[h]
        BY <2>1 DEF Nested
      <4>2. PICK j \in 1 .. started : tasks[h] = TaskId(j)
        BY DEF Nested
      <4> QED BY <4>1, <4>2
    <3>2. RoughlyMatch(TaskId(j), TaskId(k) \o suffix) <=> j = k
      BY ResultMatches
    <3>3. TaskId(j)[2] = j /\ TaskId(k)[2] = k
      BY IdsAreSeqs
    <3>4. ~ IsSynthetic(TaskId(j))
      BY OthersDiffer
    <3>5. TaskId(j) = TaskId(k) <=> j = k
      BY <3>3
    <3> QED BY <1>1, <3>1, <3>2, <3>4, <3>5, Zenon
  <2>3. CASE \E m \in 1 .. depth : tr.stack[m] = tasks[i]
    <3>1. PICK m \in 1 .. depth : tr.stack[m] = tasks[i]
      BY <2>3
    <3>2. \A j \in 1 .. depth : tr.stack[j] = tasks[i] => j = m
      BY <2>1, <3>1 DEF Nested
    <3>3. matching = {m}
      BY <2>2, <3>1, <3>2
    <3>4. (CHOOSE j \in matching : \A h \in matching : h <= j) = m
      <4> HIDE DEF matching
      <4>1. \A h \in matching : h <= m
        BY <1>2, <3>3
      <4> QED BY <3>3, <4>1
    <3>5. with = Popped(tr, m - 1)
      <4>1. matching # {}
        BY <3>3
      <4> QED BY <3>4, <4>1, Zenon DEF ToolResult
    <3>6. Stacked(with) /\ with.stack = SubSeq(tr.stack, 1, m - 1)
      BY <3>5, PoppedIsStacked
    <3>7. Nested(TRUE, over, started, left, SubSeq(tr.stack, 1, m - 1))
      BY <1>2, <2>1, <3>1, NestedShrinks
    <3> HIDE DEF with, over, left
    <3>8. Nested(ids, over, started, left, with.stack)
      BY <1>3, <3>6, <3>7 DEF Nested
    <3> QED BY <3>6, <3>8 DEF with, over, left
  <2>4. CASE \A m \in 1 .. depth : tr.stack[m] # tasks[i]
    <3>1. matching = {}
      BY <2>2, <2>4
    <3>2. depth > 0 => ~ IsSynthetic(tr.stack[depth])
      BY <1>2, <2>2
    <3>3. with = tr
      BY <3>1, <3>2 DEF ToolResult
    <3>4. Nested(TRUE, over, started, left, tr.stack)
      BY <1>2, <2>1, <2>4, NestedShrinks
    <3> HIDE DEF with, over, left
    <3>5. Stacked(with) /\ Nested(ids, over, started, left, with.stack)
      BY <1>3, <3>3, <3>4 DEF Nested
    <3> QED BY <3>5 DEF with, over, left
  <2> QED BY <2>3, <2>4
<1>4. CASE ~ ids
  <2>1. depth = Len(tasks) /\ \A m \in 1 .. depth : tr.stack[m] = Synthetic(m)
    BY <1>4 DEF Nested
  <2>2. depth \in 1 .. depth
    BY <1>2, <2>1
  <2>3. matching = {}
    <3>1. ASSUME NEW m \in 1 .. depth PROVE ~ RoughlyMatch(tr.stack[m], id)
      BY <1>1, <2>1, OthersDiffer
    <3> QED BY <3>1
  <2>4. IsSynthetic(tr.stack[depth])
    BY <1>2, <2>1, <2>2, OthersDiffer
  <2>5. id[1] = "task"
    <3>1. (TaskId(k) \o suffix)[1] = "task"
      BY ResultIsSeq
    <3> QED BY <1>1, <3>1
  <2>6. with = Popped(tr, depth - 1)
    <3> HIDE DEF id
    <3>1. depth > 0
      BY <2>2
    <3> QED BY <1>4, <2>3, <2>4, <2>5, <3>1 DEF ToolResult
  <2>7. Stacked(with) /\ with.stack = SubSeq(tr.stack, 1, depth - 1)
    BY <2>2, <2>6, PoppedIsStacked
  <2>8. /\ IsSeq(left) /\ Len(left) = Len(tasks) - 1
        /\ \A j \in 1 .. Len(left) : left[j] = IF j < i THEN tasks[j] ELSE tasks[j + 1]
    BY TakenOut
  <2>9. /\ Len(with.stack) = depth - 1
        /\ \A j \in 1 .. depth - 1 : with.stack[j] = tr.stack[j]
    BY <1>2, <2>2, <2>7, Shortened
  <2> HIDE DEF with, left, over
  <2>10. \A j \in 1 .. Len(left) : \E h \in 1 .. started : left[j] = TaskId(h)
    <3> SUFFICES ASSUME NEW j \in 1 .. Len(left) PROVE \E h \in 1 .. started : left[j] = TaskId(h)
      OBVIOUS
    <3>1. PICK g \in 1 .. Len(tasks) : left[j] = tasks[g]
      BY <1>2, <2>1, <2>8
    <3> QED BY <3>1 DEF Nested
  <2>11. \A j \in 1 .. depth - 1 : with.stack[j] = Synthetic(j)
    BY <1>2, <2>1, <2>9
  <2>12. Nested(ids, over, started, left, with.stack)
    BY <1>4, <2>1, <2>8, <2>9, <2>10, <2>11 DEF Nested
  <2> QED BY <2>7, <2>12 DEF with, left, over
<1> QED BY <1>3, <1>4

-----------------------------------------------------------------------------
(* A turn: what Claude Code does, and what of it the stack depends on.      *)

TurnFields == {"pieces", "ids", "events", "tasks", "started", "stopped", "block", "tool",
               "heard", "early", "ended"}
IsTurn(t) == t = [f \in TurnFields |-> t[f]]

SameTasks(t, u) ==
  /\ IsTurn(u) /\ u.ids = t.ids /\ u.early = t.early /\ u.started = t.started /\ u.tasks = t.tasks
  /\ u.ended = t.ended

LEMMA TurnSet ==
  ASSUME NEW t, IsTurn(t), NEW f \in TurnFields, NEW e
  PROVE  LET u == [t EXCEPT ![f] = e]
         IN  IsTurn(u) /\ u[f] = e /\ \A g \in TurnFields \ {f} : u[g] = t[g]
<1> DEFINE u == [t EXCEPT ![f] = e]
<1>1. u[f] = e /\ \A g \in TurnFields \ {f} : u[g] = t[g]
  BY DEF IsTurn
<1>2. u = [g \in TurnFields |-> u[g]]
  <2>1. t = [g \in TurnFields |-> t[g]]
    BY DEF IsTurn
  <2>2. u = [g \in TurnFields |-> IF g = f THEN e ELSE t[g]]
    BY <2>1
  <2> QED BY <2>2
<1> QED BY <1>1, <1>2 DEF IsTurn

LEMMA GoesKeeps ==
  ASSUME IsTurn(turn)
  PROVE  SameTasks(turn, Goes) /\ Goes.stopped = FALSE
<1> DEFINE t == [turn EXCEPT !["events"] = turn.events + 1]
           u == [t EXCEPT !["stopped"] = FALSE]
<1>1. IsTurn(t) /\ \A g \in TurnFields \ {"events"} : t[g] = turn[g]
  BY TurnSet DEF TurnFields
<1> HIDE DEF t
<1>2. IsTurn(u) /\ u["stopped"] = FALSE /\ \A g \in TurnFields \ {"stopped"} : u[g] = t[g]
  BY <1>1, TurnSet DEF TurnFields
<1> HIDE DEF u
<1>3. Goes = u
  BY Zenon DEF Goes, u, t
<1> QED BY <1>1, <1>2, <1>3 DEF SameTasks, TurnFields

LEMMA HeardKeeps ==
  ASSUME NEW t, IsTurn(t)
  PROVE  SameTasks(t, Heard(t)) /\ Heard(t).stopped = t.stopped
<1> DEFINE more == Append(t.heard, Part)
           u == [t EXCEPT !["heard"] = more]
<1> HIDE DEF more
<1>1. IsTurn(u) /\ \A g \in TurnFields \ {"heard"} : u[g] = t[g]
  BY TurnSet DEF TurnFields
<1> HIDE DEF u
<1>2. Heard(t) = u \/ Heard(t) = t
  BY DEF Heard, u, more
<1> QED BY <1>1, <1>2 DEF SameTasks, TurnFields

LEMMA InBlockKeeps ==
  ASSUME NEW t, IsTurn(t), NEW kind
  PROVE  SameTasks(t, InBlock(t, kind)) /\ InBlock(t, kind).stopped = t.stopped
<1> DEFINE u == [t EXCEPT !["block"] = [kind |-> kind, index |-> NextIndex]]
<1>1. IsTurn(u) /\ \A g \in TurnFields \ {"block"} : u[g] = t[g]
  BY TurnSet DEF TurnFields
<1> HIDE DEF u
<1>2. InBlock(t, kind) = u \/ InBlock(t, kind) = t
  BY DEF InBlock, u
<1> QED BY <1>1, <1>2 DEF SameTasks, TurnFields

\* The stack is that of the Tasks, in every step.
StackInv ==
  /\ IsTurn(turn) /\ turn.ids \in BOOLEAN /\ turn.early \in BOOLEAN /\ turn.started \in Nat
  /\ IsSeq(turn.tasks)
  /\ Stacked(transcript)
  /\ Nested(turn.ids, turn.early, turn.started, turn.tasks, transcript.stack)

LEMMA EmptyIsSeq == IsSeq(<<>>) /\ Len(<<>>) = 0
<1>1. <<>> \in Seq({}) /\ Len(<<>>) = 0
  OBVIOUS
<1>2. IsSeq(<<>>)
  BY <1>1, SeqIsSeq, Zenon
<1> QED BY <1>1, <1>2

LEMMA StackStarts ==
  ASSUME NEW pieces, NEW ids \in BOOLEAN, Begins(pieces, ids)
  PROVE  StackInv
<1>1. /\ turn = [pieces |-> pieces, ids |-> ids, events |-> 0, tasks |-> <<>>, started |-> 0,
                 stopped |-> FALSE, block |-> NoBlock, tool |-> FALSE, heard |-> <<>>,
                 early |-> FALSE, ended |-> FALSE]
      /\ transcript = [segments |-> <<>>, open |-> <<>>, stack |-> <<>>, agents |-> <<>>]
  BY DEF Begins
<1>2. /\ turn.ids = ids /\ turn.early = FALSE /\ turn.started = 0 /\ turn.tasks = <<>>
      /\ transcript.stack = <<>>
  BY <1>1
<1>3. IsTurn(turn)
  BY <1>1 DEF IsTurn, TurnFields
<1>4. Stacked(transcript)
  BY <1>1, EmptyIsSeq DEF Stacked, IsTranscript
<1>5. Nested(ids, FALSE, 0, <<>>, <<>>)
  BY EmptyIsSeq DEF Nested
<1>6. Nested(turn.ids, turn.early, turn.started, turn.tasks, transcript.stack)
  BY <1>2, <1>5
<1>7. IsSeq(turn.tasks)
  BY <1>2, EmptyIsSeq
<1>8. turn.ids \in BOOLEAN /\ turn.early \in BOOLEAN /\ turn.started \in Nat
  <2>1. ids \in BOOLEAN /\ FALSE \in BOOLEAN /\ 0 \in Nat
    OBVIOUS
  <2> QED BY <1>2, <2>1, Zenon
<1> QED BY <1>3, <1>4, <1>6, <1>7, <1>8 DEF StackInv

\* What touches neither the Tasks nor the stack.
LEMMA StackRests ==
  ASSUME StackInv, SameTasks(turn, turn'), IsTranscript(transcript'),
         SameStack(transcript, transcript')
  PROVE  StackInv'
BY DEF StackInv, SameTasks, SameStack, Stacked

LEMMA StackStep ==
  ASSUME StackInv, [TranscriptNext]_transcript_vars
  PROVE  StackInv'
<1> USE DEF Hears
<1>1. /\ IsTurn(turn) /\ turn.ids \in BOOLEAN /\ turn.early \in BOOLEAN /\ turn.started \in Nat
      /\ IsSeq(turn.tasks)
      /\ Stacked(transcript) /\ IsTranscript(transcript)
      /\ Nested(turn.ids, turn.early, turn.started, turn.tasks, transcript.stack)
  BY DEF StackInv, Stacked
<1>2. SameTasks(turn, turn) /\ SameStack(transcript, transcript)
  BY <1>1 DEF SameTasks, SameStack
<1>3. SameTasks(turn, Goes)
  BY <1>1, GoesKeeps
<1>4. IsTurn(Goes)
  BY <1>3 DEF SameTasks
<1>5. SameTasks(turn, Heard(Goes))
  BY <1>3, <1>4, HeardKeeps DEF SameTasks
<1>6. Len(transcript.stack) \in Nat
  BY <1>1 DEF Stacked, IsSeq
<1>7. CASE UNCHANGED transcript_vars
  BY <1>7 DEF transcript_vars, StackInv
<1>8. CASE SecondPasses
  BY <1>8 DEF SecondPasses, StackInv
<1>9. ASSUME NEW kind \in TextKinds, Chunk(kind) PROVE StackInv'
  <2>1. turn' = Heard(Goes) /\ transcript' = TextGrows(transcript, kind, NoIndex, Part)
    BY <1>9 DEF Chunk
  <2> QED BY <1>1, <1>5, <2>1, TextGrowsKeeps, StackRests
<1>10. ASSUME NEW kind \in TextKinds, BlockStarts(kind) PROVE StackInv'
  <2> DEFINE block == [kind |-> kind, index |-> NextIndex]
             after == [Goes EXCEPT !["block"] = block]
  <2>1. /\ turn' = after
        /\ transcript' = TextStarts(transcript, kind, NextIndex)
    BY <1>10 DEF BlockStarts
  <2> HIDE DEF block
  <2>2. IsTurn(after) /\ \A g \in TurnFields \ {"block"} : after[g] = Goes[g]
    BY <1>4, TurnSet DEF TurnFields
  <2> HIDE DEF after
  <2>3. SameTasks(turn, after)
    BY <1>3, <2>2 DEF SameTasks, TurnFields
  <2> QED BY <1>1, <2>1, <2>3, TextStartsKeeps, StackRests
<1>11. CASE BlockGrows
  <2>1. /\ turn' = Heard(Goes)
        /\ transcript' = TextGrows(transcript, turn.block.kind, turn.block.index, Part)
    BY <1>11 DEF BlockGrows
  <2> QED BY <1>1, <1>5, <2>1, TextGrowsKeeps, StackRests
<1>12. CASE BlockStops
  <2> DEFINE t == [turn EXCEPT !["stopped"] = TRUE]
             after == [t EXCEPT !["block"] = NoBlock]
  <2>1. /\ turn' = after
        /\ transcript' = Closed(transcript, turn.block.index)
    BY <1>12, Zenon DEF BlockStops
  <2>2. IsTurn(t) /\ \A g \in TurnFields \ {"stopped"} : t[g] = turn[g]
    BY <1>1, TurnSet DEF TurnFields
  <2> HIDE DEF t
  <2>3. IsTurn(after) /\ \A g \in TurnFields \ {"block"} : after[g] = t[g]
    BY <2>2, TurnSet DEF TurnFields
  <2> HIDE DEF after
  <2>4. SameTasks(turn, after)
    BY <2>2, <2>3 DEF SameTasks, TurnFields
  <2> QED BY <1>1, <2>1, <2>4, ClosedKeeps, StackRests
<1>13. CASE UsesTool
  <2> DEFINE t == InBlock(Goes, "tool")
             after == [t EXCEPT !["tool"] = TRUE]
  <2>1. /\ turn' = after
        /\ transcript' = ToolUsed(transcript, FALSE, Index, <<"tool">>)
    BY <1>13 DEF UsesTool
  <2>2. SameTasks(Goes, t)
    BY <1>4, InBlockKeeps
  <2> HIDE DEF t
  <2>3. IsTurn(after) /\ \A g \in TurnFields \ {"tool"} : after[g] = t[g]
    BY <2>2, TurnSet DEF TurnFields, SameTasks
  <2> HIDE DEF after
  <2>4. SameTasks(turn, turn')
    BY <1>3, <2>1, <2>2, <2>3 DEF SameTasks, TurnFields
  <2>5. IsTranscript(transcript') /\ SameStack(transcript, transcript')
    BY <1>1, <1>6, <2>1, ToolUsedKeeps
  <2> QED BY <2>4, <2>5, StackRests
<1>14. CASE StartsTask
  <2> DEFINE t == InBlock(Goes, "task")
             id == TaskId(turn.started + 1)
             told == IF turn.ids THEN id ELSE Omitted
             u == [t EXCEPT !["started"] = t.started + 1]
             tasks == Append(u.tasks, id)
             after == [u EXCEPT !["tasks"] = tasks]
             name == IF told = Omitted THEN Synthetic(Len(transcript.stack) + 1) ELSE told
  <2>1. /\ turn' = [t EXCEPT !.started = @ + 1, !.tasks = Append(@, id)]
        /\ transcript' = ToolUsed(transcript, TRUE, Index, told)
    BY <1>14, Zenon DEF StartsTask, TaskId
  <2>2. turn' = after
    BY <2>1, Zenon
  <2>3. SameTasks(Goes, t)
    BY <1>4, InBlockKeeps
  <2> HIDE DEF t, id
  <2>4. IsTurn(u) /\ u.started = t.started + 1 /\ \A g \in TurnFields \ {"started"} : u[g] = t[g]
    BY <2>3, TurnSet DEF TurnFields, SameTasks
  <2> HIDE DEF u, tasks
  <2>5. IsTurn(after) /\ after.tasks = tasks /\ \A g \in TurnFields \ {"tasks"} : after[g] = u[g]
    BY <2>4, TurnSet DEF TurnFields
  <2> HIDE DEF after
  <2>6. /\ turn'.tasks = Append(turn.tasks, id) /\ turn'.started = turn.started + 1
        /\ turn'.ids = turn.ids /\ turn'.early = turn.early
    BY <1>3, <2>2, <2>3, <2>4, <2>5 DEF SameTasks, TurnFields, tasks
  <2> HIDE DEF told
  <2>7. /\ IsTranscript(transcript') /\ transcript'.stack = Append(transcript.stack, name)
        /\ IsSeq(transcript'.agents) /\ Len(transcript'.agents) = Len(transcript.agents) + 1
    <3>1. /\ IsTranscript(transcript')
          /\ told = Omitted =>
               transcript'.stack = Append(transcript.stack, Synthetic(Len(transcript.stack) + 1))
          /\ told # Omitted => transcript'.stack = Append(transcript.stack, told)
          /\ IsSeq(transcript'.agents)
          /\ Len(transcript'.agents) = Len(transcript.agents) + 1
      <4>1. IsTranscript(transcript) /\ IsSeq(transcript.agents)
        BY <1>1 DEF Stacked
      <4> QED BY <2>1, <4>1, TaskUsedMakes
    <3> QED BY <3>1
  <2>8. id # Omitted
    <3>1. Len(id) = 2 /\ Len(Omitted) = 0
      BY <1>1, IdsAreSeqs DEF id, Omitted
    <3> QED BY <3>1
  <2>9. name = IF turn.ids THEN id ELSE Synthetic(Len(transcript.stack) + 1)
    BY <1>1, <2>8 DEF told
  <2>10. Stacked(transcript')
    <3>1. IsSeq(transcript'.stack) /\ Len(transcript'.stack) = Len(transcript.stack) + 1
      BY <1>1, <2>7, AppendIsSeq DEF Stacked
    <3> QED BY <1>1, <2>7, <3>1 DEF Stacked
  <2>11. Nested(turn.ids, turn.early, turn.started + 1, Append(turn.tasks, id),
                Append(transcript.stack, name))
    BY <1>1, <2>9, NestedGrows DEF id, Stacked
  <2>12. IsSeq(turn'.tasks)
    BY <1>1, <2>6, AppendIsSeq
  <2> HIDE DEF name
  <2>13. Nested(turn'.ids, turn'.early, turn'.started, turn'.tasks, transcript'.stack)
    BY <2>6, <2>7, <2>11
  <2> QED BY <1>1, <2>2, <2>5, <2>6, <2>10, <2>12, <2>13 DEF StackInv
<1>15. CASE ToolEnds
  <2> DEFINE after == [Goes EXCEPT !["tool"] = FALSE]
  <2>1. /\ turn' = after
        /\ transcript' = ToolResult(transcript, <<"tool">>, "a tool")
    BY <1>15 DEF ToolEnds
  <2>2. IsTurn(after) /\ \A g \in TurnFields \ {"tool"} : after[g] = Goes[g]
    BY <1>4, TurnSet DEF TurnFields
  <2> HIDE DEF after
  <2>3. SameTasks(turn, turn')
    BY <1>3, <2>1, <2>2 DEF SameTasks, TurnFields
  <2>4. transcript' = transcript
    BY <1>1, <2>1, ToolEndsNone
  <2> QED BY <1>1, <1>2, <2>3, <2>4, StackRests
<1>16. ASSUME NEW i \in 1 .. MaxTasks, NEW suffix \in {<<>>, <<"more">>}, TaskEnds(i, suffix)
       PROVE  StackInv'
  <2> DEFINE left == RemoveAt(turn.tasks, i)
             over == turn.early \/ i < Len(turn.tasks)
             after == [Goes EXCEPT !.tasks = left, !.early = over]
  <2>1. /\ i \in DOMAIN turn.tasks
        /\ turn' = [Goes EXCEPT !.tasks = RemoveAt(@, i), !.early = @ \/ i < Len(turn.tasks)]
        /\ transcript' = ToolResult(transcript, turn.tasks[i] \o suffix,
                                    IF turn.ids THEN "Task" ELSE None)
    BY <1>16 DEF TaskEnds
  <2>2. i \in 1 .. Len(turn.tasks)
    BY <1>1, <2>1 DEF IsSeq
  <2>3. turn' = after
    <3>1. Goes.tasks = turn.tasks /\ Goes.early = turn.early
      BY <1>3 DEF SameTasks
    <3> QED BY <2>1, <3>1, Zenon
  <2>4. /\ Stacked(transcript')
        /\ Nested(turn.ids, over, turn.started, left, transcript'.stack)
    <3>1. suffix \in Endings
      BY DEF Endings
    <3>2. PICK with : with = ToolResult(transcript, turn.tasks[i] \o suffix,
                                        IF turn.ids THEN "Task" ELSE None)
      OBVIOUS
    <3>3. Stacked(with) /\ Nested(turn.ids, over, turn.started, left, with.stack)
      BY <1>1, <2>2, <3>1, <3>2, TaskEndsIts
    <3> QED BY <2>1, <3>2, <3>3
  <2>5. IsSeq(left)
    BY <1>1, <2>2, TakenOut
  <2>6. over \in BOOLEAN
    BY <1>1
  <2> HIDE DEF left, over
  <2>7. /\ IsTurn(after) /\ after.tasks = left /\ after.early = over
        /\ after.ids = Goes.ids /\ after.started = Goes.started
    BY <1>4 DEF IsTurn, TurnFields
  <2> HIDE DEF after
  <2>8. /\ IsTurn(turn') /\ turn'.tasks = left /\ turn'.started = turn.started
        /\ turn'.ids = turn.ids /\ turn'.early = over
    BY <1>3, <2>3, <2>7 DEF SameTasks
  <2>9. Nested(turn'.ids, turn'.early, turn'.started, turn'.tasks, transcript'.stack)
    BY <2>4, <2>8
  <2> QED BY <1>1, <2>4, <2>5, <2>6, <2>8, <2>9 DEF StackInv
<1>17. ASSUME NEW failed \in BOOLEAN, Ends(failed) PROVE StackInv'
  <2> DEFINE with == IF failed THEN Added(transcript, Segment("error", <<>>)) ELSE transcript
             t == [turn EXCEPT !["ended"] = TRUE]
  <2>1. /\ \E heard : turn' = [t EXCEPT !["heard"] = heard]
        /\ transcript' = with \/ transcript' = TextGrows(with, "text", NoIndex, 1)
    <3>1. transcript' = with \/ transcript' = TextGrows(with, "text", NoIndex, 1)
      BY <1>17 DEF Ends
    <3>2. turn' = [turn EXCEPT !.ended = TRUE,
                               !.heard = IF turn.events = 0 /\ ~ failed THEN <<1>> ELSE @]
      BY <1>17 DEF Ends
    <3> QED BY <3>1, <3>2, Zenon
  <2>2. IsTurn(t) /\ \A g \in TurnFields \ {"ended"} : t[g] = turn[g]
    BY <1>1, TurnSet DEF TurnFields
  <2> HIDE DEF t
  <2>3. IsTurn(turn') /\ \A g \in TurnFields \ {"heard"} : turn'[g] = t[g]
    <3>1. PICK heard : turn' = [t EXCEPT !["heard"] = heard]
      BY <2>1
    <3> DEFINE after == [t EXCEPT !["heard"] = heard]
    <3>2. IsTurn(after) /\ \A g \in TurnFields \ {"heard"} : after[g] = t[g]
      BY <2>2, TurnSet DEF TurnFields
    <3> HIDE DEF after
    <3> QED BY <3>1, <3>2 DEF after
  <2>4. /\ turn'.tasks = turn.tasks /\ turn'.started = turn.started
        /\ turn'.ids = turn.ids /\ turn'.early = turn.early
    BY <2>2, <2>3 DEF TurnFields
  <2>5. IsTranscript(with) /\ SameStack(transcript, with)
    BY <1>1, <1>2, AddedKeeps
  <2> HIDE DEF with
  <2>6. IsTranscript(transcript') /\ SameStack(with, transcript')
    BY <2>1, <2>5, TextGrowsKeeps DEF SameStack
  <2> QED BY <1>1, <2>3, <2>4, <2>5, <2>6 DEF StackInv, Stacked, SameStack
<1> QED BY <1>7, <1>8, <1>9, <1>10, <1>11, <1>12, <1>13, <1>14, <1>15, <1>16, <1>17
        DEF TranscriptNext

LEMMA StackInvIsEnough == StackInv => StackFollows
<1> SUFFICES ASSUME StackInv PROVE StackFollows
  OBVIOUS
<1>1. /\ Len(transcript.stack) \in Nat /\ Len(transcript.stack) = Len(transcript.agents)
      /\ transcript.stack \in Seq(Range(transcript.stack))
      /\ Nested(turn.ids, turn.early, turn.started, turn.tasks, transcript.stack)
      /\ turn.ids \in BOOLEAN /\ turn.early \in BOOLEAN
  BY DEF StackInv, Stacked, IsSeq
<1>2. ASSUME turn.tasks = <<>> PROVE transcript.stack = <<>>
  <2>1. Len(turn.tasks) = 0
    BY <1>2
  <2>2. Len(transcript.stack) = 0
    BY <1>1, <2>1 DEF Nested
  <2> QED BY <1>1, <2>2
<1>3. ~ turn.early => Len(transcript.stack) = Len(turn.tasks)
  BY <1>1 DEF Nested
<1> QED BY <1>1, <1>2, <1>3 DEF StackFollows

-----------------------------------------------------------------------------
(* What is shown.                                                           *)

LEMMA RenderFits ==
  ASSUME NEW tr, IsTranscript(tr), NEW status
  PROVE  LET d == Render(tr, status)
         IN  /\ d.takes <= Limit
             /\ Rendered(tr) # {} => d.places # {} /\ Max(d.places) = Max(Rendered(tr))
<1> DEFINE all == Rendered(tr)
           n == Len(tr.segments)
           from(k) == {i \in all : i >= k}
           whole == Takes(tr, all) + 1 <= Limit
           fitting == {k \in all : Takes(tr, from(k)) + 2 <= Limit}
           first == Min(fitting)
           d == Render(tr, status)
<1>1. all \subseteq 1 .. n /\ n \in Nat
  <2>1. DOMAIN tr.segments = 1 .. n /\ n \in Nat
    BY DEF IsTranscript, IsSeq
  <2> QED BY <2>1 DEF Rendered
<1>2. CASE whole
  <2>1. d = [places |-> all, cut |-> 0, takes |-> Takes(tr, all) + 1, status |-> status]
    BY <1>2 DEF Render
  <2> HIDE DEF d, all
  <2>2. d.takes <= Limit /\ d.places = all
    BY <1>2, <2>1
  <2> QED BY <2>2 DEF d, all
<1>3. CASE ~ whole /\ fitting # {}
  <2>1. d = [places |-> from(first), cut |-> 0, takes |-> Takes(tr, from(first)) + 2,
             status |-> status]
    BY <1>3 DEF Render
  <2>2. fitting \subseteq Nat
    BY <1>1
  <2>3. first \in fitting
    <3> HIDE DEF fitting
    <3> QED BY <1>3, <2>2, Least
  <2>4. first \in all /\ Takes(tr, from(first)) + 2 <= Limit
    BY <2>3
  <2> HIDE DEF first, d, all, n
  <2>5. Max(all) \in all /\ \A y \in all : Max(all) >= y
    BY <1>1, <2>4, Greatest
  <2>6. Max(all) \in from(first)
    BY <2>4, <2>5
  <2>7. from(first) \subseteq 1 .. n /\ from(first) \subseteq all
    BY <1>1
  <2> HIDE DEF from
  <2>8. Max(from(first)) \in from(first) /\ \A y \in from(first) : Max(from(first)) >= y
    BY <1>1, <2>6, <2>7, Greatest
  <2>9. Max(from(first)) = Max(all)
    <3>1. Max(from(first)) >= Max(all) /\ Max(all) >= Max(from(first))
      BY <2>5, <2>6, <2>7, <2>8
    <3>2. Max(from(first)) \in Int /\ Max(all) \in Int
      <4>1. \A y \in 1 .. n : y \in Int
        OBVIOUS
      <4>2. Max(from(first)) \in 1 .. n
        BY <2>7, <2>8
      <4>3. Max(all) \in 1 .. n
        BY <1>1, <2>5
      <4> QED BY <4>1, <4>2, <4>3
    <3> QED BY <3>1, <3>2
  <2>10. d.takes <= Limit /\ d.places = from(first)
    BY <2>1, <2>4
  <2> QED BY <2>6, <2>9, <2>10 DEF d, all
<1>4. CASE ~ whole /\ fitting = {}
  <2>1. d = [places |-> {Max(all)}, cut |-> Limit - 2, takes |-> Limit, status |-> status]
    BY <1>4 DEF Render
  <2> HIDE DEF d, all, n
  <2>2. d.takes <= Limit /\ d.places = {Max(all)}
    BY <2>1, TranscriptAssumption
  <2>3. ASSUME all # {} PROVE Max({Max(all)}) = Max(all)
    <3>1. Max(all) \in 1 .. n
      BY <1>1, <2>3, Greatest
    <3>2. {Max(all)} \subseteq 1 .. n /\ {Max(all)} # {}
      BY <3>1
    <3>3. Max({Max(all)}) \in {Max(all)}
      BY <1>1, <3>2, Greatest
    <3> QED BY <3>3
  <2>4. d.places # {}
    BY <2>2
  <2> QED BY <2>2, <2>3, <2>4 DEF d, all
<1> QED BY <1>2, <1>3, <1>4

\* The editor, and what its last edit left in the chat.
EditorFields == {"recent", "displayed", "status", "lost"}
EditorInv ==
  /\ editor = [f \in EditorFields |-> editor[f]]
  /\ editor.lost \in BOOLEAN
  /\ editor.displayed.takes <= Limit /\ message.takes <= Limit
  /\ editor.lost \/ message = editor.displayed

LEMMA UpdateShows ==
  ASSUME EditorInv, NEW tr, IsTranscript(tr), NEW status, Update(tr, status)
  PROVE  /\ EditorInv'
         /\ Forced(status) =>
              editor'.displayed = Render(tr, IF status = "block" THEN editor.status ELSE status)
<1> DEFINE line == IF status = "block" THEN editor.status ELSE status
           display == Render(tr, line)
<1>1. display.takes <= Limit
  BY RenderFits
<1> HIDE DEF line, display
<1>2. /\ editor = [f \in EditorFields |-> editor[f]]
      /\ editor.lost \in BOOLEAN
      /\ editor.displayed.takes <= Limit /\ message.takes <= Limit
      /\ editor.lost \/ message = editor.displayed
  BY DEF EditorInv
<1>3. CASE ~ Forced(status) /\ editor.recent
  <2>1. editor' = [editor EXCEPT !.status = status] /\ message' = message
    BY <1>3 DEF Update
  <2>2. /\ editor' = [f \in EditorFields |-> editor'[f]]
        /\ editor'.displayed = editor.displayed /\ editor'.lost = editor.lost
    BY <1>2, <2>1 DEF EditorFields
  <2> QED BY <1>2, <1>3, <2>1, <2>2 DEF EditorInv
<1>4. CASE ~ (~ Forced(status) /\ editor.recent) /\ display = editor.displayed
  <2>1. editor' = [editor EXCEPT !.recent = TRUE, !.status = line] /\ message' = message
    BY <1>4 DEF Update, display, line
  <2>2. /\ editor' = [f \in EditorFields |-> editor'[f]]
        /\ editor'.displayed = editor.displayed /\ editor'.lost = editor.lost
    BY <1>2, <2>1 DEF EditorFields
  <2> QED BY <1>2, <1>4, <2>1, <2>2 DEF EditorInv, display, line
<1>5. CASE ~ (~ Forced(status) /\ editor.recent) /\ display # editor.displayed
  <2>1. PICK lost \in BOOLEAN :
          /\ editor' = [recent |-> TRUE, displayed |-> display, status |-> line, lost |-> lost]
          /\ message' = IF lost THEN message ELSE display
    BY <1>5 DEF Update, display, line
  <2>2. /\ editor' = [f \in EditorFields |-> editor'[f]]
        /\ editor'.displayed = display /\ editor'.lost = lost
    BY <2>1 DEF EditorFields
  <2>3. message'.takes <= Limit /\ (lost \/ message' = display)
    BY <1>1, <1>2, <2>1
  <2> QED BY <1>1, <2>1, <2>2, <2>3 DEF EditorInv, display, line
<1> QED BY <1>3, <1>4, <1>5

\* After the end of a block, and of the turn, what is displayed is the transcript.
DisplayInv ==
  /\ StackInv /\ EditorInv
  /\ turn.stopped \in BOOLEAN /\ turn.ended \in BOOLEAN
  /\ turn.stopped => \E line : editor.displayed = Render(transcript, line)
  /\ turn.ended => editor.displayed = Render(transcript, "complete")

LEMMA DisplayInvIsEnough == DisplayInv => TurnShown
<1> SUFFICES ASSUME DisplayInv PROVE TurnShown
  OBVIOUS
<1>1. StackFollows
  BY StackInvIsEnough DEF DisplayInv
<1>2. IsTranscript(transcript)
  BY DEF DisplayInv, StackInv, Stacked
<1>3. /\ editor.displayed.takes <= Limit /\ message.takes <= Limit
      /\ editor.lost \/ message = editor.displayed
  BY DEF DisplayInv, EditorInv
<1>4. ASSUME turn.ended \/ turn.stopped
      PROVE  Rendered(transcript) # {} =>
               editor.displayed.places # {} /\ Max(editor.displayed.places) = Max(Rendered(transcript))
  <2>1. PICK line : editor.displayed = Render(transcript, line)
    BY <1>4 DEF DisplayInv
  <2> QED BY <1>2, <2>1, RenderFits
<1>5. DisplayCurrent
  BY <1>3, <1>4 DEF DisplayCurrent, DisplayInv
<1> QED BY <1>1, <1>5 DEF TurnShown

LEMMA DisplayStarts ==
  ASSUME NEW pieces, NEW ids \in BOOLEAN, Begins(pieces, ids)
  PROVE  DisplayInv
<1>1. StackInv
  BY StackStarts
<1>2. turn.stopped = FALSE /\ turn.ended = FALSE
  BY DEF Begins
<1>3. /\ editor = [recent |-> FALSE, displayed |-> NothingShown, status |-> None, lost |-> FALSE]
      /\ message = NothingShown
  BY DEF Begins
<1>4. NothingShown.takes <= Limit
  BY TranscriptAssumption DEF NothingShown
<1>5. EditorInv
  <2>1. editor = [f \in EditorFields |-> editor[f]]
    BY <1>3 DEF EditorFields
  <2> QED BY <1>3, <1>4, <2>1 DEF EditorInv
<1> QED BY <1>1, <1>2, <1>5 DEF DisplayInv

\* Claude Code goes on: what was displayed need not be the newest any more.
LEMMA DisplayGoesOn ==
  ASSUME DisplayInv, StackInv', NEW status, Hears(transcript', status),
         turn'.stopped = FALSE, turn'.ended = turn.ended, ~ turn.ended
  PROVE  DisplayInv'
<1>1. EditorInv /\ IsTranscript(transcript') /\ Update(transcript', status)
  BY DEF DisplayInv, StackInv, Stacked, Hears
<1>2. EditorInv'
  BY <1>1, UpdateShows
<1> QED BY <1>2 DEF DisplayInv

LEMMA DisplayStep ==
  ASSUME DisplayInv, [TranscriptNext]_transcript_vars
  PROVE  DisplayInv'
<1>1. StackInv /\ EditorInv /\ IsTurn(turn) /\ turn.stopped \in BOOLEAN /\ turn.ended \in BOOLEAN
  BY DEF DisplayInv, StackInv
<1>2. StackInv' /\ IsTranscript(transcript')
  <2>1. StackInv'
    BY <1>1, StackStep
  <2> QED BY <2>1 DEF StackInv, Stacked
<1>3. SameTasks(turn, Goes) /\ Goes.stopped = FALSE /\ IsTurn(Goes) /\ Goes.ended = turn.ended
  BY <1>1, GoesKeeps DEF SameTasks
<1>4. Heard(Goes).stopped = FALSE /\ Heard(Goes).ended = turn.ended
  BY <1>3, HeardKeeps DEF SameTasks
<1>5. \A kind : /\ InBlock(Goes, kind).stopped = FALSE /\ InBlock(Goes, kind).ended = turn.ended
                /\ IsTurn(InBlock(Goes, kind))
  BY <1>3, InBlockKeeps DEF SameTasks
<1>6. CASE UNCHANGED transcript_vars
  <2>1. /\ UNCHANGED <<turn, transcript, editor, message>>
    BY <1>6 DEF transcript_vars
  <2> QED BY <1>1, <1>2, <2>1 DEF DisplayInv, EditorInv
<1>7. CASE SecondPasses
  <2>1. /\ editor' = [editor EXCEPT !.recent = FALSE] /\ UNCHANGED <<turn, transcript, message>>
    BY <1>7 DEF SecondPasses
  <2>2. /\ editor' = [f \in EditorFields |-> editor'[f]]
        /\ editor'.displayed = editor.displayed /\ editor'.lost = editor.lost
    BY <1>1, <2>1 DEF EditorInv, EditorFields
  <2>3. editor'.displayed = editor.displayed /\ EditorInv'
    BY <1>1, <2>1, <2>2 DEF EditorInv
  <2> QED BY <1>1, <1>2, <2>1, <2>3 DEF DisplayInv
<1>8. ASSUME NEW kind \in TextKinds, Chunk(kind) PROVE DisplayInv'
  <2>1. ~ turn.ended /\ turn' = Heard(Goes) /\ Hears(transcript', kind)
    BY <1>8 DEF Chunk, Between, May, Hears
  <2> QED BY <1>2, <1>4, <2>1, DisplayGoesOn
<1>9. ASSUME NEW kind \in TextKinds, BlockStarts(kind) PROVE DisplayInv'
  <2> DEFINE block == [kind |-> kind, index |-> NextIndex]
  <2>1. ~ turn.ended /\ turn' = [Goes EXCEPT !.block = block] /\ Hears(transcript', kind)
    BY <1>9 DEF BlockStarts, Between, May, Hears
  <2> HIDE DEF block
  <2>2. turn'.stopped = FALSE /\ turn'.ended = turn.ended
    BY <1>3, <2>1 DEF IsTurn, TurnFields
  <2> QED BY <1>2, <2>1, <2>2, DisplayGoesOn
<1>10. CASE BlockGrows
  <2>1. ~ turn.ended /\ turn' = Heard(Goes) /\ Hears(transcript', turn.block.kind)
    BY <1>10 DEF BlockGrows, May, Hears
  <2> QED BY <1>2, <1>4, <2>1, DisplayGoesOn
<1>11. CASE UsesTool
  <2> DEFINE t == InBlock(Goes, "tool")
  <2>1. ~ turn.ended /\ turn' = [t EXCEPT !.tool = TRUE] /\ Hears(transcript', "executing")
    BY <1>11 DEF UsesTool, Between, May, Hears
  <2>2. t.stopped = FALSE /\ t.ended = turn.ended /\ IsTurn(t)
    BY <1>5
  <2> HIDE DEF t
  <2>3. turn'.stopped = FALSE /\ turn'.ended = turn.ended
    BY <2>1, <2>2 DEF IsTurn, TurnFields
  <2> QED BY <1>2, <2>1, <2>3, DisplayGoesOn
<1>12. CASE StartsTask
  <2> DEFINE t == InBlock(Goes, "task")
             id == <<"task", turn.started + 1>>
  <2>1. /\ ~ turn.ended /\ turn' = [t EXCEPT !.started = @ + 1, !.tasks = Append(@, id)]
        /\ Hears(transcript', "task")
    BY <1>12 DEF StartsTask, Between, May, Hears
  <2>2. t.stopped = FALSE /\ t.ended = turn.ended /\ IsTurn(t)
    BY <1>5
  <2> HIDE DEF t, id
  <2>3. turn'.stopped = FALSE /\ turn'.ended = turn.ended
    BY <2>1, <2>2 DEF IsTurn, TurnFields
  <2> QED BY <1>2, <2>1, <2>3, DisplayGoesOn
<1>13. CASE ToolEnds
  <2>1. ~ turn.ended /\ turn' = [Goes EXCEPT !.tool = FALSE] /\ Hears(transcript', "executing")
    BY <1>13 DEF ToolEnds, Between, May, Hears
  <2>2. turn'.stopped = FALSE /\ turn'.ended = turn.ended
    BY <1>3, <2>1 DEF IsTurn, TurnFields
  <2> QED BY <1>2, <2>1, <2>2, DisplayGoesOn
<1>14. ASSUME NEW i \in 1 .. MaxTasks, NEW suffix \in {<<>>, <<"more">>}, TaskEnds(i, suffix)
       PROVE  DisplayInv'
  <2> DEFINE left == RemoveAt(Goes.tasks, i)
             over == Goes.early \/ i < Len(turn.tasks)
  <2>1. /\ ~ turn.ended /\ turn' = [Goes EXCEPT !.tasks = left, !.early = over]
        /\ Hears(transcript', "executing")
    BY <1>14 DEF TaskEnds, Between, May, Hears
  <2> HIDE DEF left, over
  <2>2. turn'.stopped = FALSE /\ turn'.ended = turn.ended
    BY <1>3, <2>1 DEF IsTurn, TurnFields
  <2> QED BY <1>2, <2>1, <2>2, DisplayGoesOn
<1>15. CASE BlockStops
  <2>1. /\ ~ turn.ended /\ turn' = [turn EXCEPT !.stopped = TRUE, !.block = NoBlock]
        /\ Update(transcript', "block")
    BY <1>15 DEF BlockStops, Hears
  <2>2. turn'.stopped = TRUE /\ turn'.ended = turn.ended
    BY <1>1, <2>1 DEF IsTurn, TurnFields
  <2>3. EditorInv' /\ editor'.displayed = Render(transcript', editor.status)
    BY <1>1, <1>2, <2>1, UpdateShows DEF Forced
  <2> QED BY <1>1, <1>2, <2>1, <2>2, <2>3 DEF DisplayInv
<1>16. ASSUME NEW failed \in BOOLEAN, Ends(failed) PROVE DisplayInv'
  <2> DEFINE heard == IF turn.events = 0 /\ ~ failed THEN <<1>> ELSE turn.heard
  <2>1. turn' = [turn EXCEPT !.ended = TRUE, !.heard = heard] /\ Update(transcript', "complete")
    BY <1>16 DEF Ends, Hears
  <2> HIDE DEF heard
  <2>2. turn'.stopped = turn.stopped /\ turn'.ended = TRUE
    BY <1>1, <2>1 DEF IsTurn, TurnFields
  <2>3. EditorInv' /\ editor'.displayed = Render(transcript', "complete")
    <3>1. Forced("complete") /\ "complete" # "block"
      BY DEF Forced
    <3> QED BY <1>1, <1>2, <2>1, <3>1, UpdateShows
  <2> QED BY <1>1, <1>2, <2>2, <2>3 DEF DisplayInv
<1> QED BY <1>6, <1>7, <1>8, <1>9, <1>10, <1>11, <1>12, <1>13, <1>14, <1>15, <1>16
        DEF TranscriptNext

-----------------------------------------------------------------------------
(* The gateway: one part is busy, and the others keep what they have.       *)

LEMMA ToolsKept ==
  ASSUME ToolsInv, [GatewayNext]_gateway_vars
  PROVE  ToolsInv'
<1>1. CASE ToolsNext
  BY <1>1, ToolsStep
<1>2. CASE UNCHANGED tools_vars
  BY <1>2 DEF tools_vars, ToolsInv, ConvertTools, Identity
<1> QED BY <1>1, <1>2 DEF GatewayNext, gateway_vars

LEMMA WebKept ==
  ASSUME WebInv, [GatewayNext]_gateway_vars
  PROVE  WebInv'
<1>1. CASE WebNext
  BY <1>1, WebStep
<1>2. CASE UNCHANGED web_vars
  BY <1>2 DEF web_vars, WebInv, WebTyped, WebReach, WebTold
<1> QED BY <1>1, <1>2 DEF GatewayNext, gateway_vars

LEMMA RoutingKept ==
  ASSUME RoutingInv, [GatewayNext]_gateway_vars
  PROVE  RoutingInv'
<1>1. CASE RoutingNext
  BY <1>1, RoutingStep
<1>2. CASE UNCHANGED routing_vars
  BY <1>2 DEF routing_vars, RoutingInv
<1> QED BY <1>1, <1>2 DEF GatewayNext, gateway_vars

LEMMA UsageKept ==
  ASSUME UsageInv, [GatewayNext]_gateway_vars
  PROVE  UsageInv'
<1>1. CASE UsageNext
  BY <1>1, UsageStep
<1>2. CASE UNCHANGED usage_vars
  BY <1>2 DEF usage_vars, UsageInv
<1> QED BY <1>1, <1>2 DEF GatewayNext, gateway_vars

LEMMA DisplayKept ==
  ASSUME DisplayInv, [GatewayNext]_gateway_vars
  PROVE  DisplayInv'
<1>1. [TranscriptNext]_transcript_vars
  BY DEF GatewayNext, gateway_vars
<1> QED BY <1>1, DisplayStep

LEMMA GatewayStarts ==
  GatewayInit => ToolsInv /\ WebInv /\ RoutingInv /\ UsageInv /\ DisplayInv
<1> SUFFICES ASSUME GatewayInit PROVE ToolsInv /\ WebInv /\ RoutingInv /\ UsageInv /\ DisplayInv
  OBVIOUS
<1>1. ToolsInv /\ WebInv /\ UsageInv
  BY ToolsStart, WebStarts, UsageStarts DEF GatewayInit
<1>2. RoutingInv
  BY RoutingStarts DEF GatewayInit
<1>3. DisplayInv
  <2>1. \E pieces, ids \in BOOLEAN : Begins(pieces, ids)
    <3>1. TranscriptInit \/ TranscriptRests
      BY DEF GatewayInit
    <3>2. FALSE \in BOOLEAN
      OBVIOUS
    <3> QED BY <3>1, <3>2, Zenon DEF TranscriptInit, TranscriptRests
  <2> QED BY <2>1, DisplayStarts
<1> QED BY <1>1, <1>2, <1>3

\* An agent at work is answered by a provider, and so is everything on /v1/responses; the
\* gateway's own web answers are whole streams that went only to permitted hosts, whatever a
\* search, a fetch or one of its redirects does; and what is reported for a call of Codex has the
\* flat name that was called, and is the one tool offered by that name and the one that was
\* forced, unless two tools have one flat name (api/handlers, api/optimization_handlers.py,
\* api/web_tools, core/openai_responses/tools.py).
THEOREM AnswersCorrect == GatewaySpec => []AnswersSound
<1>1. GatewayInit => RoutingInv /\ WebInv /\ ToolsInv
  BY GatewayStarts
<1>2. RoutingInv /\ WebInv /\ ToolsInv /\ [GatewayNext]_gateway_vars =>
        RoutingInv' /\ WebInv' /\ ToolsInv'
  BY RoutingKept, WebKept, ToolsKept
<1>3. RoutingInv /\ WebInv /\ ToolsInv => AnswersSound
  BY RoutingInvIsEnough, WebInvIsEnough, ToolsInvIsEnough DEF AnswersSound
<1> QED BY <1>1, <1>2, <1>3, PTL DEF GatewaySpec

\* The record of the usage is well typed, and it is the newest of all that was answered, as
\* much as it may hold (api/usage.py).
THEOREM UsageCorrect == GatewaySpec => [](UsageTypeOK /\ RecordsNewest)
<1>1. GatewayInit => UsageInv
  BY GatewayStarts
<1>2. UsageInv /\ [GatewayNext]_gateway_vars => UsageInv'
  BY UsageKept
<1>3. UsageInv => UsageTypeOK /\ RecordsNewest
  BY UsageInvIsEnough
<1> QED BY <1>1, <1>2, <1>3, PTL DEF GatewaySpec

\* The subagents' stack is empty when no Task runs and as long as the list of the Tasks that
\* run while none ended out of order, and the chat shows the newest of the turn, cut to what a
\* message holds, after each block and at the end (messaging/transcript.py, ui_updates.py).
THEOREM TurnCorrect == GatewaySpec => []TurnShown
<1>1. GatewayInit => DisplayInv
  BY GatewayStarts
<1>2. DisplayInv /\ [GatewayNext]_gateway_vars => DisplayInv'
  BY DisplayKept
<1>3. DisplayInv => TurnShown
  BY DisplayInvIsEnough
<1> QED BY <1>1, <1>2, <1>3, PTL DEF GatewaySpec

=============================================================================
