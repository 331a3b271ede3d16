-------------------------- MODULE TreeQueueProofs --------------------------
(***************************************************************************)
(* Theorems about TreeQueue for every number of messages and every set of  *)
(* commands.  The invariants are proved one after the other; each step     *)
(* lemma assumes the ones proved before it.                                *)
(***************************************************************************)
EXTENDS TreeQueue, TLAPS

LEMMA Nodes == Root \in Node /\ NoNode \notin Node /\ Node \subseteq Nat
  BY NAssumption DEF Node, Root, NoNode

-----------------------------------------------------------------------------
(* The queue operators.                                                     *)

LEMMA EmptyQueue == <<>> \in Seq(Node)
OBVIOUS

\* What is left of a sequence after its first k elements.
LEMMA Suffix ==
  ASSUME NEW S, NEW s \in Seq(S), NEW k \in 1 .. Len(s)
  PROVE  /\ SubSeq(s, k + 1, Len(s)) \in Seq(S)
         /\ Len(SubSeq(s, k + 1, Len(s))) = Len(s) - k
         /\ \A i \in 1 .. Len(s) - k : SubSeq(s, k + 1, Len(s))[i] = s[k + i]
OBVIOUS

\* Removing ids from the queue keeps the others, in their order: the deque
\* comprehension of _SnapshotQueue.remove_if_present.
LEMMA RemoveFromQueueKeeps ==
  ASSUME queue \in Seq(Node), NEW S, RemoveFromQueue(S)
  PROVE  /\ queue' \in Seq(Node)
         /\ \A i \in DOMAIN queue' : queue'[i] \in Queued \ S
         /\ \A q \in Queued \ S : \E i \in DOMAIN queue' : queue'[i] = q
         /\ QueueSound => \A i, j \in DOMAIN queue' : queue'[i] = queue'[j] => i = j
         /\ queue = <<>> => queue' = <<>>
<1> DEFINE kept == {i \in DOMAIN queue : queue[i] \notin S}
<1>1. PICK n \in 0 .. Len(queue) : \E at \in [1 .. n -> kept] :
        /\ \A i, j \in 1 .. n : i < j => at[i] < at[j]
        /\ \A k \in kept : \E i \in 1 .. n : at[i] = k
        /\ queue' = [i \in 1 .. n |-> queue[at[i]]]
  BY Zenon DEF RemoveFromQueue
<1>2. PICK at \in [1 .. n -> kept] :
        /\ \A i, j \in 1 .. n : i < j => at[i] < at[j]
        /\ \A k \in kept : \E i \in 1 .. n : at[i] = k
        /\ queue' = [i \in 1 .. n |-> queue[at[i]]]
  BY <1>1, Zenon
<1>3. \A i \in 1 .. n : at[i] \in DOMAIN queue /\ queue[at[i]] \notin S
  BY <1>2
<1>4. queue' \in Seq(Node) /\ DOMAIN queue' = 1 .. n
  <2>1. \A i \in 1 .. n : queue[at[i]] \in Node
    BY <1>3
  <2> QED BY <1>2, <2>1
<1>5. \A i \in DOMAIN queue' : queue'[i] \in Queued \ S
  BY <1>2, <1>3, <1>4 DEF Queued
<1>6. \A q \in Queued \ S : \E i \in DOMAIN queue' : queue'[i] = q
  <2> SUFFICES ASSUME NEW k \in DOMAIN queue, queue[k] \notin S
               PROVE  \E i \in DOMAIN queue' : queue'[i] = queue[k]
    BY DEF Queued
  <2>1. PICK i \in 1 .. n : at[i] = k
    BY <1>2
  <2>2. i \in DOMAIN queue' /\ queue'[i] = queue[at[i]]
    BY <1>2, <1>4
  <2> QED BY <2>1, <2>2
<1>7. QueueSound => \A i, j \in DOMAIN queue' : queue'[i] = queue'[j] => i = j
  <2> SUFFICES ASSUME QueueSound, NEW i \in 1 .. n, NEW j \in 1 .. n,
                      queue'[i] = queue'[j]
               PROVE  i = j
    BY <1>4
  <2>1. at[i] = at[j]
    BY <1>2, <1>3 DEF QueueSound
  <2>2. at[i] \in Nat /\ at[j] \in Nat
    BY <1>3
  <2>3. ~ (i < j) /\ ~ (j < i)
    <3>1. i < j => at[i] < at[j]
      BY <1>2
    <3>2. j < i => at[j] < at[i]
      BY <1>2
    <3> QED BY <2>1, <2>2, <3>1, <3>2
  <2>4. i \in Nat /\ j \in Nat
    OBVIOUS
  <2> QED BY <2>3, <2>4
<1>8. queue = <<>> => queue' = <<>>
  BY <1>2, <1>4
<1> QED BY <1>4, <1>5, <1>6, <1>7, <1>8

\* What _process_next does at the end of n's task: either the queue held stale
\* ids only and the tree is free, or one queued node of the tree has a task.
LEMMA ProcessNextShape ==
  ASSUME queue \in Seq(Node), phase \in [Node -> Phase],
         NEW n \in Node, ProcessNext(n)
  PROVE  \/ /\ \A q \in Queued : q \notin nodes
            /\ queue' = <<>> /\ ~ is_processing' /\ current_node_id' = NoNode
            /\ current_task' = current_task
            /\ phase' = [phase EXCEPT ![n] = "done"]
         \/ \E k \in DOMAIN queue :
            /\ queue[k] \in Node /\ queue[k] \in nodes
            /\ \A i \in DOMAIN queue : i < k => queue[i] \notin nodes
            /\ queue' \in Seq(Node) /\ Len(queue') = Len(queue) - k
            /\ \A i \in 1 .. Len(queue) - k : queue'[i] = queue[k + i]
            /\ is_processing' /\ current_node_id' = queue[k]
            /\ current_task' = queue[k]
            /\ phase' = [phase EXCEPT ![n] = "done", ![queue[k]] = "created"]
<1>1. CASE \E k \in DOMAIN queue :
             /\ queue[k] \in nodes
             /\ \A i \in DOMAIN queue : i < k => queue[i] \notin nodes
             /\ queue' = SubSeq(queue, k + 1, Len(queue))
             /\ is_processing' = TRUE
             /\ current_node_id' = queue[k]
             /\ current_task' = queue[k]
             /\ phase' = [phase EXCEPT ![n] = "done", ![queue[k]] = "created"]
  <2>1. PICK k \in DOMAIN queue :
             /\ queue[k] \in nodes
             /\ \A i \in DOMAIN queue : i < k => queue[i] \notin nodes
             /\ queue' = SubSeq(queue, k + 1, Len(queue))
             /\ is_processing' = TRUE
             /\ current_node_id' = queue[k]
             /\ current_task' = queue[k]
             /\ phase' = [phase EXCEPT ![n] = "done", ![queue[k]] = "created"]
    BY <1>1
  <2>2. queue[k] \in Node
    OBVIOUS
  <2>3. /\ queue' \in Seq(Node) /\ Len(queue') = Len(queue) - k
        /\ \A i \in 1 .. Len(queue) - k : queue'[i] = queue[k + i]
    <3>1. k \in 1 .. Len(queue)
      OBVIOUS
    <3>2. /\ SubSeq(queue, k + 1, Len(queue)) \in Seq(Node)
          /\ Len(SubSeq(queue, k + 1, Len(queue))) = Len(queue) - k
          /\ \A i \in 1 .. Len(queue) - k :
               SubSeq(queue, k + 1, Len(queue))[i] = queue[k + i]
      BY <3>1, Suffix
    <3> QED BY <2>1, <3>2
  <2> QED BY <2>1, <2>2, <2>3
<1>2. CASE /\ \A i \in DOMAIN queue : queue[i] \notin nodes
           /\ queue' = <<>>
           /\ is_processing' = FALSE
           /\ current_node_id' = NoNode
           /\ phase' = [phase EXCEPT ![n] = "done"]
           /\ UNCHANGED current_task
  BY <1>2 DEF Queued
<1>3. \/ /\ \A i \in DOMAIN queue : queue[i] \notin nodes
         /\ queue' = <<>>
         /\ is_processing' = FALSE
         /\ current_node_id' = NoNode
         /\ phase' = [phase EXCEPT ![n] = "done"]
         /\ UNCHANGED current_task
      \/ \E k \in DOMAIN queue :
         /\ queue[k] \in nodes
         /\ \A i \in DOMAIN queue : i < k => queue[i] \notin nodes
         /\ queue' = SubSeq(queue, k + 1, Len(queue))
         /\ is_processing' = TRUE
         /\ current_node_id' = queue[k]
         /\ current_task' = queue[k]
         /\ phase' = [phase EXCEPT ![n] = "done", ![queue[k]] = "created"]
  BY Zenon DEF ProcessNext
<1> QED BY <1>1, <1>2, <1>3, Zenon

-----------------------------------------------------------------------------
(* Type correctness.                                                        *)

\* The parts of TypeOK ProcessNext changes.
LEMMA ProcessNextTypes ==
  ASSUME TypeOK, NEW n \in Node, ProcessNext(n)
  PROVE  /\ queue' \in Seq(Node) /\ is_processing' \in BOOLEAN
         /\ current_node_id' \in Node \cup {NoNode}
         /\ current_task' \in Node \cup {NoNode}
         /\ phase' \in [Node -> Phase]
<1>1. queue \in Seq(Node) /\ phase \in [Node -> Phase]
      /\ current_task \in Node \cup {NoNode}
  BY DEF TypeOK
<1>2. is_processing' \in BOOLEAN
  BY DEF ProcessNext
<1>3. {"done", "created"} \subseteq Phase
  BY DEF Phase, Live
<1>4. CASE /\ queue' = <<>> /\ ~ is_processing' /\ current_node_id' = NoNode
           /\ current_task' = current_task
           /\ phase' = [phase EXCEPT ![n] = "done"]
  BY <1>1, <1>2, <1>3, <1>4
<1>5. CASE \E k \in DOMAIN queue :
           /\ queue[k] \in Node /\ queue' \in Seq(Node)
           /\ current_node_id' = queue[k] /\ current_task' = queue[k]
           /\ phase' = [phase EXCEPT ![n] = "done", ![queue[k]] = "created"]
  BY <1>1, <1>2, <1>3, <1>5
<1> QED BY <1>1, <1>4, <1>5, ProcessNextShape

LEMMA Deriveds ==
  ASSUME TypeOK, NEW n \in Node
  PROVE  /\ \A S : MarkError(S) \in [Node -> State]
         /\ \A s \in State : Updated(n, s) \in [Node -> State]
         /\ Failed(n) \in [Node -> State]
         /\ Cancelled \subseteq Node
         /\ Descendants(n) \subseteq nodes
<1>1. \A S : MarkError(S) \in [Node -> State]
  BY DEF TypeOK, MarkError, State
<1>2. \A s \in State : Updated(n, s) \in [Node -> State]
  BY DEF TypeOK, Updated
<1>3. Failed(n) \in [Node -> State]
  BY <1>1 DEF TypeOK, Failed
<1>4. Cancelled \subseteq Node
  BY DEF TypeOK, Cancelled, CurrentTaskAlive
<1>5. Descendants(n) \subseteq nodes
  BY Zenon DEF Descendants
<1> QED BY <1>1, <1>2, <1>3, <1>4, <1>5

LEMMA SnapshotType ==
  ASSUME NEW st \in [Node -> State], NEW present
  PROVE  Snapshot(st, present) \in [Node -> State \cup {Absent}]
BY DEF Snapshot

\* Every action keeps every variable in its type.
LEMMA TypeStep == TypeOK /\ [Next]_vars => TypeOK'
<1> SUFFICES ASSUME TypeOK, [Next]_vars PROVE TypeOK'
  OBVIOUS
<1>0. ops' \in OpSets
  BY DEF TypeOK, Next, vars
<1> USE <1>0
<1>1. ASSUME NEW m \in Node, NEW p \in Node \cup {NoNode}, Receive(m, p)
      PROVE  TypeOK'
  BY <1>1 DEF Receive, TypeOK, Phase
<1>2. ASSUME NEW m \in Node, Deliver(m) PROVE TypeOK'
  <2>1. stored' \in [Node -> State \cup {Absent}]
    BY <1>2, SnapshotType DEF Deliver, TypeOK
  <2>2. queue' \in Seq(Node)
    BY <1>2 DEF Deliver, TypeOK
  <2>3. phase' \in [Node -> Phase]
    BY <1>2 DEF Deliver, TypeOK, Phase, Live
  <2> QED BY <1>2, <2>1, <2>2, <2>3 DEF Deliver, TypeOK
<1>3. ASSUME NEW m \in Node, IntakeFails(m) PROVE TypeOK'
  BY <1>3 DEF IntakeFails, TypeOK, Phase, tree_vars
<1>4. ASSUME NEW n \in Node, TaskDiesUnstarted(n) PROVE TypeOK'
  BY <1>4 DEF TaskDiesUnstarted, TypeOK, Phase, tree_vars
<1>5. ASSUME NEW n \in Node, TaskSkips(n) PROVE TypeOK'
  BY <1>5, ProcessNextTypes DEF TaskSkips, TypeOK
<1>6. ASSUME NEW n \in Node, TaskStarts(n) PROVE TypeOK'
  BY <1>6, Deriveds DEF TaskStarts, TypeOK, Phase, Live, State
<1>7. ASSUME NEW n \in Node, TaskFinishes(n) PROVE TypeOK'
  BY <1>7, ProcessNextTypes DEF TaskFinishes, TypeOK
<1>8. ASSUME NEW n \in Node, SessionInfo(n) PROVE TypeOK'
  <2>1. state' \in [Node -> State]
    BY <1>8, Deriveds DEF SessionInfo, TypeOK, State
  <2>2. stored' \in [Node -> State \cup {Absent}]
    BY <1>8, <2>1, SnapshotType DEF SessionInfo, TypeOK
  <2> QED BY <1>8, <2>1, <2>2 DEF SessionInfo, TypeOK
<1>9. ASSUME NEW n \in Node, ErrorEvent(n) PROVE TypeOK'
  BY <1>9, Deriveds, SnapshotType DEF ErrorEvent, TypeOK, task_vars
<1>10. ASSUME NEW n \in Node, NEW failed \in BOOLEAN, Exit(n, failed) PROVE TypeOK'
  <2>1. state' \in [Node -> State]
    BY <1>10, Deriveds DEF Exit, TypeOK, State
  <2> QED BY <1>10, <2>1, SnapshotType DEF Exit, TypeOK, Phase, Live
<1>11. ASSUME NEW n \in Node, RunnerFails(n) PROVE TypeOK'
  BY <1>11, Deriveds, SnapshotType DEF RunnerFails, TypeOK, Phase, Live
<1>12. ASSUME NEW n \in Node, RunnerRaises(n) PROVE TypeOK'
  BY <1>12, Deriveds, ProcessNextTypes DEF RunnerRaises, TypeOK, State
<1>13. ASSUME NEW n \in Node, CancelDelivered(n) PROVE TypeOK'
  BY <1>13 DEF CancelDelivered, TypeOK, Phase, Live, tree_vars
<1>14. ASSUME NEW n \in Node, CancelHandled(n) PROVE TypeOK'
  <2>1. state' \in [Node -> State]
    BY <1>14, Deriveds DEF CancelHandled, TypeOK, State
  <2>2. stored' \in [Node -> State \cup {Absent}]
    BY <1>14, <2>1, SnapshotType DEF CancelHandled, TypeOK
  <2> QED BY <1>14, <2>1, <2>2 DEF CancelHandled, TypeOK, Phase, Live
<1>15. ASSUME NEW n \in Node, StopNode(n) PROVE TypeOK'
  <2>1. queue' \in Seq(Node)
    BY <1>15, RemoveFromQueueKeeps DEF StopNode, TypeOK
  <2> QED BY <1>15, <2>1, Deriveds, SnapshotType DEF StopNode, TypeOK
<1>16. ASSUME CancelTree, TypeOK
       PROVE  /\ cancelling' \subseteq Node /\ state' \in [Node -> State]
              /\ queue' \in Seq(Node) /\ is_processing' \in BOOLEAN
              /\ current_node_id' \in Node \cup {NoNode}
  <2>1. state' \in [Node -> State]
    BY <1>16, Deriveds, Nodes DEF CancelTree
  <2>2. cancelling' \subseteq Node
    BY <1>16, Deriveds, Nodes DEF CancelTree
  <2>3. queue' \in Seq(Node) /\ is_processing' \in BOOLEAN
        /\ current_node_id' \in Node \cup {NoNode}
    BY <1>16, EmptyQueue DEF CancelTree
  <2> QED BY <2>1, <2>2, <2>3
<1>17. ASSUME NEW step \in {"stop_all", "clear_stopping"}, StopAll(step) PROVE TypeOK'
  <2>1. CancelTreeReports \in BOOLEAN
    BY DEF CancelTreeReports
  <2> QED BY <1>16, <1>17, <2>1 DEF StopAll, TypeOK, Step
<1>18. ASSUME StopAllReturns PROVE TypeOK'
  BY <1>18, SnapshotType DEF StopAllReturns, TypeOK, Idle, Step, tree_vars, task_vars
<1>19. ASSUME ClearAll PROVE TypeOK'
  BY <1>19 DEF ClearAll, TypeOK, Idle, Step, task_vars
<1>20. ASSUME NEW n \in Node, CancelBranch(n) PROVE TypeOK'
  <2> DEFINE hit == {m \in Descendants(n) : state[m] \notin Terminal}
  <2>1. queue' \in Seq(Node)
    BY <1>20, RemoveFromQueueKeeps DEF CancelBranch, TypeOK
  <2>2. state' = MarkError(hit) /\ stored' \in {stored, Snapshot(state', nodes)}
        /\ cancelling' \in {cancelling, Cancelled}
    BY <1>20 DEF CancelBranch
  <2>3. state' \in [Node -> State] /\ cancelling' \subseteq Node
    BY <2>2, Deriveds DEF TypeOK
  <2>4. stored' \in [Node -> State \cup {Absent}]
    BY <2>2, <2>3, SnapshotType DEF TypeOK
  <2> QED BY <1>20, <2>1, <2>3, <2>4 DEF CancelBranch, TypeOK, Step
<1>21. ASSUME RemoveBranch PROVE TypeOK'
  BY <1>21, SnapshotType DEF RemoveBranch, TypeOK, Idle, Step, task_vars
<1>22. ASSUME RemoveTree PROVE TypeOK'
  BY <1>16, <1>22 DEF RemoveTree, TypeOK, Idle, Step
<1>23. ASSUME Restart PROVE TypeOK'
  <2>1. nodes' \subseteq Node /\ registered' \in BOOLEAN
    BY <1>23 DEF Restart
  <2>2. state' \in [Node -> State]
    BY <1>23 DEF Restart, TypeOK, State
  <2>3. stored' \in [Node -> State \cup {Absent}]
    BY <1>23, <2>2, SnapshotType DEF Restart
  <2>4. phase' \in [Node -> Phase]
    BY <1>23 DEF Restart, Phase
  <2>5. command' \in [step : Step, node : Node \cup {NoNode}, save : BOOLEAN]
    BY <1>23 DEF Restart, Idle, Step
  <2> QED BY <1>23, <2>1, <2>2, <2>3, <2>4, <2>5, EmptyQueue DEF Restart, TypeOK
<1>24. ASSUME UNCHANGED vars PROVE TypeOK'
  BY <1>24 DEF TypeOK, vars, tree_vars, task_vars
<1> QED
  BY <1>1, <1>2, <1>3, <1>4, <1>5, <1>6, <1>7, <1>8, <1>9, <1>10, <1>11, <1>12,
     <1>13, <1>14, <1>15, <1>17, <1>18, <1>19, <1>20, <1>21, <1>22, <1>23, <1>24,
     Zenon
  DEF Next, TaskStep

\* Every variable keeps its type, for any number of messages and any commands.
THEOREM TypeCorrect == Spec => []TypeOK
<1>1. Init => TypeOK
  <2>1. Idle \in [step : Step, node : Node \cup {NoNode}, save : BOOLEAN]
    BY DEF Idle, Step
  <2>2. Init => /\ state \in [Node -> State]
                /\ phase \in [Node -> Phase]
                /\ stored \in [Node -> State \cup {Absent}]
                /\ parent \in [Node -> Node \cup {NoNode}]
    BY DEF Init, State, Phase
  <2> QED BY <2>1, <2>2, EmptyQueue DEF Init, TypeOK
<1> QED BY <1>1, TypeStep, PTL DEF Spec

-----------------------------------------------------------------------------
(* The queue: no duplicates, no started node, and no queue without a worker. *)

\* The queue stays sound while the nodes that wait go on waiting.
LEMMA QueueKept ==
  ASSUME TypeOK, QueueSound, QueuedImpliesBusy, queue' = queue,
         is_processing' = is_processing,
         \A q \in Node : phase[q] = "waiting" => phase'[q] = "waiting"
  PROVE  QueueSound' /\ QueuedImpliesBusy'
<1>1. \A i \in DOMAIN queue : queue[i] \in Node
  BY DEF TypeOK
<1> QED BY <1>1 DEF QueueSound, QueuedImpliesBusy

\* The queue stays sound when it is emptied.
LEMMA QueueDrained ==
  ASSUME queue' = <<>>
  PROVE  QueueSound' /\ QueuedImpliesBusy'
BY DEF QueueSound, QueuedImpliesBusy

\* _process_next: the ids behind the one taken were queued once and wait.
LEMMA QueueProcessNext ==
  ASSUME TypeOK, QueueSound, NEW n \in Node, phase[n] # "waiting", ProcessNext(n)
  PROVE  QueueSound' /\ QueuedImpliesBusy'
<1>1. queue \in Seq(Node) /\ phase \in [Node -> Phase]
  BY DEF TypeOK
<1>2. CASE queue' = <<>>
  BY <1>2, QueueDrained
<1>3. ASSUME NEW k \in DOMAIN queue, queue' \in Seq(Node),
             Len(queue') = Len(queue) - k,
             \A i \in 1 .. Len(queue) - k : queue'[i] = queue[k + i],
             is_processing',
             phase' = [phase EXCEPT ![n] = "done", ![queue[k]] = "created"]
      PROVE  QueueSound' /\ QueuedImpliesBusy'
  <2>1. DOMAIN queue' = 1 .. Len(queue) - k
    BY <1>3
  <2>2. \A i \in DOMAIN queue' :
          /\ k + i \in DOMAIN queue /\ k + i # k
          /\ queue'[i] = queue[k + i]
    BY <1>1, <1>3, <2>1
  <2>3. \A i \in DOMAIN queue' : phase'[queue'[i]] = "waiting"
    <3> SUFFICES ASSUME NEW i \in DOMAIN queue' PROVE phase'[queue'[i]] = "waiting"
      OBVIOUS
    <3>1. phase[queue[k + i]] = "waiting" /\ queue[k + i] # queue[k]
      BY <2>2, <1>3 DEF QueueSound
    <3>2. queue[k + i] \in Node /\ queue[k + i] # n
      BY <1>1, <2>2, <3>1
    <3> QED BY <1>1, <1>3, <2>2, <3>1, <3>2
  <2>4. \A i, j \in DOMAIN queue' : queue'[i] = queue'[j] => i = j
    <3> SUFFICES ASSUME NEW i \in DOMAIN queue', NEW j \in DOMAIN queue',
                        queue'[i] = queue'[j]
                 PROVE  i = j
      OBVIOUS
    <3>1. k + i = k + j
      BY <2>2 DEF QueueSound
    <3>2. k \in Nat /\ i \in Nat /\ j \in Nat
      BY <1>1, <2>1
    <3> QED BY <3>1, <3>2
  <2> QED BY <1>3, <2>3, <2>4 DEF QueueSound, QueuedImpliesBusy
<1> QED BY <1>1, <1>2, <1>3, ProcessNextShape, Zenon

\* Taking ids out of the queue keeps it sound.
LEMMA QueueRemove ==
  ASSUME TypeOK, QueueSound, QueuedImpliesBusy, NEW S, RemoveFromQueue(S),
         phase' = phase, is_processing' = is_processing
  PROVE  QueueSound' /\ QueuedImpliesBusy'
<1>1. /\ \A i \in DOMAIN queue' : queue'[i] \in Queued
      /\ \A i, j \in DOMAIN queue' : queue'[i] = queue'[j] => i = j
      /\ queue = <<>> => queue' = <<>>
  BY RemoveFromQueueKeeps DEF TypeOK
<1>2. \A q \in Queued : phase[q] = "waiting"
  BY DEF QueueSound, Queued
<1> QED BY <1>1, <1>2 DEF QueueSound, QueuedImpliesBusy

LEMMA QueueStep ==
  TypeOK /\ QueueSound /\ QueuedImpliesBusy /\ [Next]_vars
    => QueueSound' /\ QueuedImpliesBusy'
<1> SUFFICES ASSUME TypeOK, QueueSound, QueuedImpliesBusy, [Next]_vars
             PROVE  QueueSound' /\ QueuedImpliesBusy'
  OBVIOUS
<1>a. phase \in [Node -> Phase]
  BY DEF TypeOK
<1>1. ASSUME NEW m \in Node, NEW p \in Node \cup {NoNode}, Receive(m, p)
      PROVE  QueueSound' /\ QueuedImpliesBusy'
  BY <1>1, <1>a, QueueKept DEF Receive
<1>2. ASSUME NEW m \in Node, Deliver(m) PROVE QueueSound' /\ QueuedImpliesBusy'
  <2>1. CASE is_processing
    <3>1. queue' = Append(queue, m) /\ is_processing'
          /\ phase' = [phase EXCEPT ![m] = "waiting"] /\ phase[m] = "intake"
      BY <1>2, <2>1 DEF Deliver
    <3>2. queue \in Seq(Node)
      BY DEF TypeOK
    <3>3. \A i \in DOMAIN queue' : \/ i \in DOMAIN queue /\ queue'[i] = queue[i]
                                   \/ i = Len(queue) + 1 /\ queue'[i] = m
      BY <3>1, <3>2
    <3>4. \A i \in DOMAIN queue : queue[i] # m /\ queue[i] \in Node
      BY <3>1, <3>2 DEF QueueSound
    <3>5. \A i \in DOMAIN queue' : phase'[queue'[i]] = "waiting"
      BY <3>1, <3>3, <3>4, <1>a DEF QueueSound
    <3>6. \A i, j \in DOMAIN queue' : queue'[i] = queue'[j] => i = j
      BY <3>3, <3>4 DEF QueueSound
    <3> QED BY <3>1, <3>5, <3>6 DEF QueueSound, QueuedImpliesBusy
  <2>2. CASE ~ is_processing
    <3>1. queue = <<>> /\ queue' = <<>>
      BY <1>2, <2>2 DEF Deliver, QueuedImpliesBusy
    <3> QED BY <3>1, QueueDrained
  <2> QED BY <2>1, <2>2
<1>3. ASSUME NEW m \in Node, IntakeFails(m) PROVE QueueSound' /\ QueuedImpliesBusy'
  BY <1>3, <1>a, QueueKept DEF IntakeFails, tree_vars
<1>4. ASSUME NEW n \in Node, TaskDiesUnstarted(n)
      PROVE  QueueSound' /\ QueuedImpliesBusy'
  BY <1>4, <1>a, QueueKept DEF TaskDiesUnstarted, tree_vars
<1>5. ASSUME NEW n \in Node, TaskSkips(n) \/ TaskFinishes(n) \/ RunnerRaises(n)
      PROVE  QueueSound' /\ QueuedImpliesBusy'
  <2>1. ProcessNext(n) /\ phase[n] # "waiting"
    BY <1>5 DEF TaskSkips, TaskFinishes, RunnerRaises, Running
  <2> QED BY <2>1, QueueProcessNext
<1>6. ASSUME NEW n \in Node,
             \/ TaskStarts(n) \/ SessionInfo(n) \/ ErrorEvent(n) \/ RunnerFails(n)
             \/ CancelDelivered(n) \/ CancelHandled(n)
             \/ \E failed \in BOOLEAN : Exit(n, failed)
      PROVE  QueueSound' /\ QueuedImpliesBusy'
  <2>1. queue' = queue /\ is_processing' = is_processing
    BY <1>6 DEF TaskStarts, SessionInfo, ErrorEvent, RunnerFails, CancelDelivered,
                CancelHandled, Exit, tree_vars
  <2>2. \/ phase' = phase
        \/ phase[n] # "waiting" /\ \E p : phase' = [phase EXCEPT ![n] = p]
    BY <1>6 DEF TaskStarts, SessionInfo, ErrorEvent, RunnerFails, CancelDelivered,
                CancelHandled, Exit, Running, task_vars
  <2>3. \A q \in Node : phase[q] = "waiting" => phase'[q] = "waiting"
    BY <1>a, <2>2
  <2> QED BY <2>1, <2>3, QueueKept
<1>7. ASSUME NEW n \in Node, StopNode(n) PROVE QueueSound' /\ QueuedImpliesBusy'
  BY <1>7, QueueRemove DEF StopNode
<1>8. ASSUME NEW n \in Node, CancelBranch(n) PROVE QueueSound' /\ QueuedImpliesBusy'
  <2>1. PICK S : RemoveFromQueue(S)
    BY <1>8, Zenon DEF CancelBranch
  <2> QED BY <1>8, <2>1, QueueRemove DEF CancelBranch
<1>9. ASSUME NEW step \in {"stop_all", "clear_stopping"}, StopAll(step)
      PROVE  QueueSound' /\ QueuedImpliesBusy'
  BY <1>9, QueueDrained DEF StopAll, CancelTree
<1>10. ASSUME StopAllReturns \/ ClearAll \/ RemoveBranch
       PROVE  QueueSound' /\ QueuedImpliesBusy'
  BY <1>10, QueueKept DEF StopAllReturns, ClearAll, RemoveBranch, tree_vars, task_vars
<1>11. ASSUME RemoveTree PROVE QueueSound' /\ QueuedImpliesBusy'
  <2>1. \/ queue' = <<>>
        \/ queue' = queue /\ is_processing' = is_processing
    BY <1>11 DEF RemoveTree, CancelTree
  <2> QED BY <1>11, <2>1, QueueDrained, QueueKept DEF RemoveTree
<1>12. ASSUME Restart PROVE QueueSound' /\ QueuedImpliesBusy'
  BY <1>12, QueueDrained DEF Restart
<1>13. ASSUME UNCHANGED vars PROVE QueueSound' /\ QueuedImpliesBusy'
  BY <1>13, QueueKept DEF vars, tree_vars, task_vars
<1> QED
  BY <1>1, <1>2, <1>3, <1>4, <1>5, <1>6, <1>7, <1>8, <1>9, <1>10, <1>11, <1>12, <1>13,
     Zenon
  DEF Next, TaskStep

\* Whatever commands, restarts and unwinding tasks do, a queued message is there
\* once, has no task, and belongs to a tree marked busy: a newcomer cannot start
\* past it (enqueue_and_start, _process_next, cancel_tree).
THEOREM QueueCorrect == Spec => []QueueSafe
<1>1. Init => QueueSound /\ QueuedImpliesBusy
  BY DEF Init, QueueSound, QueuedImpliesBusy
<1>2. TypeOK /\ (QueueSound /\ QueuedImpliesBusy) /\ [Next]_vars
        => (QueueSound /\ QueuedImpliesBusy)'
  BY QueueStep
<1> QED BY <1>1, <1>2, TypeCorrect, PTL DEF Spec, QueueSafe

-----------------------------------------------------------------------------
(* The tasks and the commands that cancel them, what is stored, and what a  *)
(* step may never do.                                                       *)

\* _process_next, seen from the tasks: n's is over, and either the tree is free or one
\* node that waited has the only new task.
LEMMA ProcessNextTasks ==
  ASSUME TypeOK, QueueSound, NEW n \in Node, phase[n] # "waiting", ProcessNext(n)
  PROVE  /\ phase'[n] = "done"
         /\ \/ /\ ~ is_processing' /\ current_node_id' = NoNode
               /\ current_task' = current_task
               /\ Queued \cap nodes = {}
               /\ \A m \in Node \ {n} : phase'[m] = phase[m]
            \/ \E t \in Node \ {n} :
               /\ t \in Queued /\ t \in nodes /\ phase[t] = "waiting"
               /\ phase'[t] = "created"
               /\ is_processing' /\ current_node_id' = t /\ current_task' = t
               /\ \A m \in Node \ {n, t} : phase'[m] = phase[m]
               /\ \A q \in Queued \cap nodes : q = t \/ q \in Queued'
<1>1. queue \in Seq(Node) /\ phase \in [Node -> Phase]
  BY DEF TypeOK
<1>2. ASSUME \A q \in Queued : q \notin nodes,
             queue' = <<>>, ~ is_processing', current_node_id' = NoNode,
             current_task' = current_task,
             phase' = [phase EXCEPT ![n] = "done"]
      PROVE  /\ phase'[n] = "done"
             /\ ~ is_processing' /\ current_node_id' = NoNode
             /\ current_task' = current_task
             /\ Queued \cap nodes = {}
             /\ \A m \in Node \ {n} : phase'[m] = phase[m]
  BY <1>1, <1>2
<1>3. ASSUME NEW k \in DOMAIN queue,
             queue[k] \in Node, queue[k] \in nodes,
             \A i \in DOMAIN queue : i < k => queue[i] \notin nodes,
             queue' \in Seq(Node), Len(queue') = Len(queue) - k,
             \A i \in 1 .. Len(queue) - k : queue'[i] = queue[k + i],
             is_processing', current_node_id' = queue[k], current_task' = queue[k],
             phase' = [phase EXCEPT ![n] = "done", ![queue[k]] = "created"]
      PROVE  /\ phase'[n] = "done"
             /\ \E t \in Node \ {n} :
               /\ t \in Queued /\ t \in nodes /\ phase[t] = "waiting"
               /\ phase'[t] = "created"
               /\ is_processing' /\ current_node_id' = t /\ current_task' = t
               /\ \A m \in Node \ {n, t} : phase'[m] = phase[m]
               /\ \A q \in Queued \cap nodes : q = t \/ q \in Queued'
  <2>1. phase[queue[k]] = "waiting" /\ queue[k] # n /\ queue[k] \in Queued
    BY DEF QueueSound, Queued
  <2>2. /\ phase'[n] = "done" /\ phase'[queue[k]] = "created"
        /\ \A m \in Node \ {n, queue[k]} : phase'[m] = phase[m]
    BY <1>1, <1>3, <2>1
  <2>3. ASSUME NEW i \in DOMAIN queue, queue[i] \in nodes, queue[i] # queue[k]
        PROVE  queue[i] \in Queued'
    <3>1. i \in Nat /\ k \in Nat /\ i <= Len(queue) /\ k <= Len(queue)
          /\ Len(queue) \in Nat
      BY <1>1
    <3>2. i > k
      BY <1>3, <2>3, <3>1
    <3>3. i - k \in 1 .. Len(queue) - k /\ k + (i - k) = i
      BY <3>1, <3>2
    <3>4. queue'[i - k] = queue[i] /\ i - k \in DOMAIN queue'
      BY <1>3, <3>3
    <3> QED BY <3>4 DEF Queued
  <2>4. \A q \in Queued \cap nodes : q = queue[k] \/ q \in Queued'
    BY <2>3 DEF Queued
  <2> QED BY <1>3, <2>1, <2>2, <2>4
<1> QED BY <1>1, <1>2, <1>3, ProcessNextShape, Zenon

-----------------------------------------------------------------------------
(* Workers: a busy tree has one task that answers for it.                   *)

\* What the tasks and the commands that cancel them keep together.
TasksSound == CancelSound /\ SingleTask /\ BusyHasWorker

\* The steps that neither begin nor end a task and do not cancel one.
LEMMA TasksKept ==
  ASSUME TypeOK, TasksSound, ops' = ops,
         current_node_id' = current_node_id, current_task' = current_task,
         is_processing' = is_processing,
         cancelling' \subseteq cancelling, nodes' \subseteq nodes,
         ops \cap FreesBusyTree = {} => command' \in {command, Idle},
         \A m \in Node : phase'[m] \in Live <=> phase[m] \in Live,
         \A m \in Node : phase'[m] = "created" => phase[m] = "created",
         \A m \in Node : state'[m] = "pending" => state[m] = "pending"
  PROVE  TasksSound'
<1>1. CancelSound'
  BY DEF TypeOK, TasksSound, CancelSound
<1>2. SingleTask'
  BY DEF TypeOK, TasksSound, SingleTask, Idle, Node
<1>3. BusyHasWorker'
  BY DEF TypeOK, TasksSound, BusyHasWorker, CurrentTaskAlive, Node, NoNode
<1> QED BY <1>1, <1>2, <1>3 DEF TasksSound

\* The end of n's task with _process_next.
LEMMA TasksProcessNext ==
  ASSUME TypeOK, QueueSound, TasksSound, ops' = ops, nodes' = nodes,
         command' = command, NEW n \in Node, phase[n] \in Live, ProcessNext(n),
         cancelling' \subseteq cancelling, n \notin cancelling',
         \A m \in Node : state'[m] = "pending" => state[m] = "pending"
  PROVE  TasksSound'
<1>1. phase[n] # "waiting" /\ n # NoNode /\ "waiting" \notin Live /\ "done" \notin Live
      /\ "created" \in Live
  BY Nodes DEF Live
<1>2. CASE /\ phase'[n] = "done" /\ ~ is_processing' /\ current_node_id' = NoNode
           /\ current_task' = current_task
           /\ \A m \in Node \ {n} : phase'[m] = phase[m]
  <2>1. CancelSound'
    BY <1>1, <1>2 DEF TypeOK, TasksSound, CancelSound
  <2>2. SingleTask'
    BY <1>1, <1>2 DEF TypeOK, TasksSound, SingleTask
  <2>3. BusyHasWorker'
    BY <1>2 DEF BusyHasWorker
  <2> QED BY <2>1, <2>2, <2>3 DEF TasksSound
<1>3. ASSUME NEW t \in Node \ {n}, phase'[n] = "done", phase[t] = "waiting",
             phase'[t] = "created", is_processing', current_node_id' = t,
             current_task' = t, \A m \in Node \ {n, t} : phase'[m] = phase[m]
      PROVE  TasksSound'
  <2>1. t \notin cancelling'
    BY <1>1, <1>3 DEF TasksSound, CancelSound
  <2>2. CancelSound'
    BY <1>1, <1>3, <2>1 DEF TypeOK, TasksSound, CancelSound
  <2>3. SingleTask'
    <3> SUFFICES ASSUME ops \cap FreesBusyTree = {}
                 PROVE  /\ command.step \in {"idle", "clear_branch"}
                        /\ command.step = "clear_branch" => command.node # Root
                        /\ \A m \in Node : phase'[m] \in Live => m = t
      BY <1>3 DEF SingleTask
    <3>1. \A m \in Node \ {n} : phase[m] \notin Live
      BY DEF TasksSound, SingleTask
    <3> QED BY <1>1, <1>3, <3>1 DEF TasksSound, SingleTask
  <2>4. BusyHasWorker'
    BY <1>1, <1>3, <2>1, Nodes DEF BusyHasWorker, CurrentTaskAlive
  <2> QED BY <2>2, <2>3, <2>4 DEF TasksSound
<1> QED BY <1>1, <1>2, <1>3, ProcessNextTasks

\* A reply command cancels the current task, which it may do once that has begun.
LEMMA TasksCancelled ==
  ASSUME TypeOK, TasksSound, ops' = ops, nodes' = nodes,
         current_node_id' = current_node_id, current_task' = current_task,
         is_processing' = is_processing, phase' = phase,
         cancelling' = Cancelled, MayCancel,
         CurrentTaskAlive /\ current_task \in nodes => state'[current_task] # "pending",
         \A m \in Node : state'[m] = "pending" => state[m] = "pending",
         ops \cap FreesBusyTree = {} =>
           /\ command'.step \in {"idle", "clear_branch"}
           /\ command'.step = "clear_branch" => command'.node # Root
  PROVE  TasksSound'
<1>1. CancelSound'
  BY DEF TypeOK, TasksSound, CancelSound, Cancelled, CurrentTaskAlive
<1>2. SingleTask'
  BY DEF TypeOK, TasksSound, SingleTask
<1>3. BusyHasWorker'
  BY DEF TypeOK, TasksSound, BusyHasWorker, CurrentTaskAlive, Cancelled, MayCancel
<1> QED BY <1>1, <1>2, <1>3 DEF TasksSound

LEMMA TasksStep == TypeOK /\ QueueSound /\ TasksSound /\ [Next]_vars => TasksSound'
<1> SUFFICES ASSUME TypeOK, QueueSound, TasksSound, [Next]_vars PROVE TasksSound'
  OBVIOUS
<1>a. phase \in [Node -> Phase] /\ state \in [Node -> State] /\ ops' = ops
  BY DEF TypeOK, Next, vars
<1>b. \A S, m : m \in Node /\ MarkError(S)[m] = "pending"
                 => state[m] = "pending" /\ m \notin S
  BY DEF MarkError
<1>c. \A n, m \in Node : \A s \in {"in_progress", "error"} :
        Updated(n, s)[m] = "pending" => state[m] = "pending"
  BY <1>a DEF Updated
<1>d. \A n, m \in Node : Failed(n)[m] = "pending" => state[m] = "pending"
  BY <1>b DEF Failed
<1>1. ASSUME NEW m \in Node, NEW p \in Node \cup {NoNode}, Receive(m, p)
      PROVE  TasksSound'
  BY <1>1, <1>a, TasksKept DEF Receive, Live
<1>2. ASSUME NEW m \in Node, Deliver(m) PROVE TasksSound'
  <2>1. phase[m] = "intake" /\ m \notin cancelling /\ state' = state
        /\ cancelling' = cancelling /\ command' = command /\ nodes' = nodes \cup {m}
    BY <1>2 DEF Deliver, TasksSound, CancelSound, Live
  <2>2. CASE is_processing
    <3>1. phase' = [phase EXCEPT ![m] = "waiting"] /\ is_processing'
          /\ current_node_id' = current_node_id /\ current_task' = current_task
      BY <1>2, <2>2 DEF Deliver
    <3>2. CancelSound'
      BY <1>a, <2>1, <3>1 DEF TypeOK, TasksSound, CancelSound, Live
    <3>3. SingleTask'
      BY <1>a, <2>1, <2>2, <3>1 DEF TasksSound, SingleTask, Live
    <3>4. BusyHasWorker'
      BY <1>a, <2>1, <2>2, <3>1
      DEF TypeOK, TasksSound, BusyHasWorker, CurrentTaskAlive, Live
    <3> QED BY <3>2, <3>3, <3>4 DEF TasksSound
  <2>3. CASE ~ is_processing
    <3>1. phase' = [phase EXCEPT ![m] = "created"] /\ is_processing'
          /\ current_node_id' = m /\ current_task' = m
      BY <1>2, <2>3 DEF Deliver
    <3>2. CancelSound'
      BY <1>a, <2>1, <3>1 DEF TypeOK, TasksSound, CancelSound, Live
    <3>3. SingleTask'
      <4>1. ops \cap FreesBusyTree = {} => \A k \in Node : phase[k] \notin Live
        BY <2>3 DEF TasksSound, SingleTask
      <4> QED BY <1>a, <2>1, <3>1, <4>1 DEF TasksSound, SingleTask, Live
    <3>4. BusyHasWorker'
      BY <1>a, <2>1, <3>1, Nodes DEF BusyHasWorker, CurrentTaskAlive, Live
    <3> QED BY <3>2, <3>3, <3>4 DEF TasksSound
  <2> QED BY <2>2, <2>3
<1>3. ASSUME NEW m \in Node, IntakeFails(m) PROVE TasksSound'
  BY <1>3, <1>a, TasksKept DEF IntakeFails, tree_vars, Live
<1>4. ASSUME NEW n \in Node, TaskDiesUnstarted(n) PROVE TasksSound'
  <2>1. /\ phase[n] = "created" /\ n \in cancelling
        /\ phase' = [phase EXCEPT ![n] = "done"] /\ cancelling' = cancelling \ {n}
        /\ command' = command /\ UNCHANGED tree_vars
    BY <1>4 DEF TaskDiesUnstarted
  <2>2. CancelSound'
    BY <1>a, <2>1 DEF TypeOK, TasksSound, CancelSound, Live, tree_vars
  <2>3. SingleTask'
    BY <1>a, <2>1 DEF TasksSound, SingleTask, Live, tree_vars
  <2>4. BusyHasWorker'
    BY <1>a, <2>1 DEF TypeOK, TasksSound, BusyHasWorker, CurrentTaskAlive, tree_vars
  <2> QED BY <2>2, <2>3, <2>4 DEF TasksSound
<1>5. ASSUME NEW n \in Node, TaskSkips(n) PROVE TasksSound'
  BY <1>5, <1>a, TasksProcessNext DEF TaskSkips, Live
<1>6. ASSUME NEW n \in Node, TaskStarts(n) PROVE TasksSound'
  <2>1. \A m \in Node : state'[m] = "pending" => state[m] = "pending"
    BY <1>6, <1>c DEF TaskStarts
  <2> QED BY <1>6, <1>a, <2>1, TasksKept DEF TaskStarts, Live
<1>7. ASSUME NEW n \in Node, TaskFinishes(n) PROVE TasksSound'
  BY <1>7, <1>a, TasksProcessNext DEF TaskFinishes, Live
<1>8. ASSUME NEW n \in Node, SessionInfo(n) \/ ErrorEvent(n) PROVE TasksSound'
  <2>1. \A m \in Node : state'[m] = "pending" => state[m] = "pending"
    BY <1>8, <1>c, <1>d DEF SessionInfo, ErrorEvent
  <2> QED BY <1>8, <1>a, <2>1, TasksKept DEF SessionInfo, ErrorEvent, task_vars
<1>9. ASSUME NEW n \in Node, NEW failed \in BOOLEAN, Exit(n, failed) PROVE TasksSound'
  <2>1. \A m \in Node : state'[m] = "pending" => state[m] = "pending"
    BY <1>9, <1>a, <1>d, Deriveds DEF Exit
  <2> QED BY <1>9, <1>a, <2>1, TasksKept DEF Exit, Running, Live
<1>10. ASSUME NEW n \in Node, RunnerFails(n) PROVE TasksSound'
  BY <1>10, <1>a, <1>d, TasksKept DEF RunnerFails, Running, Live
<1>11. ASSUME NEW n \in Node, RunnerRaises(n) PROVE TasksSound'
  <2>1. \A m \in Node : state'[m] = "pending" => state[m] = "pending"
    BY <1>11, <1>c DEF RunnerRaises
  <2> QED BY <1>11, <1>a, <2>1, TasksProcessNext DEF RunnerRaises, Running, Live
<1>12. ASSUME NEW n \in Node, CancelDelivered(n) PROVE TasksSound'
  BY <1>12, <1>a, TasksKept DEF CancelDelivered, Live, tree_vars
<1>13. ASSUME NEW n \in Node, CancelHandled(n) PROVE TasksSound'
  <2>1. \A m \in Node : state'[m] = "pending" => state[m] = "pending"
    BY <1>13, <1>c DEF CancelHandled
  <2> QED BY <1>13, <1>a, <2>1, TasksKept DEF CancelHandled, Live
<1>14. ASSUME NEW n \in Node, StopNode(n) PROVE TasksSound'
  <2>1. /\ state' = MarkError({n}) /\ phase' = phase /\ command' = command
        /\ nodes' = nodes /\ is_processing' = is_processing
        /\ current_node_id' = current_node_id /\ current_task' = current_task
    BY <1>14 DEF StopNode
  <2>2. \A m \in Node : state'[m] = "pending" => state[m] = "pending" /\ m # n
    BY <1>b, <2>1
  <2>3. CASE current_node_id = n
    <3>1. n = current_task /\ MayCancel /\ cancelling' = Cancelled
      BY <1>14, <2>3, Nodes DEF StopNode, TasksSound, CancelSound
    <3>2. state'[current_task] # "pending"
      BY <2>2, <3>1
    <3> QED BY <1>a, <2>1, <2>2, <3>1, <3>2, TasksCancelled DEF TasksSound, SingleTask
  <2>4. CASE current_node_id # n
    <3>1. cancelling' = cancelling
      BY <1>14, <2>4 DEF StopNode
    <3> QED BY <1>a, <2>1, <2>2, <3>1, TasksKept
  <2> QED BY <2>3, <2>4
<1>15. ASSUME NEW n \in Node, CancelBranch(n) PROVE TasksSound'
  <2> DEFINE hit == {m \in Descendants(n) : state[m] \notin Terminal}
  <2>1. /\ state' = MarkError(hit) /\ phase' = phase
        /\ nodes' = nodes /\ is_processing' = is_processing
        /\ current_node_id' = current_node_id /\ current_task' = current_task
        /\ command' = [step |-> "clear_branch", node |-> n, save |-> FALSE]
        /\ n = Root => "clear_root" \in ops
    BY <1>15 DEF CancelBranch
  <2>2. \A m \in Node : state'[m] = "pending" => state[m] = "pending" /\ m \notin hit
    BY <1>b, <2>1
  <2>3. ops \cap FreesBusyTree = {} =>
           /\ command'.step \in {"idle", "clear_branch"}
           /\ command'.step = "clear_branch" => command'.node # Root
    BY <2>1 DEF FreesBusyTree
  <2>4. hit \subseteq Node
    BY Deriveds DEF TypeOK
  <2>5. CASE current_node_id \in hit
    <3>1. current_node_id = current_task /\ MayCancel /\ cancelling' = Cancelled
      BY <1>15, <2>4, <2>5, Nodes DEF CancelBranch, TasksSound, CancelSound
    <3>2. state'[current_task] # "pending"
      BY <2>2, <2>4, <2>5, <3>1
    <3> QED BY <1>a, <2>1, <2>2, <2>3, <3>1, <3>2, TasksCancelled
  <2>6. CASE current_node_id \notin hit
    <3>1. cancelling' = cancelling
      BY <1>15, <2>6 DEF CancelBranch
    <3>2. CancelSound'
      BY <1>a, <2>1, <2>2, <3>1 DEF TypeOK, TasksSound, CancelSound
    <3>3. SingleTask'
      BY <1>a, <2>1, <2>3 DEF TasksSound, SingleTask
    <3>4. BusyHasWorker'
      BY <1>a, <2>1, <3>1 DEF TasksSound, BusyHasWorker, CurrentTaskAlive
    <3> QED BY <3>2, <3>3, <3>4 DEF TasksSound
  <2> QED BY <2>5, <2>6
<1>16. ASSUME CancelTree, phase' = phase, current_task' = current_task, nodes' = nodes,
              ops \cap FreesBusyTree # {}
       PROVE  TasksSound'
  <2>1. ~ is_processing' /\ current_node_id' = NoNode /\ cancelling' = Cancelled
        /\ state' = MarkError({m \in nodes : m \in Queued \/ state[m] \notin Terminal})
    BY <1>16 DEF CancelTree
  <2>2. \A m \in nodes : state'[m] # "pending"
    BY <1>b, <2>1 DEF TypeOK, Terminal
  <2>3. CancelSound'
    BY <1>16, <2>1, <2>2 DEF TasksSound, CancelSound, Cancelled, CurrentTaskAlive
  <2>4. SingleTask' /\ BusyHasWorker'
    BY <1>a, <1>16, <2>1 DEF SingleTask, BusyHasWorker
  <2> QED BY <2>3, <2>4 DEF TasksSound
<1>17. ASSUME NEW step \in {"stop_all", "clear_stopping"}, StopAll(step) PROVE TasksSound'
  <2>1. ops \cap FreesBusyTree # {}
    BY <1>17 DEF StopAll, FreesBusyTree
  <2> QED BY <1>16, <1>17, <2>1 DEF StopAll
<1>18. ASSUME StopAllReturns PROVE TasksSound'
  <2>1. ops \cap FreesBusyTree # {}
    BY <1>18 DEF StopAllReturns, TasksSound, SingleTask
  <2> QED BY <1>18, <1>a, <2>1, TasksKept DEF StopAllReturns, tree_vars, task_vars
<1>19. ASSUME ClearAll \/ RemoveBranch PROVE TasksSound'
  BY <1>19, <1>a, TasksKept DEF ClearAll, RemoveBranch, task_vars
<1>20. ASSUME RemoveTree PROVE TasksSound'
  <2>1. ops \cap FreesBusyTree # {}
    BY <1>20 DEF RemoveTree, TasksSound, SingleTask
  <2>2. CASE registered
    BY <1>16, <1>20, <2>1, <2>2 DEF RemoveTree
  <2>3. CASE ~ registered
    BY <1>20, <1>a, <2>1, <2>3, TasksKept DEF RemoveTree
  <2> QED BY <2>2, <2>3
<1>21. ASSUME Restart PROVE TasksSound'
  <2>1. /\ \A m \in Node : phase'[m] \notin Live
        /\ cancelling' = {} /\ current_node_id' = NoNode /\ ~ is_processing'
        /\ command' = Idle
    BY <1>21 DEF Restart, Live
  <2> QED BY <2>1 DEF TasksSound, CancelSound, SingleTask, BusyHasWorker, Idle
<1>22. ASSUME UNCHANGED vars PROVE TasksSound'
  BY <1>22, TasksKept DEF vars, tree_vars, task_vars
<1> QED
  BY <1>1, <1>2, <1>3, <1>4, <1>5, <1>6, <1>7, <1>8, <1>9, <1>10, <1>11, <1>12, <1>13,
     <1>14, <1>15, <1>17, <1>18, <1>19, <1>20, <1>21, <1>22, Zenon
  DEF Next, TaskStep

LEMMA TasksCorrect == Spec => []TasksSound
<1>1. Init => TasksSound
  BY DEF Init, TasksSound, CancelSound, SingleTask, BusyHasWorker, Idle, Live
<1>2. TypeOK /\ (QueueSound /\ QueuedImpliesBusy) /\ TasksSound /\ [Next]_vars => TasksSound'
  BY TasksStep
<1>3. QueueSafe => QueueSound /\ QueuedImpliesBusy
  BY DEF QueueSafe
<1> QED BY <1>1, <1>2, <1>3, TypeCorrect, QueueCorrect, PTL DEF Spec

\* A busy tree has a task that will still run its finally clause, unless a reply command
\* beat the first step of that task; and unless a command frees a busy tree, no second
\* task is alive, not even one that unwinds (cancel_current_task, _process_next).
THEOREM WorkersCorrect == Spec => []WorkersSound
<1>1. TypeOK /\ TasksSound => WorkersSound
  BY DEF TasksSound, SingleTask, WorkersSound, OneTaskAtATime
<1> QED BY <1>1, TypeCorrect, TasksCorrect, PTL

-----------------------------------------------------------------------------
(* A stopped message stays stopped.                                         *)

LEMMA StoppedStep ==
  TypeOK /\ QueueSound /\ TasksSound /\ StoppedStaysStopped /\ [Next]_vars
    => StoppedStaysStopped'
<1> SUFFICES ASSUME TypeOK, QueueSound, TasksSound, StoppedStaysStopped, [Next]_vars
             PROVE  StoppedStaysStopped'
  OBVIOUS
<1>0. ops' = ops
  BY DEF Next, vars
<1> SUFFICES ASSUME ops \cap FreesBusyTree = {}
             PROVE  \A m \in stopping' : state'[m] = "error" /\ ~ Running(m)'
  BY <1>0 DEF StoppedStaysStopped, AtWork
<1> DEFINE Holds == \A m \in stopping' : state'[m] = "error" /\ ~ Running(m)'
<1>a. phase \in [Node -> Phase] /\ state \in [Node -> State] /\ stopping \subseteq Node
  BY DEF TypeOK
<1>b. \A m \in stopping : state[m] = "error" /\ ~ Running(m)
  BY <1>a DEF StoppedStaysStopped, AtWork
<1>c. \A S : \A m \in Node : (m \in S \/ state[m] = "error") => MarkError(S)[m] = "error"
  BY DEF MarkError
<1>d. \A n \in Node : \A m \in Node : state[m] = "error" => Failed(n)[m] = "error"
  BY <1>c DEF Failed
<1>e. \A n \in Node, s \in State : \A m \in Node :
        state[m] = "error" /\ (m # n \/ s = "error") => Updated(n, s)[m] = "error"
  BY <1>a DEF Updated
<1>1. ASSUME NEW m \in Node, NEW p \in Node \cup {NoNode}, Receive(m, p) PROVE Holds
  BY <1>1, <1>a, <1>b DEF Receive, Running
<1>2. ASSUME NEW m \in Node, Deliver(m) PROVE Holds
  BY <1>2, <1>a, <1>b DEF Deliver, Running
<1>3. ASSUME NEW m \in Node, IntakeFails(m) PROVE Holds
  BY <1>3, <1>a, <1>b DEF IntakeFails, Running, tree_vars
<1>4. ASSUME NEW n \in Node, TaskDiesUnstarted(n) PROVE Holds
  BY <1>4, <1>a, <1>b DEF TaskDiesUnstarted, Running, tree_vars
<1>5. ASSUME NEW n \in Node, phase[n] # "waiting", ProcessNext(n), stopping' = stopping,
             \A m \in Node \ {n} : m \in cancelling => m \in cancelling',
             \A m \in stopping : state'[m] = "error"
      PROVE  Holds
  <2>1. \A m \in Node : phase'[m] = "running" => phase[m] = "running" /\ m # n
    BY <1>5, ProcessNextTasks
  <2> QED BY <1>5, <1>a, <1>b, <2>1 DEF Running
<1>6. ASSUME NEW n \in Node, TaskSkips(n) PROVE Holds
  BY <1>5, <1>6, <1>b DEF TaskSkips
<1>7. ASSUME NEW n \in Node, TaskStarts(n) PROVE Holds
  <2>1. n \notin stopping
    BY <1>7, <1>b DEF TaskStarts
  <2>2. \A m \in stopping : state'[m] = "error"
    BY <1>7, <1>a, <1>b, <1>e, <2>1 DEF TaskStarts, State
  <2> QED BY <1>7, <1>a, <1>b, <2>1, <2>2 DEF TaskStarts, Running
<1>8. ASSUME NEW n \in Node, TaskFinishes(n) PROVE Holds
  BY <1>5, <1>8, <1>b DEF TaskFinishes
<1>9. ASSUME NEW n \in Node, SessionInfo(n) PROVE Holds
  <2>1. n \notin stopping
    BY <1>9, <1>b DEF SessionInfo
  <2>2. \A m \in stopping : state'[m] = "error"
    BY <1>9, <1>a, <1>b, <1>e, <2>1 DEF SessionInfo, State
  <2> QED BY <1>9, <1>a, <1>b, <2>2 DEF SessionInfo, Running
<1>10. ASSUME NEW n \in Node, ErrorEvent(n) PROVE Holds
  BY <1>10, <1>a, <1>b, <1>d DEF ErrorEvent, Running, task_vars
<1>11. ASSUME NEW n \in Node, NEW failed \in BOOLEAN, Exit(n, failed) PROVE Holds
  <2>1. n \notin stopping
    BY <1>11, <1>b DEF Exit
  <2>2. \A m \in stopping : state'[m] = "error"
    BY <1>11, <1>a, <1>b, <1>d, <2>1, Deriveds DEF Exit
  <2> QED BY <1>11, <1>a, <1>b, <2>2 DEF Exit, Running
<1>12. ASSUME NEW n \in Node, RunnerFails(n) PROVE Holds
  BY <1>12, <1>a, <1>b, <1>d DEF RunnerFails, Running
<1>13. ASSUME NEW n \in Node, RunnerRaises(n) PROVE Holds
  <2>1. \A m \in stopping : state'[m] = "error"
    BY <1>13, <1>a, <1>b, <1>e DEF RunnerRaises, State
  <2> QED BY <1>5, <1>13, <2>1 DEF RunnerRaises, Running
<1>14. ASSUME NEW n \in Node, CancelDelivered(n) PROVE Holds
  BY <1>14, <1>a, <1>b DEF CancelDelivered, Running, tree_vars
<1>15. ASSUME NEW n \in Node, CancelHandled(n) PROVE Holds
  <2>1. \A m \in stopping : state'[m] = "error"
    BY <1>15, <1>a, <1>b, <1>e DEF CancelHandled, State
  <2> QED BY <1>15, <1>a, <1>b, <2>1 DEF CancelHandled, Running
<1>16. ASSUME NEW n \in Node, StopNode(n) PROVE Holds
  <2>1. /\ stopping' = stopping \cup {n} /\ state' = MarkError({n}) /\ phase' = phase
        /\ cancelling' = IF current_node_id = n THEN Cancelled ELSE cancelling
    BY <1>16 DEF StopNode
  <2>2. cancelling \subseteq cancelling'
    BY <2>1 DEF Cancelled
  \* a node at work is the current one, and its task is cancelled
  <2>3. phase[n] = "running" => n \in cancelling'
    BY <2>1 DEF TasksSound, SingleTask, Cancelled, CurrentTaskAlive, Live, Node, NoNode
  <2> QED BY <1>a, <1>b, <1>c, <2>1, <2>2, <2>3 DEF Running
<1>17. ASSUME NEW n \in Node, CancelBranch(n) PROVE Holds
  <2>1. \E S : state' = MarkError(S)
    BY <1>17, Zenon DEF CancelBranch
  <2>2. phase' = phase /\ stopping' = stopping /\ cancelling \subseteq cancelling'
    BY <1>17 DEF CancelBranch, Cancelled
  <2> QED BY <1>a, <1>b, <1>c, <2>1, <2>2 DEF Running
<1>18. ASSUME NEW step \in {"stop_all", "clear_stopping"}, StopAll(step) PROVE Holds
  BY <1>18 DEF StopAll, FreesBusyTree
<1>19. ASSUME StopAllReturns \/ ClearAll \/ RemoveBranch PROVE Holds
  BY <1>19, <1>b DEF StopAllReturns, ClearAll, RemoveBranch, tree_vars, task_vars, Running
<1>20. ASSUME RemoveTree PROVE Holds
  BY <1>20 DEF RemoveTree, TasksSound, SingleTask
<1>21. ASSUME Restart PROVE Holds
  BY <1>21 DEF Restart
<1>22. ASSUME UNCHANGED vars PROVE Holds
  BY <1>22, <1>b DEF vars, tree_vars, task_vars, Running
<1> QED
  BY <1>1, <1>2, <1>3, <1>4, <1>6, <1>7, <1>8, <1>9, <1>10, <1>11, <1>12, <1>13, <1>14,
     <1>15, <1>16, <1>17, <1>18, <1>19, <1>20, <1>21, <1>22, Zenon
  DEF Next, TaskStep

\* What a reply "/stop" stopped ends in ERROR and Claude is not at work on it, whatever
\* its task still does (cancel_node, node_runner's CancelledError handler).
THEOREM StoppedCorrect == Spec => []StoppedStaysStopped
<1>1. Init => StoppedStaysStopped
  BY DEF Init, StoppedStaysStopped
<1>2. TypeOK /\ (QueueSound /\ QueuedImpliesBusy) /\ TasksSound /\ StoppedStaysStopped
        /\ [Next]_vars => StoppedStaysStopped'
  BY StoppedStep
<1>3. QueueSafe => QueueSound /\ QueuedImpliesBusy
  BY DEF QueueSafe
<1> QED BY <1>1, <1>2, <1>3, TypeCorrect, QueueCorrect, TasksCorrect, PTL DEF Spec

-----------------------------------------------------------------------------
(* The store agrees with the tree.                                          *)

\* What the nodes' phases say of the tree and of the store.
PhasesSound == Bookkeeping /\ CompletedAtTheEnd
\* What a restart finds.
StoreAgrees == StoredSound /\ RestartAgrees

\* save_tree: what was stored before does not matter.
LEMMA Saved ==
  ASSUME state \in [Node -> State], stored = Snapshot(state, nodes)
  PROVE  StoreAgrees
BY DEF StoreAgrees, StoredSound, RestartAgrees, Snapshot, State, Absent

\* Nothing is saved, and nothing completes or stops to be completed in the tree.
LEMMA Unsaved ==
  ASSUME StoreAgrees, nodes' = nodes, stored' = stored, registered' => registered,
         \A m \in Node : m \in nodes =>
           (state'[m] = "completed" <=> state[m] = "completed")
  PROVE  StoreAgrees'
BY DEF StoreAgrees, StoredSound, RestartAgrees, Absent

\* Nothing new comes into the tree or the store, and only the end of a run completes.
LEMMA PhasesKept ==
  ASSUME PhasesSound,
         \A m \in Node : m \in nodes' \/ stored'[m] # Absent
                           => m \in nodes \/ stored[m] # Absent,
         \A m \in Node : phase'[m] \in {"unborn", "intake"}
                           => phase[m] \in {"unborn", "intake"},
         nodes' \subseteq Node,
         \A m \in Node : state'[m] = "completed"
                           => state[m] = "completed" \/ phase'[m] \in {"removing", "done"},
         \A m \in Node : phase[m] \in {"removing", "done"}
                           => phase'[m] \in {"removing", "done"}
  PROVE  PhasesSound'
<1>1. CompletedAtTheEnd'
  BY DEF PhasesSound, CompletedAtTheEnd
<1>2. Bookkeeping'
  BY Nodes DEF PhasesSound, Bookkeeping
<1> QED BY <1>1, <1>2 DEF PhasesSound

LEMMA StoreStep ==
  TypeOK /\ QueueSound /\ PhasesSound /\ StoreAgrees /\ [Next]_vars
    => PhasesSound' /\ StoreAgrees'
<1> SUFFICES ASSUME TypeOK, TypeOK', QueueSound, PhasesSound, StoreAgrees, [Next]_vars
             PROVE  PhasesSound' /\ StoreAgrees'
  BY TypeStep
<1> DEFINE Ok == PhasesSound' /\ StoreAgrees'
<1>a. /\ phase \in [Node -> Phase] /\ state \in [Node -> State] /\ nodes \subseteq Node
      /\ state' \in [Node -> State] /\ nodes' \subseteq Node
  BY DEF TypeOK
<1>b. \A m \in Node : state[m] = "completed" => phase[m] \in {"removing", "done"}
  BY DEF PhasesSound, CompletedAtTheEnd
<1>c. \A st, S, m : m \in Node /\ Snapshot(st, S)[m] # Absent => m \in S
  BY DEF Snapshot
<1>d. \A S : \A m \in Node : MarkError(S)[m] =
                IF m \in S THEN "error" ELSE state[m]
  BY DEF MarkError
<1>e. \A n, m \in Node : \A s \in {"in_progress", "error"} :
        /\ Updated(n, s)[m] = "completed" => state[m] = "completed"
        /\ state[m] = "completed" /\ m # n => Updated(n, s)[m] = "completed"
  BY <1>a DEF Updated
<1>f. \A n, m \in Node : Failed(n)[m] = "completed" => state[m] = "completed"
  BY <1>d DEF Failed
<1>g. stored' = Snapshot(state', nodes') => StoreAgrees'
  <2>1. (state \in [Node -> State] /\ stored = Snapshot(state, nodes) => StoreAgrees)'
    BY Saved, PTL
  <2> QED BY <1>a, <2>1 DEF Snapshot
<1>1. ASSUME NEW m \in Node, NEW p \in Node \cup {NoNode}, Receive(m, p) PROVE Ok
  <2>1. StoreAgrees'
    BY <1>1, Unsaved DEF Receive
  <2>2. PhasesSound'
    BY <1>1, <1>a, PhasesKept DEF Receive
  <2> QED BY <2>1, <2>2
<1>2. ASSUME NEW m \in Node, Deliver(m) PROVE Ok
  <2>1. /\ phase[m] = "intake" /\ nodes' = nodes \cup {m} /\ state' = state
        /\ stored' = Snapshot(state, nodes \cup {m})
        /\ m = Root \/ parent[m] \in nodes
        /\ \/ phase' = [phase EXCEPT ![m] = "waiting"]
           \/ phase' = [phase EXCEPT ![m] = "created"]
    BY <1>2 DEF Deliver
  <2>2. StoreAgrees'
    BY <1>g, <2>1
  <2>3. CompletedAtTheEnd'
    BY <1>a, <1>b, <2>1 DEF CompletedAtTheEnd
  <2>4. phase'[m] \notin {"unborn", "intake"}
        /\ \A k \in Node \ {m} : phase'[k] = phase[k]
    BY <1>a, <2>1
  <2>5. phase'[Root] \notin {"unborn", "intake"}
    BY <2>1, <2>4, Nodes DEF PhasesSound, Bookkeeping
  <2>6. Bookkeeping'
    BY <1>c, <2>1, <2>4, <2>5 DEF PhasesSound, Bookkeeping
  <2> QED BY <2>2, <2>3, <2>6 DEF PhasesSound
<1>3. ASSUME NEW m \in Node, IntakeFails(m) PROVE Ok
  <2>1. StoreAgrees'
    BY <1>3, Unsaved DEF IntakeFails, tree_vars
  <2>2. PhasesSound'
    BY <1>3, <1>a, PhasesKept DEF IntakeFails, tree_vars
  <2> QED BY <2>1, <2>2
<1>4. ASSUME NEW n \in Node, TaskDiesUnstarted(n) PROVE Ok
  <2>1. StoreAgrees'
    BY <1>4, Unsaved DEF TaskDiesUnstarted, tree_vars
  <2>2. PhasesSound'
    BY <1>4, <1>a, PhasesKept DEF TaskDiesUnstarted, tree_vars
  <2> QED BY <2>1, <2>2
<1>5. ASSUME NEW n \in Node, phase[n] # "waiting", ProcessNext(n),
             nodes' = nodes, stored' = stored, registered' = registered,
             \A m \in Node : state'[m] = "completed" <=> state[m] = "completed",
             phase[n] \notin {"unborn", "intake"}
      PROVE  Ok
  <2>1. StoreAgrees'
    BY <1>5, Unsaved
  <2>2. \A m \in Node :
          /\ phase'[m] \in {"unborn", "intake"} => phase[m] \in {"unborn", "intake"}
          /\ phase[m] \in {"removing", "done"} => phase'[m] \in {"removing", "done"}
    BY <1>5, ProcessNextTasks
  <2>3. PhasesSound'
    BY <1>5, <1>a, <2>2, PhasesKept
  <2> QED BY <2>1, <2>3
<1>6. ASSUME NEW n \in Node, TaskSkips(n) PROVE Ok
  BY <1>5, <1>6 DEF TaskSkips
<1>7. ASSUME NEW n \in Node, TaskStarts(n) PROVE Ok
  <2>1. phase' = [phase EXCEPT ![n] = "running"] /\ phase[n] = "created"
        /\ nodes' = nodes /\ stored' = stored /\ registered' = registered
        /\ state' \in {state, Updated(n, "in_progress")}
    BY <1>7 DEF TaskStarts
  <2>2. \A m \in Node : state'[m] = "completed" <=> state[m] = "completed"
    BY <1>b, <1>e, <2>1
  <2>3. StoreAgrees'
    BY <2>1, <2>2, Unsaved
  <2>4. PhasesSound'
    BY <1>a, <2>1, <2>2, PhasesKept
  <2> QED BY <2>3, <2>4
<1>8. ASSUME NEW n \in Node, TaskFinishes(n) PROVE Ok
  BY <1>5, <1>8 DEF TaskFinishes
<1>9. ASSUME NEW n \in Node, NEW p \in {phase[n], "removing"},
             phase[n] \in {"running", "unwinding"},
             phase' = [phase EXCEPT ![n] = p], nodes' = nodes, registered' = registered,
             \A m \in Node : state'[m] = "completed" =>
               state[m] = "completed" \/ (m = n /\ p = "removing"),
             \/ stored' = Snapshot(state', nodes)
             \/ stored' = stored /\ \A m \in nodes :
                   state'[m] = "completed" <=> state[m] = "completed"
      PROVE  Ok
  <2>1. CASE stored' = Snapshot(state', nodes)
    <3>1. StoreAgrees'
      BY <1>9, <1>g, <2>1
    <3>2. PhasesSound'
      BY <1>9, <1>a, <1>c, <2>1, PhasesKept
    <3> QED BY <3>1, <3>2
  <2>2. CASE stored' = stored /\ \A m \in nodes :
               state'[m] = "completed" <=> state[m] = "completed"
    <3>1. StoreAgrees'
      BY <1>9, <2>2, Unsaved
    <3>2. PhasesSound'
      BY <1>9, <1>a, <2>2, PhasesKept
    <3> QED BY <3>1, <3>2
  <2> QED BY <1>9, <2>1, <2>2
<1>10. ASSUME NEW n \in Node, SessionInfo(n) \/ ErrorEvent(n) PROVE Ok
  <2>1. /\ phase[n] = "running" /\ nodes' = nodes /\ registered' = registered
        /\ phase' = phase
        /\ \/ state' \in {Updated(n, "in_progress"), Failed(n)}
              /\ stored' = Snapshot(state', nodes)
           \/ state' = state /\ stored' = stored
    BY <1>10 DEF SessionInfo, ErrorEvent, Running, task_vars
  <2>2. phase' = [phase EXCEPT ![n] = phase[n]]
    BY <1>a, <2>1
  <2>3. \A m \in Node : state'[m] = "completed" => state[m] = "completed"
    BY <1>e, <1>f, <2>1
  <2> QED BY <1>9, <2>1, <2>2, <2>3
<1>11. ASSUME NEW n \in Node, NEW failed \in BOOLEAN, Exit(n, failed) PROVE Ok
  <2> DEFINE st == IF failed THEN Failed(n) ELSE state
             completes == n \in attached /\ n \in captured
  <2>1. /\ phase[n] = "running" /\ nodes' = nodes /\ registered' = registered
        /\ phase' = [phase EXCEPT ![n] = "removing"]
        /\ state' = IF completes /\ n \in nodes THEN [st EXCEPT ![n] = "completed"] ELSE st
        /\ stored' = IF completes \/ (failed /\ CanFail(n))
                     THEN Snapshot(state', nodes) ELSE stored
    BY <1>11 DEF Exit, Running
  <2>2. \A m \in Node : st[m] = "completed" => state[m] = "completed"
    BY <1>f
  <2>3. st \in [Node -> State]
    BY <1>a, Deriveds
  <2>4. \A m \in Node : state'[m] = "completed" => state[m] = "completed" \/ m = n
    BY <2>1, <2>2, <2>3
  <2>5. CASE stored' = Snapshot(state', nodes)
    BY <1>9, <2>1, <2>4, <2>5
  <2>6. CASE ~ completes /\ ~ (failed /\ CanFail(n))
    <3>1. state' = state /\ stored' = stored
      BY <2>1, <2>6 DEF Failed
    <3> QED BY <1>9, <2>1, <3>1
  <2> QED BY <2>1, <2>5, <2>6
<1>12. ASSUME NEW n \in Node, RunnerFails(n) PROVE Ok
  <2>1. /\ phase[n] = "running" /\ nodes' = nodes /\ registered' = registered
        /\ phase' = [phase EXCEPT ![n] = "removing"] /\ state' = Failed(n)
        /\ stored' = IF CanFail(n) THEN Snapshot(state', nodes) ELSE stored
    BY <1>12 DEF RunnerFails, Running
  <2>2. ~ CanFail(n) => state' = state
    BY <2>1 DEF Failed
  <2> QED BY <1>9, <1>f, <2>1, <2>2
<1>13. ASSUME NEW n \in Node, RunnerRaises(n) PROVE Ok
  <2>1. phase[n] = "running" /\ state' = Updated(n, "error")
    BY <1>13 DEF RunnerRaises, Running
  <2>2. \A m \in Node : state'[m] = "completed" <=> state[m] = "completed"
    BY <1>b, <1>e, <2>1
  <2> QED BY <1>5, <1>13, <2>1, <2>2 DEF RunnerRaises
<1>14. ASSUME NEW n \in Node, CancelDelivered(n) PROVE Ok
  <2>1. StoreAgrees'
    BY <1>14, Unsaved DEF CancelDelivered, tree_vars
  <2>2. PhasesSound'
    BY <1>14, <1>a, PhasesKept DEF CancelDelivered, tree_vars
  <2> QED BY <2>1, <2>2
<1>15. ASSUME NEW n \in Node, CancelHandled(n) PROVE Ok
  <2>1. /\ phase[n] = "unwinding" /\ nodes' = nodes /\ registered' = registered
        /\ phase' = [phase EXCEPT ![n] = "removing"]
        /\ \/ state' = Updated(n, "error") /\ stored' = Snapshot(state', nodes)
           \/ state' = state /\ stored' = stored
    BY <1>15 DEF CancelHandled
  <2> QED BY <1>9, <1>e, <2>1
<1>16. ASSUME phase' = phase, nodes' = nodes,
              NEW S, state' = MarkError(S), \A m \in S \cap Node : state[m] # "completed",
              registered' => registered,
              \/ stored' = Snapshot(state', nodes)
              \/ stored' = stored
              \/ stored' = [m \in Node |-> Absent] /\ ~ registered'
       PROVE  Ok
  <2>1. \A m \in Node : state'[m] = "completed" <=> state[m] = "completed"
    BY <1>16, <1>d
  <2>2. StoreAgrees'
    BY <1>16, <1>g, <2>1, Unsaved DEF StoreAgrees, StoredSound, RestartAgrees
  <2>3. \A m \in Node : stored'[m] # Absent => m \in nodes \/ stored[m] # Absent
    BY <1>16, <1>c
  <2>4. PhasesSound'
    BY <1>16, <1>a, <2>1, <2>3, PhasesKept
  <2> QED BY <2>2, <2>4
<1>17. ASSUME NEW n \in Node, StopNode(n) PROVE Ok
  BY <1>16, <1>17 DEF StopNode, Terminal
<1>18. ASSUME NEW n \in Node, CancelBranch(n) PROVE Ok
  <2> DEFINE hit == {m \in Descendants(n) : state[m] \notin Terminal}
  <2>1. /\ state' = MarkError(hit) /\ phase' = phase /\ nodes' = nodes
        /\ registered' = registered
        /\ stored' = Snapshot(state', nodes) \/ stored' = stored
    BY <1>18 DEF CancelBranch
  <2>2. \A m \in hit : state[m] # "completed"
    BY DEF Terminal
  <2> QED BY <1>16, <2>1, <2>2
<1>19. ASSUME CancelTree
       PROVE  /\ state' = MarkError({m \in nodes : m \in Queued \/ state[m] \notin Terminal})
              /\ \A m \in {m \in nodes : m \in Queued \/ state[m] \notin Terminal} :
                   state[m] # "completed"
  <2>1. \A m \in Queued : phase[m] = "waiting"
    BY DEF QueueSound, Queued
  <2> QED BY <1>19, <1>a, <1>b, <2>1 DEF CancelTree, Terminal
<1>20. ASSUME NEW step \in {"stop_all", "clear_stopping"}, StopAll(step) PROVE Ok
  BY <1>16, <1>19, <1>20 DEF StopAll
<1>21. ASSUME StopAllReturns PROVE Ok
  <2>1. state' = MarkError({}) /\ nodes' = nodes /\ registered' = registered
        /\ phase' = phase /\ (stored' = Snapshot(state', nodes) \/ stored' = stored)
    BY <1>21, <1>a DEF StopAllReturns, tree_vars, task_vars, MarkError
  <2> QED BY <1>16, <2>1
<1>22. ASSUME ClearAll PROVE Ok
  <2>1. state' = MarkError({}) /\ nodes' = nodes /\ ~ registered' /\ phase' = phase
        /\ stored' = [m \in Node |-> Absent]
    BY <1>22, <1>a DEF ClearAll, task_vars, MarkError
  <2> QED BY <1>16, <2>1
<1>23. ASSUME RemoveBranch PROVE Ok
  <2>1. /\ state' = state /\ registered' = registered /\ phase' = phase
        /\ nodes' \subseteq nodes
        /\ \/ stored' = Snapshot(state', nodes')
           \/ nodes' = nodes /\ stored' = stored
    BY <1>23 DEF RemoveBranch, task_vars
  <2>2. StoreAgrees'
    BY <1>g, <2>1, Unsaved
  <2>3. PhasesSound'
    BY <1>a, <1>c, <2>1, PhasesKept
  <2> QED BY <2>2, <2>3
<1>24. ASSUME RemoveTree PROVE Ok
  <2>1. CASE registered
    BY <1>16, <1>19, <1>24, <2>1 DEF RemoveTree
  <2>2. CASE ~ registered
    <3>1. state' = MarkError({}) /\ nodes' = nodes /\ registered' = registered
          /\ phase' = phase /\ stored' = stored
      BY <1>24, <1>a, <2>2 DEF RemoveTree, MarkError
    <3> QED BY <1>16, <3>1
  <2> QED BY <2>1, <2>2
<1>25. ASSUME Restart PROVE Ok
  <2>1. /\ nodes' = {m \in Node : stored[m] # Absent}
        /\ \A m \in Node : state'[m] =
             IF m \in nodes' /\ stored[m] \notin Terminal THEN "error"
             ELSE IF m \in nodes' THEN stored[m] ELSE state[m]
        /\ stored' = Snapshot(state', nodes')
        /\ \A m \in Node : phase'[m] = IF phase[m] = "unborn" THEN "unborn" ELSE "done"
    BY <1>25 DEF Restart
  <2>2. StoreAgrees'
    BY <1>g, <2>1
  <2>3. \A m \in Node : state'[m] = "completed" => state[m] = "completed"
    BY <2>1 DEF StoreAgrees, StoredSound
  <2>4. \A m \in Node : m \in nodes' \/ stored'[m] # Absent => stored[m] # Absent
    BY <1>c, <2>1
  <2>5. PhasesSound'
    BY <1>a, <2>1, <2>3, <2>4, PhasesKept
  <2> QED BY <2>2, <2>5
<1>26. ASSUME UNCHANGED vars PROVE Ok
  <2>1. StoreAgrees'
    BY <1>26, Unsaved DEF vars, tree_vars
  <2>2. PhasesSound'
    BY <1>26, <1>a, PhasesKept DEF vars, tree_vars, task_vars
  <2> QED BY <2>1, <2>2
<1> QED
  BY <1>1, <1>2, <1>3, <1>4, <1>6, <1>7, <1>8, <1>10, <1>11, <1>12, <1>13, <1>14, <1>15,
     <1>17, <1>18, <1>20, <1>21, <1>22, <1>23, <1>24, <1>25, <1>26, Zenon
  DEF Next, TaskStep

LEMMA StoreCorrect == Spec => [](PhasesSound /\ StoreAgrees)
<1>1. Init => PhasesSound /\ StoreAgrees
  BY DEF Init, PhasesSound, Bookkeeping, CompletedAtTheEnd, StoreAgrees, StoredSound,
         RestartAgrees
<1>2. TypeOK /\ (QueueSound /\ QueuedImpliesBusy) /\ (PhasesSound /\ StoreAgrees)
        /\ [Next]_vars => (PhasesSound /\ StoreAgrees)'
  BY StoreStep
<1>3. QueueSafe => QueueSound /\ QueuedImpliesBusy
  BY DEF QueueSafe
<1> QED BY <1>1, <1>2, <1>3, TypeCorrect, QueueCorrect, PTL DEF Spec

\* Whatever is saved when, a restart finds exactly the nodes of the tree and neither
\* loses a completed answer nor invents one (save_tree, remove_branch, from_dict).
THEOREM RestartCorrect == Spec => []RestartAgrees
<1>1. PhasesSound /\ StoreAgrees => RestartAgrees
  BY DEF StoreAgrees
<1> QED BY <1>1, StoreCorrect, PTL

-----------------------------------------------------------------------------
(* No message is forgotten.                                                 *)

\* The queue and the tasks that did not start stay as they are, and no node of the tree
\* becomes pending.
LEMMA OrphansKept ==
  ASSUME TypeOK, NoOrphan, registered' => registered, nodes' \subseteq nodes,
         queue' = queue,
         \A m \in Node : state'[m] = "pending" => state[m] = "pending",
         \A m \in Node : m \in nodes' /\ state'[m] = "pending" /\ phase[m] = "created"
                         => phase'[m] = "created"
  PROVE  NoOrphan'
BY DEF NoOrphan, Queued, TypeOK

\* Nodes leave the queue with an error.
LEMMA OrphansRemoved ==
  ASSUME TypeOK, NoOrphan, registered' = registered, nodes' = nodes, phase' = phase,
         NEW S, state' = MarkError(S), NEW R \in SUBSET S, RemoveFromQueue(R)
  PROVE  NoOrphan'
<1>1. \A q \in Queued \ R : q \in Queued'
  <2>1. queue \in Seq(Node)
    BY DEF TypeOK
  <2>2. \A q \in Queued \ R : \E i \in DOMAIN queue' : queue'[i] = q
    BY <2>1, RemoveFromQueueKeeps
  <2> QED BY <2>2 DEF Queued
<1>2. \A m \in nodes : state'[m] = "pending" => state[m] = "pending" /\ m \notin S
  BY DEF TypeOK, MarkError
<1> QED BY <1>1, <1>2 DEF NoOrphan

\* The end of a task whose node is not pending, with _process_next.
LEMMA OrphansProcessNext ==
  ASSUME TypeOK, QueueSound, NoOrphan, NEW n \in Node, phase[n] # "waiting",
         ProcessNext(n), registered' = registered, nodes' = nodes,
         \A m \in Node : state'[m] = "pending" => state[m] = "pending" /\ m # n
  PROVE  NoOrphan'
<1> SUFFICES ASSUME registered, NEW m \in nodes, state'[m] = "pending"
             PROVE  m \in Queued' \/ phase'[m] = "created"
  BY DEF NoOrphan
<1>1. m \in Node /\ m # n /\ (m \in Queued \/ phase[m] = "created")
  BY DEF TypeOK, NoOrphan
<1> QED BY <1>1, ProcessNextTasks

LEMMA OrphanStep ==
  TypeOK /\ QueueSound /\ TasksSound /\ PhasesSound /\ NoOrphan /\ [Next]_vars => NoOrphan'
<1> SUFFICES ASSUME TypeOK, QueueSound, TasksSound, PhasesSound, NoOrphan, [Next]_vars
             PROVE  NoOrphan'
  OBVIOUS
<1>a. phase \in [Node -> Phase] /\ state \in [Node -> State] /\ nodes \subseteq Node
      /\ queue \in Seq(Node)
  BY DEF TypeOK
<1>b. \A S : \A m \in Node : MarkError(S)[m] = "pending"
                 => state[m] = "pending" /\ m \notin S
  BY DEF MarkError
<1>c. \A n, m \in Node : \A s \in {"in_progress", "error"} :
        Updated(n, s)[m] = "pending" => state[m] = "pending" /\ (n \in nodes => m # n)
  BY <1>a DEF Updated
<1>d. \A n, m \in Node : Failed(n)[m] = "pending" => state[m] = "pending"
  BY <1>b DEF Failed
<1>e. \A m \in Queued : phase[m] = "waiting"
  BY DEF QueueSound, Queued
<1>1. ASSUME NEW m \in Node, NEW p \in Node \cup {NoNode}, Receive(m, p) PROVE NoOrphan'
  BY <1>1, <1>a, OrphansKept DEF Receive
<1>2. ASSUME NEW m \in Node, Deliver(m) PROVE NoOrphan'
  <2>1. /\ phase[m] = "intake" /\ nodes' = nodes \cup {m} /\ state' = state
        /\ m = Root \/ (registered /\ parent[m] \in nodes)
        /\ \/ queue' = Append(queue, m) /\ phase' = [phase EXCEPT ![m] = "waiting"]
           \/ queue' = queue /\ phase' = [phase EXCEPT ![m] = "created"]
    BY <1>2 DEF Deliver
  <2>2. m \in Queued' \/ phase'[m] = "created"
    <3>1. CASE queue' = Append(queue, m)
      <4>1. Len(queue) + 1 \in DOMAIN queue' /\ queue'[Len(queue) + 1] = m
        BY <1>a, <3>1
      <4> QED BY <4>1 DEF Queued
    <3>2. CASE phase' = [phase EXCEPT ![m] = "created"]
      BY <1>a, <3>2
    <3> QED BY <2>1, <3>1, <3>2
  <2>3. Queued \subseteq Queued'
    BY <1>a, <2>1 DEF Queued
  <2>4. \A k \in Node : phase[k] = "created" => phase'[k] = "created"
    BY <1>a, <2>1
  <2>5. registered \/ nodes = {}
    BY <2>1 DEF PhasesSound, Bookkeeping
  <2> QED BY <1>a, <2>1, <2>2, <2>3, <2>4, <2>5 DEF NoOrphan
<1>3. ASSUME NEW m \in Node, IntakeFails(m) PROVE NoOrphan'
  BY <1>3, <1>a, OrphansKept DEF IntakeFails, tree_vars
<1>4. ASSUME NEW n \in Node, TaskDiesUnstarted(n) PROVE NoOrphan'
  <2>1. n \in nodes => state[n] # "pending"
    BY <1>4 DEF TaskDiesUnstarted, TasksSound, CancelSound
  <2> QED BY <1>4, <1>a, <2>1, OrphansKept DEF TaskDiesUnstarted, tree_vars
<1>5. ASSUME NEW n \in Node, TaskSkips(n) PROVE NoOrphan'
  BY <1>5, OrphansProcessNext DEF TaskSkips
<1>6. ASSUME NEW n \in Node, TaskStarts(n) PROVE NoOrphan'
  <2>1. phase' = [phase EXCEPT ![n] = "running"] /\ nodes' = nodes /\ queue' = queue
        /\ registered' = registered
        /\ state' = IF registered /\ n \in nodes THEN Updated(n, "in_progress") ELSE state
    BY <1>6 DEF TaskStarts
  <2>2. CASE registered
    BY <1>a, <1>c, <2>1, <2>2, OrphansKept
  <2>3. CASE ~ registered
    BY <2>1, <2>3 DEF NoOrphan
  <2> QED BY <2>2, <2>3
<1>7. ASSUME NEW n \in Node, NEW r \in {"running", "removing"}, phase[n] = r,
             ProcessNext(n), nodes' = nodes, registered' = registered,
             state' \in {state, Updated(n, "error")}
      PROVE  NoOrphan'
  <2>1. registered /\ n \in nodes => state[n] # "pending"
    BY <1>7, <1>e DEF NoOrphan
  <2>2. \A m \in Node : state'[m] = "pending" => state[m] = "pending"
    BY <1>7, <1>c
  <2>3. CASE registered
    <3> SUFFICES ASSUME NEW m \in nodes, state'[m] = "pending"
                 PROVE  m \in Queued' \/ phase'[m] = "created"
      BY <1>7 DEF NoOrphan
    <3>1. m \in Node /\ m # n /\ (m \in Queued \/ phase[m] = "created")
      BY <1>a, <2>1, <2>2, <2>3 DEF NoOrphan
    <3> QED BY <1>7, <3>1, ProcessNextTasks
  <2>4. CASE ~ registered
    BY <1>7, <2>4 DEF NoOrphan
  <2> QED BY <2>3, <2>4
<1>8. ASSUME NEW n \in Node, TaskFinishes(n) PROVE NoOrphan'
  BY <1>7, <1>8 DEF TaskFinishes
<1>9. ASSUME NEW n \in Node, SessionInfo(n) \/ ErrorEvent(n) PROVE NoOrphan'
  <2>1. \A m \in Node : state'[m] = "pending" => state[m] = "pending"
    BY <1>9, <1>c, <1>d DEF SessionInfo, ErrorEvent
  <2> QED BY <1>9, <2>1, OrphansKept DEF SessionInfo, ErrorEvent, task_vars
<1>10. ASSUME NEW n \in Node, NEW failed \in BOOLEAN, Exit(n, failed) PROVE NoOrphan'
  <2>1. \A m \in Node : state'[m] = "pending" => state[m] = "pending"
    BY <1>10, <1>a, <1>d, Deriveds DEF Exit
  <2> QED BY <1>10, <1>a, <2>1, OrphansKept DEF Exit, Running
<1>11. ASSUME NEW n \in Node, RunnerFails(n) PROVE NoOrphan'
  BY <1>11, <1>a, <1>d, OrphansKept DEF RunnerFails, Running
<1>12. ASSUME NEW n \in Node, RunnerRaises(n) PROVE NoOrphan'
  BY <1>7, <1>12 DEF RunnerRaises, Running
<1>13. ASSUME NEW n \in Node, CancelDelivered(n) PROVE NoOrphan'
  BY <1>13, <1>a, OrphansKept DEF CancelDelivered, tree_vars
<1>14. ASSUME NEW n \in Node, CancelHandled(n) PROVE NoOrphan'
  <2>1. \A m \in Node : state'[m] = "pending" => state[m] = "pending"
    BY <1>14, <1>c DEF CancelHandled
  <2> QED BY <1>14, <1>a, <2>1, OrphansKept DEF CancelHandled
<1>15. ASSUME NEW n \in Node, StopNode(n) PROVE NoOrphan'
  BY <1>15, OrphansRemoved DEF StopNode
<1>16. ASSUME NEW n \in Node, CancelBranch(n) PROVE NoOrphan'
  <2> DEFINE hit == {m \in Descendants(n) : state[m] \notin Terminal}
  <2>1. /\ RemoveFromQueue(hit \ {current_node_id}) /\ state' = MarkError(hit)
        /\ registered' = registered /\ nodes' = nodes /\ phase' = phase
    BY <1>16 DEF CancelBranch
  <2>2. hit \ {current_node_id} \in SUBSET hit
    OBVIOUS
  <2> HIDE DEF hit
  <2> QED BY <2>1, <2>2, OrphansRemoved
<1>17. ASSUME CancelTree, nodes' = nodes PROVE NoOrphan'
  <2>1. state' = MarkError({m \in nodes : m \in Queued \/ state[m] \notin Terminal})
    BY <1>17 DEF CancelTree
  <2>2. \A m \in nodes : state'[m] # "pending"
    BY <1>a, <1>b, <2>1 DEF Terminal
  <2> QED BY <1>17, <2>2 DEF NoOrphan
<1>18. ASSUME NEW step \in {"stop_all", "clear_stopping"}, StopAll(step) PROVE NoOrphan'
  BY <1>17, <1>18 DEF StopAll
<1>19. ASSUME StopAllReturns \/ ClearAll \/ RemoveBranch PROVE NoOrphan'
  BY <1>19, OrphansKept DEF StopAllReturns, ClearAll, RemoveBranch, tree_vars, task_vars
<1>20. ASSUME RemoveTree PROVE NoOrphan'
  BY <1>17, <1>20, OrphansKept DEF RemoveTree
<1>21. ASSUME Restart PROVE NoOrphan'
  <2>1. \A m \in nodes' : state'[m] # "pending"
    BY <1>21 DEF Restart, Terminal
  <2> QED BY <2>1 DEF NoOrphan
<1>22. ASSUME UNCHANGED vars PROVE NoOrphan'
  BY <1>22, OrphansKept DEF vars, tree_vars, task_vars
<1> QED
  BY <1>1, <1>2, <1>3, <1>4, <1>5, <1>6, <1>8, <1>9, <1>10, <1>11, <1>12, <1>13, <1>14,
     <1>15, <1>16, <1>18, <1>19, <1>20, <1>21, <1>22, Zenon
  DEF Next, TaskStep

\* While its tree is not cleared, a node that is still PENDING is queued or has a task
\* that did not start: no cancel, skip or restart forgets a message (manager.py,
\* processor.py).
THEOREM OrphanCorrect == Spec => []NoOrphan
<1>1. Init => NoOrphan
  BY DEF Init, NoOrphan
<1>2. TypeOK /\ (QueueSound /\ QueuedImpliesBusy) /\ TasksSound
        /\ (PhasesSound /\ StoreAgrees) /\ NoOrphan /\ [Next]_vars => NoOrphan'
  BY OrphanStep
<1>3. QueueSafe => QueueSound /\ QueuedImpliesBusy
  BY DEF QueueSafe
<1> QED
  BY <1>1, <1>2, <1>3, TypeCorrect, QueueCorrect, TasksCorrect, StoreCorrect, PTL DEF Spec

-----------------------------------------------------------------------------
(* What a step may never do.                                                *)

\* What the steps below start from.
TreeSound ==
  TypeOK /\ (QueueSound /\ QueuedImpliesBusy) /\ TasksSound /\ (PhasesSound /\ StoreAgrees)

LEMMA TreeCorrect == Spec => []TreeSound
<1>1. QueueSafe => QueueSound /\ QueuedImpliesBusy
  BY DEF QueueSafe
<1> QED BY <1>1, TypeCorrect, QueueCorrect, TasksCorrect, StoreCorrect, PTL DEF TreeSound

LEMMA FinalStep ==
  TreeSound /\ [Next]_vars
    => \A n \in Node : state[n] = "completed" => state'[n] = "completed"
<1> SUFFICES ASSUME TreeSound, [Next]_vars, NEW c \in Node, state[c] = "completed"
             PROVE  state'[c] = "completed"
  OBVIOUS
<1>a. /\ state \in [Node -> State] /\ phase[c] \in {"removing", "done"}
      /\ (stored[c] # Absent => stored[c] = "completed")
  BY DEF TreeSound, TypeOK, PhasesSound, CompletedAtTheEnd, StoreAgrees, StoredSound
<1>b. \A S : c \notin S => MarkError(S)[c] = "completed"
  BY DEF MarkError
<1>c. \A n \in Node \ {c} : \A s \in State : Updated(n, s)[c] = "completed"
  BY <1>a DEF Updated
<1>d. \A n \in Node \ {c} : Failed(n)[c] = "completed"
  BY <1>b DEF Failed, PendingBelow
<1>1. ASSUME NEW m \in Node, NEW p \in Node \cup {NoNode}, Receive(m, p)
      PROVE  state'[c] = "completed"
  BY <1>1 DEF Receive
<1>2. ASSUME NEW m \in Node, Deliver(m) \/ IntakeFails(m) PROVE state'[c] = "completed"
  BY <1>2 DEF Deliver, IntakeFails, tree_vars
<1>3. ASSUME NEW n \in Node, TaskDiesUnstarted(n) \/ TaskSkips(n) \/ TaskFinishes(n)
                              \/ CancelDelivered(n)
      PROVE  state'[c] = "completed"
  BY <1>3 DEF TaskDiesUnstarted, TaskSkips, TaskFinishes, CancelDelivered, tree_vars
<1>4. ASSUME NEW n \in Node, TaskStarts(n) PROVE state'[c] = "completed"
  BY <1>4, <1>a, <1>c DEF TaskStarts, State
<1>5. ASSUME NEW n \in Node,
             \/ SessionInfo(n) \/ ErrorEvent(n) \/ RunnerFails(n) \/ RunnerRaises(n)
             \/ CancelHandled(n)
      PROVE  state'[c] = "completed"
  <2>1. n # c
    BY <1>5, <1>a DEF SessionInfo, ErrorEvent, RunnerFails, RunnerRaises, CancelHandled,
                      Running
  <2>2. state' \in {state, Updated(n, "in_progress"), Updated(n, "error"), Failed(n)}
    BY <1>5 DEF SessionInfo, ErrorEvent, RunnerFails, RunnerRaises, CancelHandled
  <2> QED BY <1>c, <1>d, <2>1, <2>2 DEF State
<1>6. ASSUME NEW n \in Node, NEW failed \in BOOLEAN, Exit(n, failed)
      PROVE  state'[c] = "completed"
  <2>1. n # c
    BY <1>6, <1>a DEF Exit, Running
  <2>2. TypeOK
    BY DEF TreeSound
  <2> QED BY <1>6, <1>a, <1>d, <2>1, <2>2, Deriveds DEF Exit
<1>7. ASSUME NEW n \in Node, StopNode(n) PROVE state'[c] = "completed"
  BY <1>7, <1>b DEF StopNode, Terminal
<1>8. ASSUME NEW n \in Node, CancelBranch(n) PROVE state'[c] = "completed"
  BY <1>8, <1>b DEF CancelBranch, Terminal
<1>9. ASSUME CancelTree PROVE state'[c] = "completed"
  \* a queued node did not start
  <2>1. c \notin Queued
    BY <1>a DEF TreeSound, QueueSound, Queued
  <2> QED BY <1>9, <1>b, <2>1 DEF CancelTree, Terminal
<1>10. ASSUME NEW step \in {"stop_all", "clear_stopping"}, StopAll(step)
       PROVE  state'[c] = "completed"
  BY <1>9, <1>10 DEF StopAll
<1>11. ASSUME StopAllReturns \/ ClearAll \/ RemoveBranch PROVE state'[c] = "completed"
  BY <1>11 DEF StopAllReturns, ClearAll, RemoveBranch, tree_vars
<1>12. ASSUME RemoveTree PROVE state'[c] = "completed"
  BY <1>9, <1>12 DEF RemoveTree
<1>13. ASSUME Restart PROVE state'[c] = "completed"
  BY <1>13, <1>a DEF Restart, Terminal
<1>14. ASSUME UNCHANGED vars PROVE state'[c] = "completed"
  BY <1>14 DEF vars, tree_vars
<1> QED
  BY <1>1, <1>2, <1>3, <1>4, <1>5, <1>6, <1>7, <1>8, <1>10, <1>11, <1>12, <1>13, <1>14,
     Zenon
  DEF Next, TaskStep

\* No later error, stop, clear or restart takes an answer back (update_state,
\* cancel_tree, cleanup_stale_nodes).
THEOREM FinalCorrect == Spec => CompletedIsFinal
<1>1. TreeSound /\ [Next]_vars
        => [\A n \in Node : state[n] = "completed" => state'[n] = "completed"]_vars
  BY FinalStep
<1> QED BY <1>1, TreeCorrect, PTL DEF Spec, CompletedIsFinal

\* What was in the tree and is not is not in the store, and comes back into neither.
LEMMA RemovedStep ==
  TreeSound /\ [Next]_vars
    => \A n \in Node : phase[n] \notin {"unborn", "intake"} /\ n \notin nodes
                       => n \notin nodes' /\ stored'[n] = Absent
<1> SUFFICES ASSUME TreeSound, [Next]_vars, NEW r \in Node,
                    phase[r] \notin {"unborn", "intake"}, r \notin nodes
             PROVE  r \notin nodes' /\ stored'[r] = Absent
  OBVIOUS
<1> DEFINE Ok == r \notin nodes' /\ stored'[r] = Absent
<1>a. stored[r] = Absent
  BY DEF TreeSound, StoreAgrees, StoredSound
<1>b. \A st, S : r \notin S => Snapshot(st, S)[r] = Absent
  BY DEF Snapshot
<1>1. ASSUME NEW m \in Node, NEW p \in Node \cup {NoNode}, Receive(m, p) PROVE Ok
  BY <1>1, <1>a DEF Receive
<1>2. ASSUME NEW m \in Node, Deliver(m) \/ IntakeFails(m) PROVE Ok
  BY <1>2, <1>a, <1>b DEF Deliver, IntakeFails, tree_vars
<1>3. ASSUME NEW n \in Node, TaskStep(n) PROVE Ok
  BY <1>3, <1>a, <1>b DEF TaskStep, TaskDiesUnstarted, TaskSkips, TaskStarts, TaskFinishes,
     RunnerFails, RunnerRaises, CancelDelivered, CancelHandled, Exit, tree_vars
<1>4. ASSUME NEW n \in Node, SessionInfo(n) \/ ErrorEvent(n) PROVE Ok
  BY <1>4, <1>a, <1>b DEF SessionInfo, ErrorEvent
<1>5. ASSUME NEW n \in Node, StopNode(n) \/ CancelBranch(n) PROVE Ok
  BY <1>5, <1>a, <1>b DEF StopNode, CancelBranch
<1>6. ASSUME NEW step \in {"stop_all", "clear_stopping"}, StopAll(step) PROVE Ok
  BY <1>6, <1>a DEF StopAll
<1>7. ASSUME StopAllReturns \/ ClearAll \/ RemoveBranch \/ RemoveTree PROVE Ok
  BY <1>7, <1>a, <1>b DEF StopAllReturns, ClearAll, RemoveBranch, RemoveTree, tree_vars
<1>8. ASSUME Restart PROVE Ok
  BY <1>8, <1>a, <1>b DEF Restart
<1>9. ASSUME UNCHANGED vars PROVE Ok
  BY <1>9, <1>a DEF vars, tree_vars
<1> QED
  BY <1>1, <1>2, <1>3, <1>4, <1>5, <1>6, <1>7, <1>8, <1>9, Zenon DEF Next

\* No unwinding task, late event or restart brings a removed node back into the tree or
\* into the store (remove_branch; the saves of node_event_pipeline, node_runner).
THEOREM RemovedCorrect == Spec => RemovedStaysRemoved
<1>1. TreeSound /\ [Next]_vars
        => [ops \cap FreesBusyTree = {} =>
              \A n \in Node : phase[n] \notin {"unborn", "intake"} /\ n \notin nodes
                               => n \notin nodes' /\ stored'[n] = Absent]_vars
  BY RemovedStep
<1> QED BY <1>1, TreeCorrect, PTL DEF Spec, RemovedStaysRemoved

-----------------------------------------------------------------------------
(* Nothing gets ahead of a queued message.                                  *)

\* remove_if_present keeps the order.
LEMMA RemoveFromQueueOrder ==
  ASSUME queue \in Seq(Node), NEW S, RemoveFromQueue(S), NEW a, NEW b, Ahead(b, a, queue')
  PROVE  Ahead(b, a, queue)
<1> DEFINE kept == {i \in DOMAIN queue : queue[i] \notin S}
<1>1. PICK n \in 0 .. Len(queue) : \E at \in [1 .. n -> kept] :
        /\ \A i, j \in 1 .. n : i < j => at[i] < at[j]
        /\ \A k \in kept : \E i \in 1 .. n : at[i] = k
        /\ queue' = [i \in 1 .. n |-> queue[at[i]]]
  BY Zenon DEF RemoveFromQueue
<1>2. PICK at \in [1 .. n -> kept] :
        /\ \A i, j \in 1 .. n : i < j => at[i] < at[j]
        /\ queue' = [i \in 1 .. n |-> queue[at[i]]]
  BY <1>1, Zenon
<1>3. PICK i \in 1 .. n, j \in 1 .. n : i < j /\ queue'[i] = b /\ queue'[j] = a
  BY <1>2 DEF Ahead
<1>4. /\ at[i] \in DOMAIN queue /\ at[j] \in DOMAIN queue /\ at[i] < at[j]
      /\ queue[at[i]] = b /\ queue[at[j]] = a
  BY <1>2, <1>3
<1> QED BY <1>4 DEF Ahead

\* _process_next takes the first queued node of the tree.
LEMMA ProcessNextOrder ==
  ASSUME queue \in Seq(Node), phase \in [Node -> Phase], NEW n \in Node, ProcessNext(n),
         NEW a \in Queued \cap nodes, NEW b \in Node \ {a}, ~ Ahead(b, a, queue)
  PROVE  /\ ~ Ahead(b, a, queue')
         /\ phase'[b] = "created" => phase[b] = "created"
<1>1. \E q \in Queued : q \in nodes
  OBVIOUS
<1>2. PICK k \in DOMAIN queue :
        /\ queue[k] \in Node
        /\ \A i \in DOMAIN queue : i < k => queue[i] \notin nodes
        /\ queue' \in Seq(Node) /\ Len(queue') = Len(queue) - k
        /\ \A i \in 1 .. Len(queue) - k : queue'[i] = queue[k + i]
        /\ phase' = [phase EXCEPT ![n] = "done", ![queue[k]] = "created"]
  BY <1>1, ProcessNextShape, Zenon
<1>3. DOMAIN queue' = 1 .. Len(queue) - k /\ k \in Nat /\ k <= Len(queue)
      /\ Len(queue) \in Nat /\ DOMAIN queue = 1 .. Len(queue)
  BY <1>2
<1>4. \A i \in DOMAIN queue' : k + i \in DOMAIN queue /\ queue'[i] = queue[k + i]
  BY <1>2, <1>3
<1>5. ~ Ahead(b, a, queue')
  <2> SUFFICES ASSUME NEW i \in DOMAIN queue', NEW j \in DOMAIN queue', i < j,
                      queue'[i] = b, queue'[j] = a
               PROVE  FALSE
    BY DEF Ahead
  <2>1. k + i < k + j
    BY <1>3
  <2> QED BY <1>4, <2>1 DEF Ahead
<1>6. PICK j \in DOMAIN queue : queue[j] = a
  BY DEF Queued
<1>7. j = k \/ k < j
  <2>1. ~ (j < k)
    BY <1>2, <1>6
  <2> QED BY <1>3, <2>1
<1>8. queue[k] # b
  BY <1>6, <1>7 DEF Ahead
<1>9. phase'[b] = "created" => phase[b] = "created"
  BY <1>2, <1>8
<1> QED BY <1>5, <1>9

LEMMA OvertakingStep ==
  TreeSound /\ [Next]_vars
    => \A a \in Queued \cap nodes : \A b \in Node \ {a} :
         ~ Ahead(b, a, queue) =>
           /\ ~ Ahead(b, a, queue')
           /\ phase'[b] = "created" => phase[b] = "created"
<1> SUFFICES ASSUME TreeSound, [Next]_vars, NEW a \in Queued \cap nodes,
                    NEW b \in Node \ {a}, ~ Ahead(b, a, queue)
             PROVE  /\ ~ Ahead(b, a, queue')
                    /\ phase'[b] = "created" => phase[b] = "created"
  OBVIOUS
<1> DEFINE Ok == /\ ~ Ahead(b, a, queue')
                 /\ phase'[b] = "created" => phase[b] = "created"
<1>a. queue \in Seq(Node) /\ phase \in [Node -> Phase]
  BY DEF TreeSound, TypeOK
<1>b. is_processing /\ phase[a] = "waiting"
  BY DEF TreeSound, QueueSound, QueuedImpliesBusy, Queued
<1>1. ASSUME NEW m \in Node, NEW p \in Node \cup {NoNode}, Receive(m, p) PROVE Ok
  BY <1>1, <1>a DEF Receive
<1>2. ASSUME NEW m \in Node, Deliver(m) PROVE Ok
  <2>1. queue' = Append(queue, m) /\ phase' = [phase EXCEPT ![m] = "waiting"] /\ m # a
    BY <1>2, <1>b DEF Deliver
  <2>2. \A i, j \in DOMAIN queue' :
          i < j /\ queue'[j] = a => i \in DOMAIN queue /\ j \in DOMAIN queue
                                   /\ queue'[i] = queue[i] /\ queue'[j] = queue[j]
    BY <1>a, <2>1
  <2>3. ~ Ahead(b, a, queue')
    BY <2>2 DEF Ahead
  <2> QED BY <1>a, <2>1, <2>3
<1>3. ASSUME NEW m \in Node, IntakeFails(m) PROVE Ok
  BY <1>3, <1>a DEF IntakeFails, tree_vars
<1>4. ASSUME NEW n \in Node, TaskSkips(n) \/ TaskFinishes(n) \/ RunnerRaises(n) PROVE Ok
  <2>1. ProcessNext(n)
    BY <1>4 DEF TaskSkips, TaskFinishes, RunnerRaises
  <2> QED BY <1>a, <2>1, ProcessNextOrder
<1>5. ASSUME NEW n \in Node,
             \/ TaskDiesUnstarted(n) \/ TaskStarts(n) \/ SessionInfo(n) \/ ErrorEvent(n)
             \/ RunnerFails(n) \/ CancelDelivered(n) \/ CancelHandled(n)
             \/ \E failed \in BOOLEAN : Exit(n, failed)
      PROVE  Ok
  <2>1. queue' = queue
    BY <1>5 DEF TaskDiesUnstarted, TaskStarts, SessionInfo, ErrorEvent, RunnerFails,
                CancelDelivered, CancelHandled, Exit, tree_vars
  <2>2. phase' = phase \/ \E p \in {"done", "running", "removing", "unwinding"} :
                            phase' = [phase EXCEPT ![n] = p]
    BY <1>5 DEF TaskDiesUnstarted, TaskStarts, SessionInfo, ErrorEvent, RunnerFails,
                CancelDelivered, CancelHandled, Exit, task_vars
  <2> QED BY <1>a, <2>1, <2>2
<1>6. ASSUME NEW n \in Node, StopNode(n) PROVE Ok
  BY <1>6, <1>a, RemoveFromQueueOrder DEF StopNode
<1>7. ASSUME NEW n \in Node, CancelBranch(n) PROVE Ok
  <2>1. PICK S : RemoveFromQueue(S)
    BY <1>7, Zenon DEF CancelBranch
  <2> QED BY <1>7, <1>a, <2>1, RemoveFromQueueOrder DEF CancelBranch
<1>8. ASSUME queue' = <<>> PROVE ~ Ahead(b, a, queue')
  BY <1>8 DEF Ahead
<1>9. ASSUME NEW step \in {"stop_all", "clear_stopping"}, StopAll(step) PROVE Ok
  BY <1>8, <1>9 DEF StopAll, CancelTree
<1>10. ASSUME StopAllReturns \/ ClearAll \/ RemoveBranch PROVE Ok
  BY <1>10 DEF StopAllReturns, ClearAll, RemoveBranch, tree_vars, task_vars
<1>11. ASSUME RemoveTree PROVE Ok
  BY <1>8, <1>11 DEF RemoveTree, CancelTree
<1>12. ASSUME Restart PROVE Ok
  BY <1>8, <1>12 DEF Restart
<1>13. ASSUME UNCHANGED vars PROVE Ok
  BY <1>13 DEF vars, tree_vars, task_vars
<1> QED
  BY <1>1, <1>2, <1>3, <1>4, <1>5, <1>6, <1>7, <1>9, <1>10, <1>11, <1>12, <1>13, Zenon
  DEF Next, TaskStep

\* Per-conversation order: no message gets ahead of a queued one, neither in the queue
\* nor by being given a task (enqueue_and_start, _process_next, remove_if_present).
THEOREM OrderCorrect == Spec => NoOvertaking
<1>1. TreeSound /\ [Next]_vars
        => [\A a \in Queued \cap nodes : \A b \in Node \ {a} :
              ~ Ahead(b, a, queue) =>
                /\ ~ Ahead(b, a, queue')
                /\ phase'[b] = "created" => phase[b] = "created"]_vars
  BY OvertakingStep
<1> QED BY <1>1, TreeCorrect, PTL DEF Spec, NoOvertaking

=============================================================================
