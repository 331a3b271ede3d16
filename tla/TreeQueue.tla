----------------------------- MODULE TreeQueue -----------------------------
(***************************************************************************)
(* One conversation tree of the messaging bridge: its nodes, its FIFO, the *)
(* asyncio task that works on its current node, and the chat commands that *)
(* cancel or remove parts of it (messaging/trees/{data,processor,manager}, *)
(* node_runner, node_event_pipeline, turn_intake, commands, workflow).     *)
(*                                                                         *)
(* asyncio runs one callback at a time, and no section under tree.with_lock*)
(* or the manager's lock suspends, so an action is the code between two    *)
(* real suspension points: a platform send, the Claude process, a session  *)
(* being stopped, the first step of a created task.                        *)
(*                                                                         *)
(* Nodes are numbered by the order in which their messages were received.  *)
(* There is one asyncio task per node at most, named by its node.          *)
(***************************************************************************)
EXTENDS Naturals, Sequences, FiniteSets

CONSTANTS
  N,     \* messages the platform delivers for this tree
  OpSets \* sets of commands and scheduling accidents that may meet in a behaviour

OpNames == {"stop",         \* /stop replying to a message
            "stop_all",     \* /stop
            "clear_branch", \* /clear replying to a message other than the root
            "clear_root",   \* /clear replying to the root message
            "clear_all",    \* /clear
            "restart",      \* the server restarts from the session store
            "early"}        \* a reply command falls between create_task and
                            \* the first step of the task it cancels

ASSUME NAssumption == N \in Nat \ {0}
ASSUME OpsAssumption == OpSets \subseteq SUBSET OpNames

Node == 1 .. N
Root == 1
NoNode == 0

\* MessageState.
State == {"pending", "in_progress", "completed", "error"}
Terminal == {"completed", "error"}

\* Where a message and its task are.  "intake" awaits the status message,
\* "waiting" is in the tree without a task; a task is created, running (awaits
\* the Claude process), unwinding (CancelledError is stopping the process) or
\* removing (awaits cli_manager.remove_session), then done.
Live == {"created", "running", "unwinding", "removing"}
Phase == {"unborn", "intake", "waiting", "done"} \cup Live

VARIABLES
  ops,             \* the commands and accidents of this behaviour, never changed
  nodes,           \* MessageTree._nodes: the keys
  state,           \* MessageNode.state
  parent,          \* MessageNode.parent_id, chosen by turn_intake
  queue,           \* MessageTree._queue
  is_processing,   \* MessageTree._is_processing
  current_node_id, \* MessageTree._current_node_id
  current_task,    \* MessageTree._current_task
  registered,      \* the tree is in the workflow's TreeRepository
  phase,           \* where each message and its task are
  cancelling,      \* tasks with a CancelledError still to be thrown
  attached,        \* runners whose local "tree" is not None
  captured,        \* runners with a captured_session_id
  stopping,        \* nodes with context cancel_reason = "stop"
  stored,          \* SessionStore._trees: the state saved for each node
  command          \* the multi-step command in progress

tree_vars == <<nodes, state, parent, queue, is_processing, current_node_id,
               current_task, registered>>
task_vars == <<phase, cancelling, attached, captured, stopping>>
vars == <<ops, tree_vars, task_vars, stored, command>>

Absent == "absent"
Step == {"idle",           \* no command
         "stop_all",       \* /stop, awaiting cli_manager.stop_all
         "clear_stopping", \* /clear, awaiting cli_manager.stop_all
         "clear_deleting", \* /clear, awaiting the deletion of the messages
         "clear_branch"}   \* /clear of a branch, awaiting the deletion
Idle == [step |-> "idle", node |-> NoNode, save |-> FALSE]

TypeOK ==
  /\ ops \in OpSets
  /\ nodes \subseteq Node
  /\ state \in [Node -> State]
  /\ parent \in [Node -> Node \cup {NoNode}]
  /\ queue \in Seq(Node)
  /\ is_processing \in BOOLEAN
  /\ current_node_id \in Node \cup {NoNode}
  /\ current_task \in Node \cup {NoNode}
  /\ registered \in BOOLEAN
  /\ phase \in [Node -> Phase]
  /\ cancelling \subseteq Node
  /\ attached \subseteq Node
  /\ captured \subseteq Node
  /\ stopping \subseteq Node
  /\ stored \in [Node -> State \cup {Absent}]
  /\ command \in [step : Step, node : Node \cup {NoNode}, save : BOOLEAN]

Init ==
  /\ ops \in OpSets
  /\ nodes = {}
  /\ state = [n \in Node |-> "pending"]
  /\ parent = [n \in Node |-> NoNode]
  /\ queue = <<>>
  /\ is_processing = FALSE
  /\ current_node_id = NoNode
  /\ current_task = NoNode
  /\ registered = FALSE
  /\ phase = [n \in Node |-> "unborn"]
  /\ cancelling = {}
  /\ attached = {}
  /\ captured = {}
  /\ stopping = {}
  /\ stored = [n \in Node |-> Absent]
  /\ command = Idle

-----------------------------------------------------------------------------
(* Helpers of MessageTree and TreeQueueManager.                             *)

\* The ids in the queue.
Queued == {queue[i] : i \in DOMAIN queue}

\* MessageTree.get_descendants: a node and everything below it.
Descendants(n) ==
  LET below[m \in Node \cup {NoNode}] ==
        m = n \/ (m > n /\ below[parent[m]])
  IN  {m \in nodes : below[m]}

\* TreeRepository.get_pending_children: reached through pending nodes only.
PendingBelow(n) ==
  LET reach[m \in Node \cup {NoNode}] ==
        m = n \/ /\ m > n
                 /\ m \in nodes /\ state[m] = "pending"
                 /\ reach[parent[m]]
  IN  {m \in nodes \ {n} : state[m] = "pending" /\ reach[m]}

MarkError(S) == [m \in Node |-> IF m \in S THEN "error" ELSE state[m]]

\* MessageTree.update_state, a no-op once the node left the tree.
Updated(n, s) == IF n \in nodes THEN [state EXCEPT ![n] = s] ELSE state

\* session_store.save_tree(tree.root_id, tree.to_dict()) after st and present.
Snapshot(st, present) ==
  [m \in Node |-> IF m \in present THEN st[m] ELSE Absent]

\* MessageTree.cancel_current_task: the tasks that will see CancelledError.
CurrentTaskAlive == current_task # NoNode /\ phase[current_task] \in Live
Cancelled == IF CurrentTaskAlive THEN cancelling \cup {current_task} ELSE cancelling

\* A reply command may cancel a task before its first step only if "early".
MayCancel == "early" \in ops
             \/ ~ (CurrentTaskAlive /\ phase[current_task] = "created")

-----------------------------------------------------------------------------
(* Intake: MessagingTurnIntake.handle_message.                              *)

\* The parent is resolved, then the status message is sent: m awaits it.
Receive(m, p) ==
  /\ phase[m] = "unborn"
  /\ \A k \in Node : k < m => phase[k] # "unborn"
  /\ IF m = Root THEN p = NoNode ELSE registered /\ p \in nodes
  /\ phase' = [phase EXCEPT ![m] = "intake"]
  /\ parent' = [parent EXCEPT ![m] = p]
  /\ UNCHANGED <<nodes, state, queue, is_processing, current_node_id,
                 current_task, registered, cancelling, attached, captured,
                 stopping, stored, command>>

\* Slip: a reply is put at the head of the queue.
DeliverAtHead(m) ==
  /\ phase[m] = "intake"
  /\ m = Root \/ (registered /\ parent[m] \in nodes)
  /\ nodes' = nodes \cup {m}
  /\ registered' = TRUE
  /\ stored' = Snapshot(state, nodes \cup {m})
  /\ IF is_processing
     THEN /\ queue' = <<m>> \o queue
          /\ phase' = [phase EXCEPT ![m] = "waiting"]
          /\ UNCHANGED <<is_processing, current_node_id, current_task>>
     ELSE /\ is_processing' = TRUE /\ current_node_id' = m /\ current_task' = m
          /\ phase' = [phase EXCEPT ![m] = "created"]
          /\ UNCHANGED queue
  /\ UNCHANGED <<state, parent, cancelling, attached, captured, stopping, command>>

\* The status message is out: create_tree or add_to_tree, save_tree, and
\* enqueue_and_start, with no suspension in between.
Deliver(m) ==
  /\ phase[m] = "intake"
  /\ m = Root \/ (registered /\ parent[m] \in nodes)
  /\ nodes' = nodes \cup {m}
  /\ registered' = TRUE
  /\ stored' = Snapshot(state, nodes \cup {m})
  /\ \/ /\ is_processing
        /\ queue' = Append(queue, m)
        /\ phase' = [phase EXCEPT ![m] = "waiting"]
        /\ UNCHANGED <<is_processing, current_node_id, current_task>>
     \/ /\ ~ is_processing
        /\ is_processing' = TRUE
        /\ current_node_id' = m
        /\ current_task' = m
        /\ phase' = [phase EXCEPT ![m] = "created"]
        /\ UNCHANGED queue
  /\ UNCHANGED <<state, parent, cancelling, attached, captured, stopping, command>>

\* The send raised, or the parent left the tree while it was awaited
\* (add_to_tree raises ValueError): the message is not processed.
IntakeFails(m) ==
  /\ phase[m] = "intake"
  /\ phase' = [phase EXCEPT ![m] = "done"]
  /\ UNCHANGED <<tree_vars, cancelling, attached, captured, stopping, stored, command>>

-----------------------------------------------------------------------------
(* The queue processor: TreeQueueProcessor.process_node and _process_next.  *)

\* Slip: the id is read from the head of the queue and left there.
PeekNext(n) ==
  /\ phase' = [phase EXCEPT ![n] = "done",
                             ![IF queue = <<>> THEN n ELSE Head(queue)] =
                                 IF queue = <<>> THEN "done" ELSE "created"]
  /\ is_processing' = (queue # <<>>)
  /\ current_node_id' = IF queue = <<>> THEN NoNode ELSE Head(queue)
  /\ current_task' = IF queue = <<>> THEN current_task ELSE Head(queue)
  /\ UNCHANGED queue

\* _process_next at the end of n's task: stale ids are dropped, the first id
\* still in the tree gets a task, an empty queue frees the tree.
ProcessNext(n) ==
  \/ /\ \A i \in DOMAIN queue : queue[i] \notin nodes
     /\ queue' = <<>>
     /\ is_processing' = FALSE
     /\ current_node_id' = NoNode
     /\ phase' = [phase EXCEPT ![n] = "done"]
     /\ UNCHANGED current_task
  \/ \E k \in DOMAIN queue :
       /\ queue[k] \in nodes
       /\ \A i \in DOMAIN queue : i < k => queue[i] \notin nodes
       /\ queue' = SubSeq(queue, k + 1, Len(queue))
       /\ is_processing' = TRUE
       /\ current_node_id' = queue[k]
       /\ current_task' = queue[k]
       /\ phase' = [phase EXCEPT ![n] = "done", ![queue[k]] = "created"]

\* A task cancelled before its first step never enters process_node: neither
\* its finally clause nor _process_next runs.
TaskDiesUnstarted(n) ==
  /\ phase[n] = "created" /\ n \in cancelling
  /\ phase' = [phase EXCEPT ![n] = "done"]
  /\ cancelling' = cancelling \ {n}
  /\ UNCHANGED <<tree_vars, attached, captured, stopping, stored, command>>

\* Slip: the skipped node's task returns without _process_next.
SkipsWithoutNext(n) ==
  /\ phase[n] = "created" /\ n \notin cancelling
  /\ state[n] = "error"
  /\ phase' = [phase EXCEPT ![n] = "done"]
  /\ UNCHANGED <<tree_vars, cancelling, attached, captured, stopping, stored, command>>

\* process_node skips a node that failed while it waited.
TaskSkips(n) ==
  /\ phase[n] = "created" /\ n \notin cancelling
  /\ state[n] = "error"
  /\ ProcessNext(n)
  /\ UNCHANGED <<nodes, state, parent, registered, cancelling, attached,
                 captured, stopping, stored, command>>

\* First step of a task: the runner looks its tree up, marks the node and
\* gets a session.  A session reused from the parent is captured at once.
TaskStarts(n) ==
  /\ phase[n] = "created" /\ n \notin cancelling
  /\ state[n] # "error"
  /\ phase' = [phase EXCEPT ![n] = "running"]
  /\ LET found == registered /\ n \in nodes
     IN  /\ attached' = IF found THEN attached \cup {n} ELSE attached
         /\ state' = IF found THEN Updated(n, "in_progress") ELSE state
  /\ \/ UNCHANGED captured
     \/ registered /\ n \in nodes /\ parent[n] \in nodes
        /\ captured' = captured \cup {n}
  /\ UNCHANGED <<nodes, parent, queue, is_processing, current_node_id,
                 current_task, registered, cancelling, stopping, stored, command>>

\* Slip: a cancelled task ends without _process_next.
FinishesOnlyIfKept(n) ==
  /\ phase[n] = "removing"
  /\ cancelling' = cancelling \ {n}
  /\ IF n \in cancelling
     THEN /\ phase' = [phase EXCEPT ![n] = "done"]
          /\ current_node_id' = NoNode
          /\ UNCHANGED <<queue, is_processing, current_task>>
     ELSE ProcessNext(n)
  /\ UNCHANGED <<nodes, state, parent, registered, attached, captured,
                 stopping, stored, command>>

\* finally: remove_session returned or was itself cancelled; clear_current_node
\* and _process_next follow without suspension, and the task ends.
TaskFinishes(n) ==
  /\ phase[n] = "removing"
  /\ cancelling' = cancelling \ {n}
  /\ ProcessNext(n)
  /\ UNCHANGED <<nodes, state, parent, registered, attached, captured,
                 stopping, stored, command>>

-----------------------------------------------------------------------------
(* The runner: MessagingNodeRunner and node_event_pipeline.                 *)

Running(n) == phase[n] = "running" /\ n \notin cancelling

\* session_info: the real session id replaces the temporary one.
SessionInfo(n) ==
  /\ Running(n) /\ n \notin captured
  /\ captured' = captured \cup {n}
  /\ IF n \in attached
     THEN /\ state' = Updated(n, "in_progress")
          /\ stored' = Snapshot(state', nodes)
     ELSE UNCHANGED <<state, stored>>
  /\ UNCHANGED <<nodes, parent, queue, is_processing, current_node_id, current_task,
                 registered, phase, cancelling, attached, stopping, command>>

\* propagate_error_to_children: mark_node_error finds the tree through the
\* repository, and saves it when it marked something.
CanFail(n) == n \in attached /\ registered /\ n \in nodes
Failed(n) == IF CanFail(n) THEN MarkError({n} \cup PendingBelow(n)) ELSE state

\* An error event from stdout or from the captured stderr.
ErrorEvent(n) ==
  /\ Running(n) /\ CanFail(n)
  /\ state' = Failed(n)
  /\ stored' = Snapshot(state', nodes)
  /\ UNCHANGED <<nodes, parent, queue, is_processing, current_node_id, current_task,
                 registered, task_vars, command>>

\* Slip: the completed node is not saved.
ExitUnsaved(n, failed) ==
  /\ Running(n)
  /\ LET st == IF failed THEN Failed(n) ELSE state
     IN  state' = IF n \in attached \cap captured \cap nodes
                  THEN [st EXCEPT ![n] = "completed"] ELSE st
  /\ phase' = [phase EXCEPT ![n] = "removing"]
  /\ UNCHANGED <<nodes, parent, queue, is_processing, current_node_id, current_task,
                 registered, cancelling, attached, captured, stopping, stored, command>>

\* The exit event: a non-zero code is an error followed by a completion, code
\* zero only the latter; a completion needs a captured session to be recorded.
Exit(n, failed) ==
  /\ Running(n)
  /\ LET st == IF failed THEN Failed(n) ELSE state
         completes == n \in attached /\ n \in captured
     IN  /\ state' = IF completes /\ n \in nodes
                     THEN [st EXCEPT ![n] = "completed"] ELSE st
         /\ stored' = IF completes \/ (failed /\ CanFail(n))
                      THEN Snapshot(state', nodes) ELSE stored
  /\ phase' = [phase EXCEPT ![n] = "removing"]
  /\ UNCHANGED <<nodes, parent, queue, is_processing, current_node_id, current_task,
                 registered, cancelling, attached, captured, stopping, command>>

\* The runner's "except Exception": the process could not be started or read.
RunnerFails(n) ==
  /\ Running(n)
  /\ state' = Failed(n)
  /\ stored' = IF CanFail(n) THEN Snapshot(state', nodes) ELSE stored
  /\ phase' = [phase EXCEPT ![n] = "removing"]
  /\ UNCHANGED <<nodes, parent, queue, is_processing, current_node_id, current_task,
                 registered, cancelling, attached, captured, stopping, command>>

\* An exception outside the runner's handlers reaches process_node, which marks
\* the node in the tree it was given, saves nothing and processes the next one.
RunnerRaises(n) ==
  /\ Running(n)
  /\ state' = Updated(n, "error")
  /\ ProcessNext(n)
  /\ UNCHANGED <<nodes, parent, registered, cancelling, attached, captured,
                 stopping, stored, command>>

\* CancelledError reaches the runner: the session's process is being stopped.
CancelDelivered(n) ==
  /\ phase[n] = "running" /\ n \in cancelling
  /\ phase' = [phase EXCEPT ![n] = "unwinding"]
  /\ cancelling' = cancelling \ {n}
  /\ UNCHANGED <<tree_vars, attached, captured, stopping, stored, command>>

\* The process is gone, or a second cancel cut the wait short: the runner
\* swallows CancelledError, marks its node and saves its tree.
CancelHandled(n) ==
  /\ phase[n] = "unwinding"
  /\ phase' = [phase EXCEPT ![n] = "removing"]
  /\ cancelling' = cancelling \ {n}
  /\ IF n \in attached
     THEN /\ state' = Updated(n, "error")
          /\ stored' = Snapshot(state', nodes)
     ELSE UNCHANGED <<state, stored>>
  /\ UNCHANGED <<nodes, parent, queue, is_processing, current_node_id, current_task,
                 registered, attached, captured, stopping, command>>

-----------------------------------------------------------------------------
(* Commands.                                                                *)

\* _SnapshotQueue.remove_if_present, for every id in S: the other entries stay,
\* in the order they had ("at" lists their indices).
RemoveFromQueue(S) ==
  LET kept == {i \in DOMAIN queue : queue[i] \notin S}
  IN  \E n \in 0 .. Len(queue) : \E at \in [1 .. n -> kept] :
        /\ \A i, j \in 1 .. n : i < j => at[i] < at[j]
        /\ \A k \in kept : \E i \in 1 .. n : at[i] = k
        /\ queue' = [i \in 1 .. n |-> queue[at[i]]]

\* Slip: cancel_node marks the node and leaves its task alone.
StopNodeMarksOnly(n) ==
  /\ "stop" \in ops
  /\ registered /\ n \in nodes /\ state[n] \notin Terminal
  /\ stopping' = stopping \cup {n}
  /\ RemoveFromQueue({n})
  /\ state' = MarkError({n})
  /\ stored' = Snapshot(state', nodes)
  /\ UNCHANGED <<nodes, parent, is_processing, current_node_id, current_task,
                 registered, phase, cancelling, attached, captured, command>>

\* /stop replying to a message: stop_task, cancel_node, and the save of
\* update_cancelled_nodes_ui.
StopNode(n) ==
  /\ "stop" \in ops
  /\ registered /\ n \in nodes /\ state[n] \notin Terminal
  /\ current_node_id = n => MayCancel
  /\ stopping' = stopping \cup {n}
  /\ cancelling' = IF current_node_id = n THEN Cancelled ELSE cancelling
  /\ RemoveFromQueue({n})
  /\ state' = MarkError({n})
  /\ stored' = Snapshot(state', nodes)
  /\ UNCHANGED <<nodes, parent, is_processing, current_node_id, current_task,
                 registered, phase, attached, captured, command>>

\* Slip: the drained nodes are not marked.
CancelTreeForgets ==
  /\ cancelling' = Cancelled
  /\ state' = MarkError({m \in nodes : state[m] = "in_progress"})
  /\ queue' = <<>>
  /\ is_processing' = FALSE /\ current_node_id' = NoNode

\* Slip: every node is marked, whatever its state.
CancelTreeMarksAll ==
  /\ cancelling' = Cancelled
  /\ state' = MarkError(nodes)
  /\ queue' = <<>>
  /\ is_processing' = FALSE /\ current_node_id' = NoNode

\* cancel_tree: the current task is cancelled, the queue drained, everything
\* unfinished marked, and the tree declared free at once.
CancelTree ==
  /\ cancelling' = Cancelled
  /\ state' = MarkError({m \in nodes : m \in Queued \/ state[m] \notin Terminal})
  /\ queue' = <<>>
  /\ is_processing' = FALSE
  /\ current_node_id' = NoNode

\* cancel_tree reports nodes (and so has the caller save the tree) only for
\* the current node and the queued ones.
CancelTreeReports ==
  \/ /\ CurrentTaskAlive /\ current_node_id \in nodes
     /\ state[current_node_id] \notin Terminal
  \/ Queued \cap nodes # {}

\* /stop and /clear: cancel_all, then cli_manager.stop_all is awaited.
StopAll(step) ==
  /\ \/ step = "stop_all" /\ "stop_all" \in ops
     \/ step = "clear_stopping" /\ "clear_all" \in ops
  /\ command = Idle
  /\ registered
  /\ CancelTree
  /\ command' = [step |-> step, node |-> NoNode, save |-> CancelTreeReports]
  /\ UNCHANGED <<nodes, parent, current_task, registered, phase, attached, captured,
                 stopping, stored>>

\* stop_all_tasks returns: the cancelled nodes' tree is saved.
StopAllReturns ==
  /\ command.step \in {"stop_all", "clear_stopping"}
  /\ stored' = IF command.save /\ registered THEN Snapshot(state, nodes) ELSE stored
  /\ command' = IF command.step = "stop_all" THEN Idle
                ELSE [command EXCEPT !.step = "clear_deleting"]
  /\ UNCHANGED <<tree_vars, task_vars>>

\* /clear, its messages deleted: clear_all on the store and a fresh manager.
ClearAll ==
  /\ command.step = "clear_deleting"
  /\ command' = Idle
  /\ stored' = [m \in Node |-> Absent]
  /\ registered' = FALSE
  /\ UNCHANGED <<nodes, state, parent, queue, is_processing, current_node_id,
                 current_task, task_vars>>

\* /clear replying to a message, first part: cancel_branch and the save.
\* (cancel_branch returns no node when all are finished; nothing is saved.)
CancelBranch(n) ==
  /\ (IF n = Root THEN "clear_root" ELSE "clear_branch") \in ops
  /\ command = Idle
  /\ registered /\ n \in nodes
  /\ LET hit == {m \in Descendants(n) : state[m] \notin Terminal}
     IN  /\ current_node_id \in hit => MayCancel
         /\ cancelling' = IF current_node_id \in hit THEN Cancelled ELSE cancelling
         /\ RemoveFromQueue(hit \ {current_node_id})
         /\ state' = MarkError(hit)
         /\ stored' = IF hit # {} THEN Snapshot(state', nodes) ELSE stored
  /\ command' = [step |-> "clear_branch", node |-> n, save |-> FALSE]
  /\ UNCHANGED <<nodes, parent, is_processing, current_node_id, current_task,
                 registered, phase, attached, captured, stopping>>

\* Slip: the store keeps the removed branch.
RemoveBranchUnsaved ==
  /\ command.step = "clear_branch" /\ command.node # Root
  /\ command' = Idle
  /\ nodes' = IF registered THEN nodes \ Descendants(command.node) ELSE nodes
  /\ UNCHANGED <<state, parent, queue, is_processing, current_node_id, current_task,
                 registered, task_vars, stored>>

\* Second part, the branch's messages deleted: remove_branch, store updated.
RemoveBranch ==
  /\ command.step = "clear_branch" /\ command.node # Root
  /\ command' = Idle
  /\ IF registered /\ command.node \in nodes
     THEN /\ nodes' = nodes \ Descendants(command.node)
          /\ stored' = Snapshot(state, nodes')
     ELSE UNCHANGED <<nodes, stored>>
  /\ UNCHANGED <<state, parent, queue, is_processing, current_node_id, current_task,
                 registered, task_vars>>

\* Second part when the branch is the whole tree: cancel_tree, remove_tree.
RemoveTree ==
  /\ command.step = "clear_branch" /\ command.node = Root
  /\ command' = Idle
  /\ IF registered
     THEN /\ CancelTree
          /\ registered' = FALSE
          /\ stored' = [m \in Node |-> Absent]
     ELSE UNCHANGED <<cancelling, state, queue, is_processing, current_node_id,
                      registered, stored>>
  /\ UNCHANGED <<nodes, parent, current_task, phase, attached, captured, stopping>>

\* Slip: the stored states replace the states, absent ones included.
RestartAsStored ==
  /\ "restart" \in ops
  /\ nodes' = {m \in Node : stored[m] # Absent}
  /\ registered' = (nodes' # {})
  /\ state' = stored
  /\ queue' = <<>> /\ is_processing' = FALSE
  /\ current_node_id' = NoNode /\ current_task' = NoNode
  /\ phase' = [m \in Node |-> IF phase[m] = "unborn" THEN "unborn" ELSE "done"]
  /\ cancelling' = {} /\ attached' = {} /\ captured' = {} /\ stopping' = {}
  /\ command' = Idle
  /\ UNCHANGED <<parent, stored>>

\* The server restarts with the stored tree: unfinished nodes are marked by
\* cleanup_stale_nodes and the result is stored; tasks and intake are lost.
Restart ==
  /\ "restart" \in ops
  /\ nodes' = {m \in Node : stored[m] # Absent}
  /\ registered' = (nodes' # {})
  /\ state' = [m \in Node |-> IF m \in nodes' /\ stored[m] \notin Terminal THEN "error"
                              ELSE IF m \in nodes' THEN stored[m] ELSE state[m]]
  /\ stored' = Snapshot(state', nodes')
  /\ queue' = <<>>
  /\ is_processing' = FALSE
  /\ current_node_id' = NoNode /\ current_task' = NoNode
  /\ phase' = [m \in Node |-> IF phase[m] = "unborn" THEN "unborn" ELSE "done"]
  /\ cancelling' = {} /\ attached' = {} /\ captured' = {} /\ stopping' = {}
  /\ command' = Idle
  /\ UNCHANGED parent

-----------------------------------------------------------------------------
TaskStep(n) ==
  \/ TaskDiesUnstarted(n) \/ TaskSkips(n) \/ TaskStarts(n) \/ TaskFinishes(n)
  \/ RunnerFails(n) \/ RunnerRaises(n)
  \/ CancelDelivered(n) \/ CancelHandled(n)
  \/ \E failed \in BOOLEAN : Exit(n, failed)

Next ==
  /\ UNCHANGED ops
  /\ \/ \E m \in Node, p \in Node \cup {NoNode} : Receive(m, p)
     \/ \E m \in Node : Deliver(m) \/ IntakeFails(m)
     \/ \E n \in Node : TaskStep(n) \/ SessionInfo(n) \/ ErrorEvent(n)
     \/ \E n \in Node : StopNode(n) \/ CancelBranch(n)
     \/ \E step \in {"stop_all", "clear_stopping"} : StopAll(step)
     \/ StopAllReturns \/ ClearAll \/ RemoveBranch \/ RemoveTree
     \/ Restart

Spec == Init /\ [][Next]_vars

\* asyncio runs every ready task, and a Claude process ends some day.
Fairness == \A n \in Node : WF_vars(TaskStep(n) /\ UNCHANGED ops)
FairSpec == Spec /\ Fairness

-----------------------------------------------------------------------------
(* Safety.                                                                  *)

\* A node in the queue is there once and its task was never created
\* (put_queue_unlocked, _process_next, remove_if_present).
QueueSound ==
  /\ \A i, j \in DOMAIN queue : queue[i] = queue[j] => i = j
  /\ \A i \in DOMAIN queue : phase[queue[i]] = "waiting"

\* A non-empty queue belongs to a tree marked busy: enqueue_and_start cannot
\* start a newcomer past it, whatever cancel_tree and the unwinding tasks did.
QueuedImpliesBusy == queue # <<>> => is_processing

\* Both: no command, restart or unwinding task makes a newcomer start past a queued
\* message, or a message be started twice.
QueueSafe == QueueSound /\ QueuedImpliesBusy

\* A busy tree has a task that will still run its finally clause, so a queued
\* message has somebody to wake it up.  Only a reply command that beats the
\* first step of a task ("early") can break this.
BusyHasWorker ==
  "early" \notin ops /\ is_processing =>
    /\ CurrentTaskAlive
    /\ ~ (phase[current_task] = "created" /\ current_task \in cancelling)

\* No message is forgotten: while its tree is not cleared, a node still PENDING
\* is queued, or has a task that did not start yet.
NoOrphan ==
  registered => \A n \in nodes :
    state[n] = "pending" => n \in Queued \/ phase[n] = "created"

\* Tasks at work on a node: not cancelled, between first step and exit.
AtWork == {n \in Node : Running(n)}

\* The operations that free a tree whose task is still unwinding.
FreesBusyTree == {"stop_all", "clear_root", "clear_all"}

\* One node at a time, even counting the tasks that are unwinding, as long as
\* no command frees a busy tree.
OneTaskAtATime ==
  ops \cap FreesBusyTree = {} =>
    \A m, n \in Node : phase[m] \in Live /\ phase[n] \in Live => m = n

\* Both: a busy tree has exactly one task that answers for it.
WorkersSound == BusyHasWorker /\ OneTaskAtATime

\* A message stopped by a reply "/stop" stays stopped: whatever its task does
\* while it unwinds, the node ends in ERROR and Claude is not at work on it.
StoppedStaysStopped ==
  ops \cap FreesBusyTree = {} =>
    \A n \in stopping : state[n] = "error" /\ n \notin AtWork

\* A restart neither loses a completed answer nor invents one, and restores
\* exactly the nodes of the tree: what the store holds agrees with the tree up
\* to what cleanup_stale_nodes would do to it.
RestartAgrees ==
  registered => \A n \in Node :
    /\ n \in nodes <=> stored[n] # Absent
    /\ n \in nodes => (stored[n] = "completed" <=> state[n] = "completed")

(* The strengthening that makes them inductive.                             *)

\* Only delivered messages are in the tree or in the store, the root first.
Bookkeeping ==
  /\ \A n \in Node : n \in nodes \/ stored[n] # Absent
                      => phase[n] \notin {"unborn", "intake"}
  /\ phase[Root] \in {"unborn", "intake"}
       => nodes = {} /\ \A n \in Node : stored[n] = Absent

\* The store holds nodes of the tree only, the completed ones as completed, also when
\* the tree has left the manager and a task that unwinds saves it once more.
StoredSound ==
  \A n \in Node : stored[n] # Absent =>
    n \in nodes /\ (stored[n] = "completed" <=> state[n] = "completed")

\* The current node's task is the one cancel_current_task would cancel, and a
\* task cancelled before its first step leaves no PENDING node behind.
CancelSound ==
  /\ current_node_id # NoNode => current_node_id = current_task
  /\ \A n \in cancelling : phase[n] \in Live
  /\ \A n \in cancelling \cap nodes : phase[n] = "created" => state[n] # "pending"

\* A node completes in the last event of its run.
CompletedAtTheEnd ==
  \A n \in Node : state[n] = "completed" => phase[n] \in {"removing", "done"}

\* Unless a command frees a busy tree, the only task there can be is the
\* current one, of the current node of a busy tree.
SingleTask ==
  ops \cap FreesBusyTree = {} =>
    /\ command.step \in {"idle", "clear_branch"}
    /\ command.step = "clear_branch" => command.node # Root
    /\ \A n \in Node : phase[n] \in Live =>
         n = current_task /\ n = current_node_id /\ is_processing

(* What a step may never do.                                                *)

\* COMPLETED is final: no later error, stop, clear or restart takes an answer back.
CompletedIsFinal ==
  [][\A n \in Node : state[n] = "completed" => state'[n] = "completed"]_vars

\* Per-conversation order: nothing gets ahead of a queued message of the tree
\* it was not ahead of already, neither in the queue nor by being given a task.
Ahead(b, a, q) == \E i, j \in DOMAIN q : i < j /\ q[i] = b /\ q[j] = a
NoOvertaking ==
  [][\A a \in Queued \cap nodes : \A b \in Node \ {a} :
       ~ Ahead(b, a, queue) =>
         /\ ~ Ahead(b, a, queue')
         /\ phase'[b] = "created" => phase[b] = "created"]_vars

\* A cleared branch stays cleared: no unwinding task, late event or restart
\* brings a removed node back into the tree or into the store.
RemovedStaysRemoved ==
  [][ops \cap FreesBusyTree = {} =>
       \A n \in Node : phase[n] \notin {"unborn", "intake"} /\ n \notin nodes
                        => n \notin nodes' /\ stored'[n] = Absent]_vars

(* Liveness.                                                                *)

\* Every queued message eventually leaves the queue, whatever happens to the
\* others: cancel_node works "without affecting other nodes"
\* (messaging/trees/manager.py:258).
QueueAdvances == \A n \in Node : n \in Queued ~> n \notin Queued

\* A busy tree is free again some day (N messages come at most), so that a
\* reply can be answered at once; with QueuedImpliesBusy, its queue is emptied, too.
\* Only a reply command that beats the first step of a task can prevent it.
TreeBecomesFree == []<>("early" \in ops \/ ~ is_processing)

(* Claims of the documentation that the code does not keep.                 *)

\* MessageState.COMPLETED is "Processing finished successfully"
\* (messaging/trees/data.py:62): a node that failed does not get there.
FailedIsNotCompleted ==
  [][\A n \in Node : state[n] = "error" => state'[n] # "completed"]_vars

\* /clear is "stop all, delete all chat messages, reset store"
\* (messaging/commands.py:187): a tree that left the manager is not stored.
ClearedIsNotStored ==
  \A n \in nodes : ~ registered => stored[n] = Absent
=============================================================================
