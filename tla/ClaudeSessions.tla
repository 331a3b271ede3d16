--------------------------- MODULE ClaudeSessions ---------------------------
(***************************************************************************)
(* The managed Claude Code processes behind the messaging runs: the        *)
(* session maps and their lock (cli/managed/manager.py), a session's task  *)
(* and its process (cli/managed/session.py), the registry of processes to  *)
(* kill at exit (cli/process_registry.py), and the part of a node's run    *)
(* that uses them (messaging/node_runner.py).                              *)
(*                                                                         *)
(* A run is named by a number; the session object it creates, the process  *)
(* it launches and the identifiers it brings into the maps carry the same. *)
(***************************************************************************)
EXTENDS Integers, FiniteSets, Functions

CONSTANTS
  Runs,      \* runs of conversation nodes
  Events     \* events one process prints

ASSUME SessionsAssumption ==
  Runs \subseteq Nat \ {0} /\ IsFiniteSet(Runs) /\ Events \in Nat

VARIABLES
  runs,          \* the node runner's task
  generator,     \* start_task: the asynchronous generator of a run
  processes,     \* the process a run launched; "asked" after SIGTERM
  pids,          \* process_registry._pids
  current,       \* session.process: the run whose process a session object holds
  sessions, pending, temp_to_real, real_to_temp,
  lock,          \* who holds the manager's lock
  stop_all       \* the call of stop_all

maps == <<sessions, pending, temp_to_real, real_to_temp>>
sessions_vars == <<runs, generator, processes, pids, current, maps, lock, stop_all>>

Nobody == 0
Everyone == -1   \* the holder of the lock is stop_all

\* Identifiers: the parent's session, "pending_..." and the id Claude reports.
NoId == <<"none", 0>>
Parent == <<"real", 0>>
Temp(r) == IF runs[r].resumes THEN Parent ELSE <<"pending", r>>
Real(r) == <<"real", r>>

RunPhase == {"queued", "asking", "running", "handling", "removing", "ending", "done"}
GeneratorPhase == {"none", "waiting", "launching", "running", "stopping", "closing", "closed"}

SessionsTypeOK ==
  /\ \A r \in Runs : /\ runs[r].pc \in RunPhase /\ runs[r].events \in 0 .. Events
                     /\ runs[r].session \in Runs \cup {Nobody}
                     /\ runs[r].ending \in Runs \cup {Nobody}
                     /\ runs[r].awaits \in Runs \cup {Nobody}
                     /\ {runs[r].cancelled, runs[r].resumes} \subseteq BOOLEAN
  /\ generator \in [Runs -> GeneratorPhase]
  /\ processes \in [Runs -> {"none", "alive", "asked", "dead"}]
  /\ pids \subseteq Runs
  /\ current \in [Runs -> Runs \cup {Nobody}]
  /\ lock \in Runs \cup {Nobody, Everyone}
  /\ Range(temp_to_real) \cup DOMAIN real_to_temp \cup DOMAIN sessions \subseteq
       {Real(r) : r \in Runs}
  /\ stop_all.phase \in {"idle", "waiting", "stopping", "done"} /\ stop_all.todo \subseteq Runs
  /\ stop_all.awaits \in Runs \cup {Nobody}

FreshRun == [pc |-> "queued", resumes |-> FALSE, session |-> Nobody, temp |-> NoId, captured |-> NoId,
             events |-> 0, ending |-> Nobody, awaits |-> Nobody, cancelled |-> FALSE]

SessionsInit ==
  /\ runs = [r \in Runs |-> FreshRun]
  /\ generator = [r \in Runs |-> "none"]
  /\ processes = [r \in Runs |-> "none"]
  /\ pids = {}
  /\ current = [r \in Runs |-> Nobody]
  /\ sessions = <<>> /\ pending = <<>> /\ temp_to_real = <<>> /\ real_to_temp = <<>>
  /\ lock = Nobody
  /\ stop_all = [phase |-> "idle", todo |-> {}, awaits |-> Nobody]

At(r, pc) == runs[r].pc = pc
Goes(r, pc) == runs' = [runs EXCEPT ![r].pc = pc]
With(f, k, v) == [x \in DOMAIN f \cup {k} |-> IF x = k THEN v ELSE f[x]]
Without(f, k) == [x \in DOMAIN f \ {k} |-> f[x]]

-----------------------------------------------------------------------------
(* A run gets its session.                                                  *)

\* A first message, or an answer to the one parent node of this model, whose session
\* it resumes. A tree runs one node at a time, but a cancelled run is still cleaning
\* up when the next one starts.
Begin(r, resumes) ==
  /\ At(r, "queued")
  /\ resumes => \A q \in Runs : runs[q].resumes => At(q, "done") \/ runs[q].cancelled
  /\ runs' = [runs EXCEPT ![r].pc = "asking", ![r].resumes = resumes]
  /\ UNCHANGED <<generator, processes, pids, current, maps, lock, stop_all>>

\* get_or_create_session; the parent's id finds the session that resumes it.
GetOrCreate(r) ==
  LET id == IF runs[r].resumes THEN Parent ELSE NoId
      at == IF id \in DOMAIN temp_to_real THEN temp_to_real[id] ELSE id
      found == IF at \in DOMAIN sessions THEN sessions[at]
               ELSE IF at \in DOMAIN pending THEN pending[at] ELSE Nobody
  IN  /\ At(r, "asking") /\ lock = Nobody
      /\ runs' = [runs EXCEPT ![r].pc = "running",
                              ![r].session = IF found = Nobody THEN r ELSE found,
                              ![r].temp = IF found = Nobody THEN Temp(r) ELSE NoId,
                              ![r].captured = IF found = Nobody THEN NoId ELSE at]
      /\ pending' = IF found = Nobody THEN With(pending, Temp(r), r) ELSE pending
      /\ generator' = [generator EXCEPT ![r] = "waiting"]
      /\ UNCHANGED <<processes, pids, current, sessions, temp_to_real, real_to_temp, lock,
                     stop_all>>

-----------------------------------------------------------------------------
(* start_task.                                                              *)

Holding(q) == generator[q] \in {"launching", "running", "stopping", "closing"}

\* Slip: two tasks of a session may run at once.
TakeCliLockAlways(r) ==
  /\ At(r, "running") /\ generator[r] = "waiting"
  /\ generator' = [generator EXCEPT ![r] = "launching"]
  /\ UNCHANGED <<runs, processes, pids, current, maps, lock, stop_all>>

\* _cli_lock: one task of a session at a time.
TakeCliLock(r) ==
  /\ At(r, "running") /\ generator[r] = "waiting"
  /\ \A q \in Runs : runs[q].session = runs[r].session => ~ Holding(q)
  /\ generator' = [generator EXCEPT ![r] = "launching"]
  /\ UNCHANGED <<runs, processes, pids, current, maps, lock, stop_all>>

\* The process stop() waits for: the session may hold another one when it is over.
Awaited(session) ==
  IF current[session] # Nobody /\ processes[current[session]] # "dead" THEN current[session]
  ELSE Nobody
Over(p) == p # Nobody => processes[p] = "dead"

\* Starting a program takes several turns of the event loop: a stop() whose process
\* is gone has resumed by then.
Launch(r) ==
  /\ At(r, "running") /\ generator[r] = "launching"
  /\ \A q \in Runs : runs[q].awaits # Nobody /\ At(q, "ending") => ~ Over(runs[q].awaits)
  /\ stop_all.awaits # Nobody => ~ Over(stop_all.awaits)
  /\ generator' = [generator EXCEPT ![r] = "running"]
  /\ processes' = [processes EXCEPT ![r] = "alive"]
  /\ pids' = pids \cup {r}
  /\ current' = [current EXCEPT ![runs[r].session] = r]
  /\ UNCHANGED <<runs, maps, lock, stop_all>>

\* The program cannot be started: the run fails.
LaunchFails(r) ==
  /\ At(r, "running") /\ generator[r] = "launching"
  /\ generator' = [generator EXCEPT ![r] = "closed"]
  /\ pids' = pids \ {current[runs[r].session]}
  /\ Goes(r, "removing")
  /\ UNCHANGED <<processes, current, maps, lock, stop_all>>

\* A line of output reaches the run.
PrintsEvent(r) ==
  /\ At(r, "running") /\ generator[r] = "running" /\ processes[r] \in {"alive", "asked"}
  /\ runs[r].events < Events
  /\ runs' = [runs EXCEPT ![r].pc = "handling", ![r].events = @ + 1]
  /\ UNCHANGED <<generator, processes, pids, current, maps, lock, stop_all>>

\* The first line with a session id goes to register_real_session_id; the run
\* remembers the id even if the temporary one was not found.
RegisterId(r) ==
  LET temp == runs[r].temp
      known == temp \in DOMAIN pending
  IN  /\ At(r, "handling") /\ temp # NoId /\ lock = Nobody
      /\ runs' = [runs EXCEPT ![r].pc = "running", ![r].temp = NoId, ![r].captured = Real(r)]
      /\ pending' = IF known THEN Without(pending, temp) ELSE pending
      /\ sessions' = IF known THEN With(sessions, Real(r), pending[temp]) ELSE sessions
      /\ temp_to_real' = IF known THEN With(temp_to_real, temp, Real(r)) ELSE temp_to_real
      /\ real_to_temp' = IF known THEN With(real_to_temp, Real(r), temp) ELSE real_to_temp
      /\ UNCHANGED <<generator, processes, pids, current, lock, stop_all>>

\* Any other event: the transcript and the status message.
HandleEvent(r) ==
  /\ At(r, "handling")
  /\ Goes(r, "running")
  /\ UNCHANGED <<generator, processes, pids, current, maps, lock, stop_all>>

ProcessEnds(r) ==
  /\ processes[r] \in {"alive", "asked"}
  /\ processes' = [processes EXCEPT ![r] = "dead"]
  /\ UNCHANGED <<runs, generator, pids, current, maps, lock, stop_all>>

\* End of output, end of the error output, exit code: or, after a cancellation, the
\* end of the shielded stop().
TaskEnds(r) ==
  /\ At(r, "running") /\ generator[r] \in {"running", "stopping"} /\ processes[r] = "dead"
  /\ generator' = [generator EXCEPT ![r] = "closed"]
  /\ pids' = pids \ {r}
  /\ Goes(r, "removing")
  /\ UNCHANGED <<processes, current, maps, lock, stop_all>>

\* Slip: a generator that was left does not wait for the end of the error output.
GeneratorClosesEarly(r) ==
  /\ generator[r] = "closing"
  /\ generator' = [generator EXCEPT ![r] = "closed"]
  /\ pids' = pids \ {r}
  /\ UNCHANGED <<runs, processes, current, maps, lock, stop_all>>

\* A generator the run left while handling an event is closed by the event loop,
\* and still waits for the end of the error output.
GeneratorCloses(r) ==
  /\ generator[r] = "closing" /\ processes[r] = "dead"
  /\ generator' = [generator EXCEPT ![r] = "closed"]
  /\ pids' = pids \ {r}
  /\ UNCHANGED <<runs, processes, current, maps, lock, stop_all>>

-----------------------------------------------------------------------------
(* Stopping.                                                                *)

\* Slip: the process is waited for, and not asked to end.
AskedNot(session) == processes

\* session.stop: SIGTERM, and SIGKILL after five seconds.
Asked(session) ==
  LET p == current[session]
  IN  IF p # Nobody /\ processes[p] = "alive" THEN [processes EXCEPT ![p] = "asked"]
      ELSE processes
Unregistered(session, p) == IF p = Nobody THEN pids ELSE pids \ {current[session]}

\* The run's task is cancelled, wherever it waits.
Cancel(r) ==
  /\ ~ runs[r].cancelled
  /\ runs[r].pc \in {"asking", "running", "handling"}
  /\ LET stopping == At(r, "running") /\ generator[r] = "running"
         launching == At(r, "running") /\ generator[r] = "launching"
     IN  /\ runs' = [runs EXCEPT ![r].cancelled = TRUE,
                                 ![r].pc = IF stopping THEN @ ELSE "removing"]
         /\ generator' = [generator EXCEPT ![r] = CASE stopping -> "stopping"
                                                    [] At(r, "handling") -> "closing"
                                                    [] OTHER -> "closed"]
         /\ processes' = IF stopping THEN Asked(runs[r].session) ELSE processes
         /\ pids' = IF launching THEN pids \ {current[runs[r].session]} ELSE pids
  /\ UNCHANGED <<current, maps, lock, stop_all>>

\* Slip: a run whose process never reported an id gives nothing back.
IdToRemoveReported(r) == runs[r].captured

IdToRemove(r) == IF runs[r].captured # NoId THEN runs[r].captured ELSE runs[r].temp

\* The run is over and its last status shown. remove_session: the session leaves its
\* map and is stopped under the lock.
Remove(r) ==
  LET id == IdToRemove(r)
      session == IF id \in DOMAIN pending THEN pending[id]
                 ELSE IF id \in DOMAIN sessions THEN sessions[id] ELSE Nobody
  IN  /\ At(r, "removing")
      /\ id # NoId => lock = Nobody
      /\ runs' = [runs EXCEPT ![r].pc = IF session = Nobody THEN "done" ELSE "ending",
                              ![r].ending = session,
                              ![r].awaits = IF session = Nobody THEN Nobody
                                            ELSE Awaited(session)]
      /\ lock' = IF session = Nobody THEN lock ELSE r
      /\ processes' = IF session = Nobody THEN processes ELSE Asked(session)
      /\ pending' = Without(pending, id)
      /\ sessions' = IF id \in DOMAIN pending THEN sessions ELSE Without(sessions, id)
      /\ UNCHANGED <<generator, pids, current, temp_to_real, real_to_temp, stop_all>>

\* Slip: the two maps between the identifiers are not looked after.
RemovedKeepsIds(r) ==
  /\ At(r, "ending") /\ Over(runs[r].awaits)
  /\ pids' = Unregistered(runs[r].ending, runs[r].awaits)
  /\ lock' = Nobody
  /\ Goes(r, "done")
  /\ UNCHANGED <<generator, processes, current, maps, stop_all>>

Removed(r) ==
  LET id == runs[r].captured
      temp == IF id \in DOMAIN real_to_temp /\ id \notin DOMAIN sessions
              THEN real_to_temp[id] ELSE NoId
  IN  /\ At(r, "ending") /\ Over(runs[r].awaits)
      /\ pids' = Unregistered(runs[r].ending, runs[r].awaits)
      /\ real_to_temp' = IF temp = NoId THEN real_to_temp ELSE Without(real_to_temp, id)
      /\ temp_to_real' = Without(temp_to_real, temp)
      /\ lock' = Nobody
      /\ Goes(r, "done")
      /\ UNCHANGED <<generator, processes, current, sessions, pending, stop_all>>

-----------------------------------------------------------------------------
(* stop_all: the sessions one after the other, then the maps are cleared.   *)

AskStopAll ==
  /\ stop_all.phase = "idle"
  /\ stop_all' = [stop_all EXCEPT !.phase = "waiting"]
  /\ UNCHANGED <<runs, generator, processes, pids, current, maps, lock>>

BeginStopAll ==
  /\ stop_all.phase = "waiting" /\ lock = Nobody
  /\ lock' = Everyone
  /\ stop_all' = [phase |-> "stopping", todo |-> Range(sessions) \cup Range(pending),
                  awaits |-> Nobody]
  /\ UNCHANGED <<runs, generator, processes, pids, current, maps>>

\* A session whose process is waited for is gone on with before the next.
StopOne(session) ==
  /\ stop_all.phase = "stopping" /\ session \in stop_all.todo /\ Over(stop_all.awaits)
  /\ stop_all.awaits # Nobody => current[session] = stop_all.awaits
  /\ processes' = Asked(session)
  /\ stop_all' = [stop_all EXCEPT !.awaits = Awaited(session),
                                  !.todo = IF Awaited(session) = Nobody THEN @ \ {session}
                                           ELSE @]
  /\ pids' = Unregistered(session, stop_all.awaits)
  /\ UNCHANGED <<runs, generator, current, maps, lock>>

EndStopAll ==
  /\ stop_all.phase = "stopping" /\ stop_all.todo = {}
  /\ sessions' = <<>> /\ pending' = <<>> /\ temp_to_real' = <<>> /\ real_to_temp' = <<>>
  /\ lock' = Nobody
  /\ stop_all' = [stop_all EXCEPT !.phase = "done"]
  /\ UNCHANGED <<runs, generator, processes, pids, current>>

\* best_effort gives up after five seconds: the call is cancelled, nothing is cleared.
StopAllTimesOut ==
  /\ stop_all.phase \in {"waiting", "stopping"}
  /\ lock' = IF lock = Everyone THEN Nobody ELSE lock
  /\ stop_all' = [phase |-> "done", todo |-> {}, awaits |-> Nobody]
  /\ UNCHANGED <<runs, generator, processes, pids, current, maps>>

\* kill_all_best_effort, when the interpreter exits.
KillAll ==
  /\ processes' = [r \in Runs |-> IF r \in pids /\ processes[r] = "alive" THEN "asked"
                                  ELSE processes[r]]
  /\ pids' = {}
  /\ UNCHANGED <<runs, generator, current, maps, lock, stop_all>>

-----------------------------------------------------------------------------
(* What happens by itself once the code is there: locks are handed over, a   *)
(* killed process ends, generators and runs clean up.                        *)

CleansUp(r) ==
  \/ GetOrCreate(r) \/ TakeCliLock(r) \/ HandleEvent(r) \/ TaskEnds(r) \/ GeneratorCloses(r)
  \/ Remove(r) \/ Removed(r)
  \/ processes[r] = "asked" /\ ProcessEnds(r)
StopAllMoves == BeginStopAll \/ (\E r \in Runs : StopOne(r)) \/ EndStopAll

RunMoves(r) ==
  \/ (\E resumes \in BOOLEAN : Begin(r, resumes)) \/ CleansUp(r) \/ Launch(r) \/ LaunchFails(r) \/ PrintsEvent(r) \/ RegisterId(r)
  \/ ProcessEnds(r) \/ Cancel(r)

-----------------------------------------------------------------------------
(* Properties.                                                              *)

\* A living process is one that kill_all would reach when the interpreter exits:
\* process_registry is the safety net for cleanups that do not complete.
ProcessesAccounted == \A r \in Runs : processes[r] = "alive" => r \in pids

\* Whenever the manager's lock is free, the two maps between temporary and real
\* identifiers are inverse to each other and name exactly the registered
\* sessions, whatever sequence of runs, cancellations and stop_all came before.
IdsAgree ==
  lock = Nobody =>
    /\ \A t \in DOMAIN temp_to_real : temp_to_real[t] \in DOMAIN real_to_temp
    /\ \A i \in DOMAIN real_to_temp : real_to_temp[i] \in DOMAIN temp_to_real
    /\ DOMAIN real_to_temp = DOMAIN sessions

\* A session object never runs two Claude processes at a time, although two runs
\* can hold the same object.
OneProcessPerSession ==
  \A r, q \in Runs :
    /\ r # q /\ runs[r].session = runs[q].session
    /\ processes[r] \in {"alive", "asked"}
    => processes[q] \notin {"alive", "asked"}

\* When every run is over, the manager remembers no session.
NothingRemembered ==
  (\A r \in Runs : At(r, "done")) /\ lock = Nobody => DOMAIN sessions \cup DOMAIN pending = {}
=============================================================================
