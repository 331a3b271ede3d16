---------------------------- MODULE SessionStore ----------------------------
(***************************************************************************)
(* The debounced persistence of messaging/session.py: the event loop's     *)
(* thread changes the store and may flush it, and every save is written by *)
(* the thread of a threading.Timer.  Sections under self._lock are atomic; *)
(* files are written outside of it.                                        *)
(*                                                                         *)
(* What the store holds is abstracted to its version: the number of the    *)
(* last change.  A timer whose thread has ended may stand for a new one.   *)
(***************************************************************************)
EXTENDS Naturals, FiniteSets

CONSTANTS
  Timers,      \* threading.Timer objects alive at a time
  MaxVersion   \* bound on the changes

NoTimer == "no timer"

ASSUME TimersAssumption == NoTimer \notin Timers
ASSUME VersionAssumption == MaxVersion \in Nat

Version == 0 .. MaxVersion

VARIABLES
  version,    \* the data: _trees, _node_to_tree and _message_log
  dirty,      \* _dirty
  save_timer, \* _save_timer
  timer,      \* where each timer's thread is
  snapshot,   \* the data each timer's thread writes
  main,       \* what the event loop's thread is doing
  flushing,   \* the data it writes
  file,       \* the data in sessions.json
  handed,     \* the data handed to a writer last
  failed,     \* a write failed and nothing was scheduled or flushed since
  overlapped, \* a write began while another went on
  promised    \* the least data a returned flush or clear left in the file

vars == <<version, dirty, save_timer, timer, snapshot, main, flushing, file,
          handed, failed, overlapped, promised>>

\* A thread waits for its interval ("armed"), is past cancellation and wants
\* the lock ("expired"), or writes its snapshot outside the lock.
TimerState == {"none", "armed", "expired", "writing"}

TypeOK ==
  /\ version \in Version
  /\ dirty \in BOOLEAN
  /\ save_timer \in Timers \cup {NoTimer}
  /\ timer \in [Timers -> TimerState]
  /\ snapshot \in [Timers -> Version]
  /\ main \in {"idle", "writing"}
  /\ flushing \in Version
  /\ file \in Version
  /\ handed \in Version
  /\ failed \in BOOLEAN
  /\ overlapped \in BOOLEAN
  /\ promised \in Version

\* A store loaded from its file.
Init ==
  /\ version = 0
  /\ dirty = FALSE
  /\ save_timer = NoTimer
  /\ timer = [t \in Timers |-> "none"]
  /\ snapshot = [t \in Timers |-> 0]
  /\ main = "idle"
  /\ flushing = 0
  /\ file = 0
  /\ handed = 0
  /\ failed = FALSE
  /\ overlapped = FALSE
  /\ promised = 0

-----------------------------------------------------------------------------
\* A thread is writing the file.
Writing == main = "writing" \/ \E t \in Timers : timer[t] = "writing"

\* Slip: a cancelled timer is kept.
CancelledKept ==
  [t \in Timers |->
     IF t = save_timer /\ timer[t] = "armed" THEN "cancelled" ELSE timer[t]]

\* Timer.cancel, without effect once the interval is over.
Cancelled ==
  [t \in Timers |-> IF t = save_timer /\ timer[t] = "armed" THEN "none" ELSE timer[t]]

\* Slip: a pending timer is cancelled and not replaced.
ScheduleCancelOnly ==
  /\ dirty' = TRUE
  /\ failed' = FALSE
  /\ timer' = Cancelled
  /\ save_timer' = NoTimer

\* _schedule_save
ScheduleSave ==
  \E t \in Timers :
    /\ Cancelled[t] = "none"
    /\ dirty' = TRUE
    /\ failed' = FALSE
    /\ timer' = [Cancelled EXCEPT ![t] = "armed"]
    /\ save_timer' = t

\* save_tree, remove_tree, register_node, remove_node_mappings,
\* record_message_id, sync_from_tree_data.
Change ==
  /\ main = "idle"
  /\ version < MaxVersion
  /\ version' = version + 1
  /\ ScheduleSave
  /\ UNCHANGED <<snapshot, main, flushing, file, handed, overlapped, promised>>

\* The interval is over, whether or not earlier timers have done their work.
TimerExpires(t) ==
  /\ timer[t] = "armed"
  /\ timer' = [timer EXCEPT ![t] = "expired"]
  /\ UNCHANGED <<version, dirty, save_timer, snapshot, main, flushing, file,
                 handed, failed, overlapped, promised>>

\* Slip: only the timer the store still refers to saves.
TimerSavesIfCurrent(t) ==
  /\ timer[t] = "expired"
  /\ save_timer' = NoTimer
  /\ IF dirty /\ save_timer = t
     THEN /\ dirty' = FALSE
          /\ snapshot' = [snapshot EXCEPT ![t] = version]
          /\ handed' = version
          /\ timer' = [timer EXCEPT ![t] = "writing"]
          /\ overlapped' = (overlapped \/ Writing)
     ELSE /\ timer' = [timer EXCEPT ![t] = "none"]
          /\ UNCHANGED <<dirty, snapshot, handed, overlapped>>
  /\ UNCHANGED <<version, main, flushing, file, failed, promised>>

\* _save_from_timer up to the write; the store forgets its timer, which may be
\* a newer one that is still armed.
TimerSnapshots(t) ==
  /\ timer[t] = "expired"
  /\ save_timer' = NoTimer
  /\ IF dirty
     THEN /\ dirty' = FALSE
          /\ snapshot' = [snapshot EXCEPT ![t] = version]
          /\ handed' = version
          /\ timer' = [timer EXCEPT ![t] = "writing"]
          /\ overlapped' = (overlapped \/ Writing)
     ELSE /\ timer' = [timer EXCEPT ![t] = "none"]
          /\ UNCHANGED <<dirty, snapshot, handed, overlapped>>
  /\ UNCHANGED <<version, main, flushing, file, failed, promised>>

\* Slip: the store is clean when the write is over, not when it begins.
TimerWritesClean(t) ==
  /\ timer[t] = "writing"
  /\ file' = snapshot[t]
  /\ dirty' = FALSE
  /\ timer' = [timer EXCEPT ![t] = "none"]
  /\ UNCHANGED <<version, save_timer, snapshot, main, flushing, handed, failed,
                 overlapped, promised>>

\* _write_data replaced the file.
TimerWrites(t) ==
  /\ timer[t] = "writing"
  /\ file' = snapshot[t]
  /\ timer' = [timer EXCEPT ![t] = "none"]
  /\ UNCHANGED <<version, dirty, save_timer, snapshot, main, flushing, handed, failed,
                 overlapped, promised>>

\* Slip: the file is written in place, and the failed write leaves it empty.
TimerFailsInPlace(t) ==
  /\ timer[t] = "writing"
  /\ dirty' = TRUE
  /\ failed' = TRUE
  /\ file' = 0
  /\ timer' = [timer EXCEPT ![t] = "none"]
  /\ UNCHANGED <<version, save_timer, snapshot, main, flushing, handed, overlapped, promised>>

\* _write_data raised: the store is dirty again, and no timer is started.
TimerFails(t) ==
  /\ timer[t] = "writing"
  /\ dirty' = TRUE
  /\ failed' = TRUE
  /\ timer' = [timer EXCEPT ![t] = "none"]
  /\ UNCHANGED <<version, save_timer, snapshot, main, flushing, file, handed, overlapped,
                 promised>>

\* _flush_save, at the end of what leaves the data at v.
FlushSave(v) ==
  /\ timer' = Cancelled
  /\ save_timer' = NoTimer
  /\ dirty' = FALSE
  /\ failed' = FALSE
  /\ flushing' = v
  /\ handed' = v
  /\ main' = "writing"
  /\ overlapped' = (overlapped \/ Writing)

\* flush_pending_save, up to its write.
Flush ==
  /\ main = "idle"
  /\ FlushSave(version)
  /\ UNCHANGED <<version, snapshot, file, promised>>

\* clear_all, up to its write.
Clear ==
  /\ main = "idle"
  /\ version < MaxVersion
  /\ version' = version + 1
  /\ FlushSave(version')
  /\ UNCHANGED <<snapshot, file, promised>>

\* The write of flush_pending_save or clear_all succeeded.
MainWrites ==
  /\ main = "writing"
  /\ main' = "idle"
  /\ file' = flushing
  /\ promised' = flushing
  /\ UNCHANGED <<version, dirty, save_timer, timer, snapshot, flushing, handed, failed,
                 overlapped>>

\* It raised, which is logged.
MainFails ==
  /\ main = "writing"
  /\ main' = "idle"
  /\ dirty' = TRUE
  /\ failed' = TRUE
  /\ UNCHANGED <<version, save_timer, timer, snapshot, flushing, file, handed, overlapped,
                 promised>>

-----------------------------------------------------------------------------
TimerStep(t) ==
  \/ TimerExpires(t) \/ TimerSnapshots(t) \/ TimerWrites(t) \/ TimerFails(t)

Next ==
  \/ Change \/ Flush \/ Clear \/ MainWrites \/ MainFails
  \/ \E t \in Timers : TimerStep(t)

Spec == Init /\ [][Next]_vars

\* Intervals end, writes end, and the operating system schedules every thread.
FairSpec ==
  Spec /\ WF_vars(MainWrites \/ MainFails) /\ \A t \in Timers : WF_vars(TimerStep(t))

-----------------------------------------------------------------------------
\* A store that believes it is clean handed its latest data to a writer: no
\* change falls between the snapshot and the flag, whoever saves and fails.
CleanIsHanded == ~ dirty => handed = version

\* Data not yet handed to a writer has a timer that will save it, unless a
\* write failed; then the next change or flush brings it along.
DirtyHasTimer ==
  dirty => failed \/ \E t \in Timers : timer[t] \in {"armed", "expired"}

\* As long as no writes overlapped, the file only advances: a crash loses what
\* was not yet written and never what was.
FileAdvances == [][~ overlapped => file' >= file]_vars

\* The strengthening: nobody writes more than the store holds, and as long as
\* no writes overlapped there is one writer at most, which writes what was
\* handed over last, and the file is not beyond that.
SnapshotsSound ==
  /\ file <= version /\ handed <= version /\ flushing <= version
  /\ \A t \in Timers : snapshot[t] <= version
  /\ ~ overlapped =>
       /\ file <= handed
       /\ main = "writing" => flushing = handed
       /\ \A t \in Timers : timer[t] = "writing" => snapshot[t] = handed
       /\ \A t, u \in Timers : timer[t] = "writing" /\ timer[u] = "writing" => t = u
       /\ main = "idle" \/ \A t \in Timers : timer[t] # "writing"

\* The file catches up with the store again and again, also when nothing is
\* changed or flushed any more, unless a write failed or writes overlapped.
FileCatchesUp == []<>(file = version \/ failed \/ overlapped)

(* Claims of the documentation that the code does not keep.                 *)

\* "Flush any pending debounced save. Call on shutdown to avoid losing data."
\* (messaging/session.py:165), and clear_all is to "persist an empty store"
\* (:227): what they wrote is not replaced by anything older.
FlushIsDurable == file >= promised
=============================================================================
