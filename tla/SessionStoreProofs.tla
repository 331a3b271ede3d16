------------------------- MODULE SessionStoreProofs -------------------------
(***************************************************************************)
(* Theorems about SessionStore for every set of timers, every number of    *)
(* changes.                                                                *)
(***************************************************************************)
EXTENDS SessionStore, TLAPS

LEMMA Versions == Version \subseteq Nat /\ 0 \in Version
  BY VersionAssumption DEF Version

\* Cancelling keeps the threads where they are, but for an armed one.
LEMMA Cancelling ==
  ASSUME TypeOK
  PROVE  /\ Cancelled \in [Timers -> TimerState]
         /\ \A t \in Timers : \/ Cancelled[t] = timer[t]
                              \/ timer[t] = "armed" /\ Cancelled[t] = "none"
BY DEF TypeOK, Cancelled, TimerState

-----------------------------------------------------------------------------
(* Type correctness.                                                        *)

LEMMA TypeStep == TypeOK /\ [Next]_vars => TypeOK'
<1> SUFFICES ASSUME TypeOK, [Next]_vars PROVE TypeOK'
  OBVIOUS
<1>1. CASE Change
  <2>1. version + 1 \in Version
    BY <1>1, VersionAssumption DEF Change, TypeOK, Version
  <2>2. PICK t \in Timers : timer' = [Cancelled EXCEPT ![t] = "armed"]
                            /\ save_timer' = t /\ dirty' = TRUE /\ failed' = FALSE
    BY <1>1 DEF Change, ScheduleSave
  <2>3. timer' \in [Timers -> TimerState]
    BY <2>2, Cancelling DEF TimerState
  <2> QED BY <1>1, <2>1, <2>2, <2>3 DEF Change, TypeOK
<1>2. CASE Flush
  BY <1>2, Cancelling DEF Flush, FlushSave, TypeOK
<1>3. CASE Clear
  <2>1. version' \in Version
    BY <1>3, VersionAssumption DEF Clear, TypeOK, Version
  <2> QED BY <1>3, <2>1, Cancelling DEF Clear, FlushSave, TypeOK
<1>4. CASE MainWrites
  BY <1>4 DEF MainWrites, TypeOK
<1>5. CASE MainFails
  BY <1>5 DEF MainFails, TypeOK
<1>6. ASSUME NEW t \in Timers, TimerExpires(t) PROVE TypeOK'
  BY <1>6 DEF TimerExpires, TypeOK, TimerState
<1>7. ASSUME NEW t \in Timers, TimerSnapshots(t) PROVE TypeOK'
  BY <1>7 DEF TimerSnapshots, TypeOK, TimerState
<1>8. ASSUME NEW t \in Timers, TimerWrites(t) PROVE TypeOK'
  BY <1>8 DEF TimerWrites, TypeOK, TimerState
<1>9. ASSUME NEW t \in Timers, TimerFails(t) PROVE TypeOK'
  BY <1>9 DEF TimerFails, TypeOK, TimerState
<1>10. CASE UNCHANGED vars
  BY <1>10 DEF vars, TypeOK
<1> QED
  BY <1>1, <1>2, <1>3, <1>4, <1>5, <1>6, <1>7, <1>8, <1>9, <1>10 DEF Next, TimerStep

\* Every variable keeps its type, for any timers, changes.
THEOREM TypeCorrect == Spec => []TypeOK
<1>1. Init => TypeOK
  BY Versions DEF Init, TypeOK, TimerState
<1> QED BY <1>1, TypeStep, PTL DEF Spec

-----------------------------------------------------------------------------
(* No change is forgotten.                                                  *)

LEMMA HandedStep == CleanIsHanded /\ [Next]_vars => CleanIsHanded'
<1> SUFFICES ASSUME CleanIsHanded, [Next]_vars PROVE CleanIsHanded'
  OBVIOUS
<1>1. CASE Change
  BY <1>1 DEF Change, ScheduleSave, CleanIsHanded
<1>2. CASE Flush \/ Clear
  BY <1>2 DEF Flush, Clear, FlushSave, CleanIsHanded
<1>3. CASE MainWrites \/ MainFails
  BY <1>3 DEF MainWrites, MainFails, CleanIsHanded
<1>4. ASSUME NEW t \in Timers, TimerSnapshots(t) PROVE CleanIsHanded'
  BY <1>4 DEF TimerSnapshots, CleanIsHanded
<1>5. ASSUME NEW t \in Timers, TimerExpires(t) \/ TimerWrites(t) \/ TimerFails(t)
      PROVE  CleanIsHanded'
  BY <1>5 DEF TimerExpires, TimerWrites, TimerFails, CleanIsHanded
<1>6. CASE UNCHANGED vars
  BY <1>6 DEF vars, CleanIsHanded
<1> QED BY <1>1, <1>2, <1>3, <1>4, <1>5, <1>6 DEF Next, TimerStep

\* A clean store handed its latest data to a writer (_save_from_timer takes the
\* snapshot and clears the flag under one lock; every failure sets it again).
THEOREM HandedCorrect == Spec => []CleanIsHanded
<1>1. Init => CleanIsHanded
  BY DEF Init, CleanIsHanded
<1> QED BY <1>1, HandedStep, PTL DEF Spec

LEMMA TimerStaysStep ==
  TypeOK /\ DirtyHasTimer /\ [Next]_vars => DirtyHasTimer'
<1> SUFFICES ASSUME TypeOK, DirtyHasTimer, [Next]_vars, dirty', ~ failed'
             PROVE  \E t \in Timers : timer'[t] \in {"armed", "expired"}
  BY DEF DirtyHasTimer
<1>1. CASE Change
  <2>1. PICK t \in Timers : timer' = [Cancelled EXCEPT ![t] = "armed"]
    BY <1>1 DEF Change, ScheduleSave
  <2> QED BY <2>1, Cancelling
<1>2. CASE Flush \/ Clear
  BY <1>2 DEF Flush, Clear, FlushSave
<1>3. CASE MainWrites \/ MainFails
  BY <1>3 DEF MainWrites, MainFails, DirtyHasTimer
<1>4. ASSUME NEW u \in Timers, TimerSnapshots(u)
      PROVE  \E t \in Timers : timer'[t] \in {"armed", "expired"}
  BY <1>4 DEF TimerSnapshots
<1>5. ASSUME NEW u \in Timers, TimerExpires(u)
      PROVE  \E t \in Timers : timer'[t] \in {"armed", "expired"}
  BY <1>5 DEF TimerExpires, TypeOK
<1>6. ASSUME NEW u \in Timers, TimerWrites(u) \/ TimerFails(u)
      PROVE  \E t \in Timers : timer'[t] \in {"armed", "expired"}
  BY <1>6 DEF TimerWrites, TimerFails, DirtyHasTimer, TypeOK
<1>7. CASE UNCHANGED vars
  BY <1>7 DEF vars, DirtyHasTimer
<1> QED BY <1>1, <1>2, <1>3, <1>4, <1>5, <1>6, <1>7 DEF Next, TimerStep

\* Unless a write failed, dirty data has a timer on its way, also when a late
\* callback drops the store's reference to a newer timer (_save_from_timer).
THEOREM TimerCorrect == Spec => []DirtyHasTimer
<1>1. Init => DirtyHasTimer
  BY DEF Init, DirtyHasTimer
<1> QED BY <1>1, TimerStaysStep, TypeCorrect, PTL DEF Spec

-----------------------------------------------------------------------------
(* The file only advances.                                                  *)

LEMMA SnapshotsStep == TypeOK /\ SnapshotsSound /\ [Next]_vars => SnapshotsSound'
<1> SUFFICES ASSUME TypeOK, SnapshotsSound, [Next]_vars
             PROVE  SnapshotsSound'
  OBVIOUS
<1>a. /\ version \in Nat /\ file \in Nat /\ handed \in Nat /\ flushing \in Nat
      /\ snapshot \in [Timers -> Nat] /\ timer \in [Timers -> TimerState]
      /\ main \in {"idle", "writing"} /\ overlapped \in BOOLEAN
  BY Versions DEF TypeOK
<1>1. CASE Change
  <2>1. PICK t \in Timers : Cancelled[t] = "none"
                            /\ timer' = [Cancelled EXCEPT ![t] = "armed"]
    BY <1>1 DEF Change, ScheduleSave
  <2>2. \A u \in Timers : timer'[u] = "writing" => timer[u] = "writing"
    BY <2>1, Cancelling
  <2> QED BY <1>1, <1>a, <2>2 DEF Change, SnapshotsSound
<1>2. CASE Flush \/ Clear
  <2>1. /\ version' \in Nat /\ version <= version' /\ flushing' = version' /\ handed' = version'
        /\ timer' = Cancelled /\ overlapped' = (overlapped \/ Writing)
        /\ UNCHANGED <<file, snapshot>>
    BY <1>2, <1>a DEF Flush, Clear, FlushSave
  <2>2. \A u \in Timers : timer'[u] = "writing" => timer[u] = "writing"
    BY <2>1, Cancelling
  <2>3. ~ overlapped' => ~ overlapped /\ \A u \in Timers : timer'[u] # "writing"
    BY <2>1, <2>2 DEF Writing
  <2> QED BY <1>a, <2>1, <2>3 DEF SnapshotsSound
<1>3. CASE MainWrites \/ MainFails
  <2>1. file' \in {file, flushing} /\ main = "writing" /\ main' = "idle"
        /\ UNCHANGED <<version, timer, snapshot, flushing, handed, overlapped>>
    BY <1>3 DEF MainWrites, MainFails
  <2> QED BY <1>a, <2>1 DEF SnapshotsSound
<1>4. ASSUME NEW t \in Timers, TimerExpires(t) PROVE SnapshotsSound'
  BY <1>4, <1>a DEF TimerExpires, SnapshotsSound
<1>5. ASSUME NEW t \in Timers, TimerSnapshots(t) PROVE SnapshotsSound'
  <2>1. CASE dirty
    <3>1. /\ snapshot' = [snapshot EXCEPT ![t] = version] /\ handed' = version
          /\ timer' = [timer EXCEPT ![t] = "writing"] /\ overlapped' = (overlapped \/ Writing)
          /\ UNCHANGED <<version, main, flushing, file>>
      BY <1>5, <2>1 DEF TimerSnapshots
    <3>2. ~ overlapped' => /\ ~ overlapped /\ main = "idle"
                           /\ \A u \in Timers : timer'[u] = "writing" => u = t
      BY <3>1, <1>a DEF Writing
    <3> QED BY <1>a, <3>1, <3>2 DEF SnapshotsSound
  <2>2. CASE ~ dirty
    BY <1>5, <1>a, <2>2 DEF TimerSnapshots, SnapshotsSound
  <2> QED BY <2>1, <2>2
<1>6. ASSUME NEW t \in Timers, TimerWrites(t) \/ TimerFails(t) PROVE SnapshotsSound'
  <2>1. /\ timer[t] = "writing" /\ timer' = [timer EXCEPT ![t] = "none"]
        /\ file' \in {file, snapshot[t]}
        /\ UNCHANGED <<version, snapshot, main, flushing, handed, overlapped>>
    BY <1>6 DEF TimerWrites, TimerFails
  <2>2. file' <= version /\ (~ overlapped => file' <= handed)
    BY <1>a, <2>1 DEF SnapshotsSound
  <2>3. \A u \in Timers : timer'[u] = "writing" => timer[u] = "writing"
    BY <1>a, <2>1
  <2> QED BY <1>a, <2>1, <2>2, <2>3 DEF SnapshotsSound
<1>7. CASE UNCHANGED vars
  BY <1>7 DEF vars, SnapshotsSound
<1> QED BY <1>1, <1>2, <1>3, <1>4, <1>5, <1>6, <1>7 DEF Next, TimerStep

\* As long as no writes overlapped the file only advances, also when some fail:
\* a crash never loses what was written before.
THEOREM FileCorrect == Spec => FileAdvances
<1> DEFINE Inv == TypeOK /\ SnapshotsSound
<1>1. Spec => []Inv
  <2>1. Init => SnapshotsSound
    BY Versions DEF Init, SnapshotsSound
  <2> QED BY <2>1, SnapshotsStep, TypeCorrect, PTL DEF Spec
<1>2. Inv /\ [Next]_vars => [~ overlapped => file' >= file]_vars
  <2> SUFFICES ASSUME Inv, Next, ~ overlapped PROVE file' >= file
    BY DEF vars
  <2>1. file \in Nat /\ flushing \in Nat /\ handed \in Nat /\ snapshot \in [Timers -> Nat]
    BY Versions DEF TypeOK
  <2>2. ASSUME NEW t \in Timers, TimerWrites(t) PROVE file' >= file
    BY <2>1, <2>2 DEF TimerWrites, SnapshotsSound
  <2>3. CASE file' = file
    BY <2>1, <2>3
  <2>4. CASE MainWrites
    BY <2>1, <2>4 DEF MainWrites, SnapshotsSound
  <2> QED
    BY <2>2, <2>3, <2>4 DEF Next, TimerStep, Change, Flush, Clear, MainFails,
       TimerExpires, TimerSnapshots, TimerFails
<1> QED BY <1>1, <1>2, PTL DEF Spec, FileAdvances
=============================================================================
