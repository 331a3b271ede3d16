------------------------------ MODULE VoiceFlow ------------------------------
(***************************************************************************)
(* Voice notes: the flow from a note to a turn                             *)
(* (messaging/platforms/voice_flow.py), the registry of notes that are     *)
(* still transcribed (messaging/voice.py), and the reply-scoped /clear     *)
(* that cancels one (messaging/commands.py). The registry's lock is never  *)
(* held across an await, so its operations are single steps.               *)
(***************************************************************************)
EXTENDS Integers, FiniteSets

CONSTANTS Notes      \* voice notes of one chat

ASSUME NotesAssumption == IsFiniteSet(Notes)

VARIABLES
  notes,      \* a note's handler: where it is
  registry,   \* PendingVoiceRegistry._pending: keys <<"voice" or "status", note>>
  statuses,   \* the status message of a note; "deleted" once its deletion was asked for
  cleared,    \* notes whose /clear answered "Voice note cancelled."
  files       \* temporary files

voice_vars == <<notes, registry, statuses, cleared, files>>

NotePhase == {"new", "status", "transcribing", "deleting", "failing", "handing", "over", "lost"}
Keys(n) == {<<"voice", n>>, <<"status", n>>}

VoiceTypeOK ==
  /\ notes \in [Notes -> [pc : NotePhase, handed : BOOLEAN]]
  /\ registry \subseteq {"voice", "status"} \X Notes
  /\ statuses \in [Notes -> {"none", "sent", "deleted"}]
  /\ cleared \subseteq Notes /\ files \subseteq Notes

VoiceInit ==
  /\ notes = [n \in Notes |-> [pc |-> "new", handed |-> FALSE]]
  /\ registry = {} /\ statuses = [n \in Notes |-> "none"] /\ cleared = {} /\ files = {}

NoteAt(n, pc) == notes[n].pc = pc
NoteGoes(n, pc) == notes' = [notes EXCEPT ![n].pc = pc]

\* handle: voice notes are on and a handler is there; the status is on its way.
NoteArrives(n) ==
  /\ NoteAt(n, "new") /\ NoteGoes(n, "status")
  /\ UNCHANGED <<registry, statuses, cleared, files>>

\* The status cannot be sent: the exception leaves the handler.
StatusFails(n) ==
  /\ NoteAt(n, "status") /\ NoteGoes(n, "lost")
  /\ UNCHANGED <<registry, statuses, cleared, files>>

\* register, and the temporary file; if that cannot be made, the exception leaves
\* the handler with the note registered.
Register(n) ==
  /\ NoteAt(n, "status")
  /\ registry' = registry \cup Keys(n)
  /\ statuses' = [statuses EXCEPT ![n] = "sent"]
  /\ \/ NoteGoes(n, "transcribing") /\ files' = files \cup {n}
     \/ NoteGoes(n, "lost") /\ UNCHANGED files
  /\ UNCHANGED cleared

\* cancel, for a reply to the note or to its status.
ClearNote(n, key) ==
  /\ key \in Keys(n) /\ key \in registry
  /\ registry' = registry \ Keys(n)
  /\ cleared' = cleared \cup {n}
  /\ statuses' = [statuses EXCEPT ![n] = "deleted"]
  /\ UNCHANGED <<notes, files>>

\* Slip: the note is not looked up again after its transcription.
TranscribedUnchecked(n) ==
  /\ NoteAt(n, "transcribing")
  /\ notes' = [notes EXCEPT ![n] = [pc |-> "handing", handed |-> TRUE]]
  /\ registry' = registry \ Keys(n)
  /\ UNCHANGED <<statuses, cleared, files>>

\* Downloaded and transcribed: is_pending and complete, without an await between.
Transcribed(n) ==
  /\ NoteAt(n, "transcribing")
  /\ IF <<"voice", n>> \in registry
     THEN /\ notes' = [notes EXCEPT ![n] = [pc |-> "handing", handed |-> TRUE]]
          /\ registry' = registry \ Keys(n)
     ELSE NoteGoes(n, "deleting") /\ UNCHANGED registry
  /\ UNCHANGED <<statuses, cleared, files>>

\* Slip: a failed note stays registered.
TranscriptionFailsKept(n) ==
  /\ NoteAt(n, "transcribing") \/ NoteAt(n, "deleting")
  /\ NoteGoes(n, "failing")
  /\ UNCHANGED <<registry, statuses, cleared, files>>

\* Also when the status of a cancelled note cannot be deleted.
TranscriptionFails(n) ==
  /\ NoteAt(n, "transcribing") \/ NoteAt(n, "deleting")
  /\ registry' = registry \ Keys(n)
  /\ NoteGoes(n, "failing")
  /\ UNCHANGED <<statuses, cleared, files>>

\* Slip: the status of a failed note is left in the chat.
StatusDeletedWhenCancelled(n) ==
  /\ NoteAt(n, "deleting") \/ NoteAt(n, "failing")
  /\ statuses' = [statuses EXCEPT ![n] = IF NoteAt(n, "deleting") THEN "deleted" ELSE @]
  /\ NoteGoes(n, "over") /\ files' = files \ {n}
  /\ UNCHANGED <<registry, cleared>>

StatusDeleted(n) ==
  /\ NoteAt(n, "deleting") \/ NoteAt(n, "failing")
  /\ statuses' = [statuses EXCEPT ![n] = "deleted"]
  /\ NoteGoes(n, "over") /\ files' = files \ {n}
  /\ UNCHANGED <<registry, cleared>>

\* message_handler returns or raises; the status belongs to the turn.
HandlerEnds(n) ==
  /\ NoteAt(n, "handing")
  /\ NoteGoes(n, "over") /\ files' = files \ {n}
  /\ UNCHANGED <<registry, statuses, cleared>>

NoteMoves(n) ==
  \/ StatusFails(n) \/ Register(n) \/ Transcribed(n) \/ TranscriptionFails(n)
  \/ StatusDeleted(n) \/ HandlerEnds(n)
VoiceMoves ==
  \E n \in Notes : NoteArrives(n) \/ NoteMoves(n) \/ \E key \in Keys(n) : ClearNote(n, key)

-----------------------------------------------------------------------------
(* Properties.                                                              *)

\* A note whose /clear was answered "Voice note cancelled." never becomes a turn,
\* wherever its transcription was.
CancelledStaysCancelled == \A n \in cleared : ~ notes[n].handed

\* The registry names a note by both keys or by none, and only while it is being
\* transcribed, or after its temporary file could not be made.
RegistrySound ==
  \A n \in Notes :
    /\ Keys(n) \subseteq registry \/ Keys(n) \cap registry = {}
    /\ Keys(n) \cap registry # {} => notes[n].pc \in {"transcribing", "lost"}

\* No status message stays in the chat for a note that is over, unless its turn took
\* the message over.
NoStatusLeft ==
  \A n \in Notes : NoteAt(n, "over") /\ ~ notes[n].handed => statuses[n] = "deleted"
=============================================================================
