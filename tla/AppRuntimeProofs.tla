-------------------------- MODULE AppRuntimeProofs --------------------------
(***************************************************************************)
(* Theorems about AppRuntime: the voice notes, the platform and its calls, *)
(* the settings of the admin page, the Claude sessions with the manager's  *)
(* lock and maps, and the provider runtimes with the health of their       *)
(* models, in every step of the server's life and for any number of notes, *)
(* runs, providers, applies and requests.                                  *)
(***************************************************************************)
EXTENDS AppRuntime, SequenceTheorems, TLAPS

-----------------------------------------------------------------------------
(* Voice notes.                                                             *)

\* A step of the server is one of the notes or leaves them alone.
LEMMA VoiceFrame == [Next]_app_vars => VoiceMoves \/ UNCHANGED voice_vars
<1> SUFFICES ASSUME [Next]_app_vars PROVE VoiceMoves \/ UNCHANGED voice_vars
  OBVIOUS
<1> USE DEF chat_vars
<1>1. CASE Startup \/ BeginShutdown
  BY <1>1 DEF Startup, BeginShutdown, NotProviders, NotSessions, NoPart, NotAdmin
<1>2. CASE ShutdownMoves
  BY <1>2 DEF ShutdownMoves, StopProbe, ChatStopped, LimiterShutDown, Exit, NotProviders,
              NotPlatform, NotSessions, NoPart, NotAdmin
<1>3. CASE SessionsStep
  BY <1>3 DEF SessionsStep, Sessions, NotSessions
<1>4. CASE ProvidersStep
  BY <1>4 DEF ProvidersStep, Models, NotProviders
<1>5. CASE VoiceStep
  BY <1>5 DEF VoiceStep, Voice
<1>6. CASE AdminStep
  BY <1>6 DEF AdminStep, Admin, NotAdmin
<1>7. CASE PlatformStep
  BY <1>7 DEF PlatformStep, StartsChat, ChatStarted, StopsChat, Interrupted, Platform,
              NotPlatform, NoPart, NotAdmin
<1>8. CASE DeliveryStep
  BY <1>8 DEF DeliveryStep, Call, NotDelivery
<1>9. CASE UNCHANGED app_vars
  BY <1>9 DEF app_vars
<1> QED BY <1>1, <1>2, <1>3, <1>4, <1>5, <1>6, <1>7, <1>8, <1>9, Zenon DEF Next

\* A note is handed over once it left the registry; one that was cancelled has been in
\* the registry, is in it no more and is not handed over.
NoteSound(n) ==
  /\ notes[n].handed => notes[n].pc \in {"handing", "over"}
  /\ notes[n].pc = "handing" => notes[n].handed
  /\ n \in cleared => /\ notes[n].pc \notin {"new", "status"} /\ ~ notes[n].handed
                      /\ Keys(n) \cap registry = {}

VoiceInv == VoiceTypeOK /\ RegistrySound /\ NoStatusLeft /\ \A n \in Notes : NoteSound(n)

LEMMA VoiceStart == VoiceInit => VoiceInv
BY DEF VoiceInit, VoiceInv, VoiceTypeOK, NotePhase, RegistrySound, NoStatusLeft, NoteAt,
       NoteSound, Keys

\* A note's keys are its own.
LEMMA KeysApart ==
  ASSUME NEW n, NEW m, m # n
  PROVE  Keys(m) \cap Keys(n) = {}
BY DEF Keys

LEMMA VoiceKept == VoiceInv /\ UNCHANGED voice_vars => VoiceInv'
BY DEF VoiceInv, voice_vars, VoiceTypeOK, RegistrySound, NoStatusLeft, NoteAt, NoteSound

\* A step of n's that leaves the other notes alone.
LEMMA VoiceOneNote ==
  ASSUME VoiceInv, VoiceTypeOK', NEW n \in Notes,
         \A m \in Notes \ {n} :
           /\ notes'[m] = notes[m] /\ statuses'[m] = statuses[m]
           /\ Keys(m) \cap registry' = Keys(m) \cap registry
           /\ m \in cleared' => m \in cleared,
         Keys(n) \subseteq registry' \/ Keys(n) \cap registry' = {},
         Keys(n) \cap registry' # {} => notes'[n].pc \in {"transcribing", "lost"},
         notes'[n].pc = "over" /\ ~ notes'[n].handed => statuses'[n] = "deleted",
         NoteSound(n)'
  PROVE  VoiceInv'
<1>1. RegistrySound'
  <2>1. ASSUME NEW m \in Notes \ {n}
        PROVE  /\ Keys(m) \subseteq registry' \/ Keys(m) \cap registry' = {}
               /\ Keys(m) \cap registry' # {} => notes'[m].pc \in {"transcribing", "lost"}
    BY <2>1 DEF VoiceInv, RegistrySound
  <2> QED BY <2>1 DEF RegistrySound
<1>2. NoStatusLeft'
  BY DEF VoiceInv, NoStatusLeft, NoteAt
<1>3. \A m \in Notes : NoteSound(m)'
  <2>1. ASSUME NEW m \in Notes \ {n} PROVE NoteSound(m)'
    BY <2>1 DEF VoiceInv, NoteSound
  <2> QED BY <2>1
<1> QED BY <1>1, <1>2, <1>3 DEF VoiceInv

LEMMA VoiceMove == VoiceInv /\ VoiceMoves => VoiceInv'
<1> SUFFICES ASSUME VoiceInv, NEW n \in Notes,
                    \/ NoteArrives(n) \/ NoteMoves(n)
                    \/ \E key \in Keys(n) : ClearNote(n, key)
             PROVE  VoiceInv'
  BY DEF VoiceMoves
<1>a. VoiceTypeOK
  BY DEF VoiceInv
<1>b. /\ Keys(n) \subseteq registry \/ Keys(n) \cap registry = {}
      /\ Keys(n) \cap registry # {} => notes[n].pc \in {"transcribing", "lost"}
      /\ NoteSound(n)
      /\ notes[n].pc = "over" /\ ~ notes[n].handed => statuses[n] = "deleted"
  BY DEF VoiceInv, RegistrySound, NoStatusLeft, NoteAt
<1>c. \A m \in Notes \ {n} : Keys(m) \cap Keys(n) = {}
  BY KeysApart
<1>d. /\ Keys(n) \subseteq {"voice", "status"} \X Notes /\ <<"voice", n>> \in Keys(n)
      /\ {} \subseteq {"voice", "status"} \X Notes
  BY DEF Keys
<1>e. \A pc \in NotePhase : NoteGoes(n, pc) =>
        /\ notes' \in [Notes -> [pc : NotePhase, handed : BOOLEAN]]
        /\ notes'[n].pc = pc /\ notes'[n].handed = notes[n].handed
        /\ \A m \in Notes \ {n} : notes'[m] = notes[m]
  BY <1>a DEF VoiceTypeOK, NoteGoes
<1>f. {"status", "transcribing", "deleting", "failing", "handing", "over", "lost"}
        \subseteq NotePhase
  BY DEF NotePhase
<1> USE <1>a, <1>b, <1>c, <1>d, <1>e, <1>f DEF NoteSound, NoteAt, VoiceTypeOK
<1>1. CASE NoteArrives(n) \/ StatusFails(n)
  <2>1. /\ NoteGoes(n, "status") \/ NoteGoes(n, "lost")
        /\ notes[n].pc \in {"new", "status"}
        /\ UNCHANGED <<registry, statuses, cleared, files>>
    BY <1>1 DEF NoteArrives, StatusFails
  <2> QED BY <2>1, VoiceOneNote
<1>2. CASE Register(n)
  <2>1. /\ notes[n].pc = "status" /\ registry' = registry \cup Keys(n)
        /\ statuses' = [statuses EXCEPT ![n] = "sent"] /\ cleared' = cleared
        /\ \/ NoteGoes(n, "transcribing") /\ files' = files \cup {n}
           \/ NoteGoes(n, "lost") /\ files' = files
    BY <1>2 DEF Register
  <2> QED BY <2>1, VoiceOneNote
<1>3. ASSUME NEW key \in Keys(n), ClearNote(n, key) PROVE VoiceInv'
  <2>1. /\ notes[n].pc \in {"transcribing", "lost"} /\ registry' = registry \ Keys(n)
        /\ cleared' = cleared \cup {n} /\ statuses' = [statuses EXCEPT ![n] = "deleted"]
        /\ UNCHANGED <<notes, files>>
    BY <1>3 DEF ClearNote
  <2> QED BY <2>1, VoiceOneNote
<1>4. CASE Transcribed(n)
  <2>1. CASE <<"voice", n>> \in registry
    <3>1. /\ notes' = [notes EXCEPT ![n] = [pc |-> "handing", handed |-> TRUE]]
          /\ registry' = registry \ Keys(n)
          /\ UNCHANGED <<statuses, cleared, files>>
      BY <1>4, <2>1 DEF Transcribed
    <3>2. n \notin cleared
      BY <2>1
    <3> QED BY <3>1, <3>2, VoiceOneNote
  <2>2. CASE <<"voice", n>> \notin registry
    <3>1. NoteGoes(n, "deleting") /\ notes[n].pc = "transcribing"
          /\ UNCHANGED <<registry, statuses, cleared, files>>
      BY <1>4, <2>2 DEF Transcribed
    <3> QED BY <2>2, <3>1, VoiceOneNote
  <2> QED BY <2>1, <2>2
<1>5. CASE TranscriptionFails(n)
  <2>1. /\ notes[n].pc \in {"transcribing", "deleting"} /\ registry' = registry \ Keys(n)
        /\ NoteGoes(n, "failing") /\ UNCHANGED <<statuses, cleared, files>>
    BY <1>5 DEF TranscriptionFails
  <2> QED BY <2>1, VoiceOneNote
<1>6. CASE StatusDeleted(n)
  <2>1. /\ notes[n].pc \in {"deleting", "failing"} /\ NoteGoes(n, "over")
        /\ statuses' = [statuses EXCEPT ![n] = "deleted"] /\ files' = files \ {n}
        /\ UNCHANGED <<registry, cleared>>
    BY <1>6 DEF StatusDeleted
  <2> QED BY <2>1, VoiceOneNote
<1>7. CASE HandlerEnds(n)
  <2>1. /\ notes[n].pc = "handing" /\ NoteGoes(n, "over") /\ files' = files \ {n}
        /\ UNCHANGED <<registry, statuses, cleared>>
    BY <1>7 DEF HandlerEnds
  <2> QED BY <2>1, VoiceOneNote
<1> QED BY <1>1, <1>2, <1>3, <1>4, <1>5, <1>6, <1>7 DEF NoteMoves

\* A note whose /clear was answered "Voice note cancelled." becomes no turn, wherever its
\* transcription was, and no note leaves an entry in the registry or a status message
\* behind (voice_flow.py, voice.py).
THEOREM VoiceCorrect == Spec => []VoiceSound
<1>1. AppInit => VoiceInv
  BY VoiceStart DEF AppInit
<1>2. VoiceInv /\ [Next]_app_vars => VoiceInv'
  BY VoiceFrame, VoiceKept, VoiceMove
<1>3. VoiceInv => VoiceSound
  BY DEF VoiceInv, VoiceSound, NoteSound, CancelledStaysCancelled, VoiceTypeOK
<1> QED BY <1>1, <1>2, <1>3, PTL DEF Spec

-----------------------------------------------------------------------------
(* The platform's calls.                                                    *)

CallType ==
  [kind : {"telegram", "discord"}, op : {"send", "edit", "delete"}, queued : BOOLEAN,
   pc : {"ready", "once_more", "found", "returned", "raised"}, attempt : 1..MaxRetries,
   marked : BOOLEAN, rounds : 0..Again, id : Nat, error : Answers \cup {"none", "unreached"}]
PostType ==
  [copies : Nat, text : {"old", "new"}, there : BOOLEAN, parses : BOOLEAN,
   deletable : BOOLEAN, reached : BOOLEAN]

\* What a call is, and that one that returned has had its effect.
CallInv ==
  /\ call \in CallType /\ post \in PostType
  /\ call.id \in 0..post.copies
  /\ ReturnedIsDone

LEMMA CallStart == DeliveryInit \/ DeliveryRest => CallInv
<1> SUFFICES ASSUME DeliveryInit \/ DeliveryRest PROVE CallInv
  OBVIOUS
<1>1. /\ call \in CallType /\ post \in PostType
      /\ call.pc = "ready" /\ call.id = 0 /\ post.copies = 0
  <2>1. CASE DeliveryInit
    <3>1. PICK kind \in {"telegram", "discord"}, op \in {"send", "edit", "delete"},
               queued \in BOOLEAN :
            call = [kind |-> kind, op |-> op, queued |-> queued, pc |-> "ready",
                    attempt |-> 1, marked |-> TRUE, rounds |-> 0, id |-> 0, error |-> "none"]
      BY <2>1 DEF DeliveryInit
    <3>2. PICK parses, deletable, reached \in BOOLEAN :
            post = [copies |-> 0, text |-> "old", there |-> TRUE, parses |-> parses,
                    deletable |-> deletable, reached |-> reached]
      BY <2>1 DEF DeliveryInit
    <3> QED BY <3>1, <3>2 DEF CallType, PostType, MaxRetries, Again
  <2>2. CASE DeliveryRest
    BY <2>2 DEF DeliveryRest, CallType, PostType, MaxRetries, Again
  <2> QED BY <2>1, <2>2
<1> QED BY <1>1 DEF CallInv, ReturnedIsDone

\* What a request does has its effect, whether or not the answer arrives.
LEMMA TakesEffect ==
  ASSUME call \in CallType, post \in PostType
  PROVE  /\ Takes \in PostType /\ Takes.copies >= post.copies
         /\ call.op = "send" => Takes.copies > post.copies
         /\ call.op = "edit" => Takes.text = "new"
         /\ call.op = "delete" => ~ Takes.there
<1>1. CASE call.op = "send"
  <2>1. Takes = [post EXCEPT !.copies = post.copies + 1]
    BY <1>1 DEF Takes
  <2>2. post.copies + 1 \in Nat /\ post.copies + 1 > post.copies
    BY DEF PostType
  <2>3. Takes \in PostType /\ Takes.copies = post.copies + 1
    BY <2>1, <2>2 DEF PostType
  <2> QED BY <1>1, <2>2, <2>3 DEF PostType
<1>2. CASE call.op = "edit"
  BY <1>2 DEF Takes, PostType
<1>3. CASE call.op = "delete"
  <2>1. Takes = [post EXCEPT !.there = FALSE]
    BY <1>3 DEF Takes
  <2>2. Takes \in PostType /\ Takes.copies = post.copies /\ ~ Takes.there
    BY <2>1 DEF PostType
  <2> QED BY <1>3, <2>2 DEF PostType
<1> QED BY <1>1, <1>2, <1>3 DEF CallType

\* What the platform answers for reasons of its own says how the message is.
LEMMA VerdictMeans ==
  ASSUME call \in CallType
  PROVE  /\ Verdict = "missing" => ~ post.there
         /\ Verdict = "not_modified" => call.op = "edit" /\ post.text = "new"
         /\ Verdict \notin {"late", "lost", "forbidden", "flood"}
<1>1. CASE call.op = "send"
  BY <1>1 DEF Verdict
<1>2. CASE call.op = "edit"
  BY <1>2 DEF Verdict
<1>3. CASE call.op = "delete"
  BY <1>3 DEF Verdict
<1> QED BY <1>1, <1>2, <1>3 DEF CallType

\* What an answer tells of the message, which is never less sent than it was.
LEMMA AnswerEffect ==
  ASSUME CallInv, NEW e \in Answers, Answer(e)
  PROVE  /\ post' \in PostType /\ post'.copies >= post.copies
         /\ e = "ok" => /\ call.op = "send" => post'.copies > post.copies
                        /\ call.op = "edit" => post'.text = "new"
                        /\ call.op = "delete" => ~ post'.there
         /\ e = "missing" => ~ post'.there
         /\ e = "not_modified" => call.op = "edit" /\ post'.text = "new"
<1>1. post \in PostType /\ call \in CallType
  BY DEF CallInv
<1>2. \/ e = Verdict /\ post' = IF e = "ok" THEN Takes ELSE post
      \/ e = "late" /\ post' = Takes
      \/ e \in {"lost", "forbidden", "flood"} /\ post' = post
  BY DEF Answer
<1>3. post.copies \in Nat
  BY <1>1 DEF PostType
<1> QED BY <1>1, <1>2, <1>3, TakesEffect, VerdictMeans

\* A call that is not over is as it should be whatever the message is.
LEMMA CallGoesOn ==
  ASSUME post' \in PostType, call' \in CallType, call'.id \in 0..post'.copies,
         call'.pc # "returned"
  PROVE  CallInv'
BY DEF CallInv, ReturnedIsDone

\* Success returns the message's number.
LEMMA CallSucceeds ==
  ASSUME CallInv, Answer("ok"), call' = Returns(post'.copies)
  PROVE  CallInv'
<1>1. post \in PostType /\ call \in CallType
  BY DEF CallInv
<1>2. /\ post' \in PostType /\ post'.copies >= post.copies
      /\ call.op = "send" => post'.copies > post.copies
      /\ call.op = "edit" => post'.text = "new"
      /\ call.op = "delete" => ~ post'.there
  BY AnswerEffect DEF Answers
<1>3. post.copies \in Nat /\ post'.copies \in Nat
  BY <1>1, <1>2 DEF PostType
<1>4. /\ call' \in CallType /\ call'.id = post'.copies /\ call'.op = call.op
  BY <1>1, <1>3 DEF Returns, CallType
<1>5. call'.op \in {"send", "edit", "delete"}
  BY <1>4 DEF CallType
<1>6. ReturnedIsDone'
  <2>1. CASE call'.op = "send"
    BY <1>2, <1>3, <1>4, <2>1 DEF ReturnedIsDone
  <2>2. CASE call'.op = "edit"
    BY <1>2, <1>4, <2>2 DEF ReturnedIsDone
  <2>3. CASE call'.op = "delete"
    BY <1>2, <1>4, <2>3 DEF ReturnedIsDone
  <2> QED BY <1>5, <2>1, <2>2, <2>3
<1> QED BY <1>2, <1>3, <1>4, <1>6 DEF CallInv

\* What is ignored leaves nothing to be done, or may be left undone.
LEMMA CallIgnores ==
  ASSUME CallInv, NEW e \in Answers \cup {"unreached"}, call' = Ignores(e),
         post' \in PostType, post'.copies >= post.copies,
         \/ call.op = "edit" /\ (post'.text = "new" \/ ~ post'.there)
         \/ call.op = "delete" /\ \/ ~ post'.there
                                  \/ e \in {"unreached", "not_allowed", "forbidden"}
  PROVE  CallInv'
<1>1. post \in PostType /\ call \in CallType /\ call.id \in 0..post.copies
  BY DEF CallInv
<1>2. post.copies \in Nat /\ post'.copies \in Nat
  BY <1>1 DEF PostType
<1>3. /\ call' \in CallType /\ call'.id = call.id /\ call'.op = call.op
      /\ call'.error = e
  BY <1>1 DEF Ignores, CallType
<1>4. ReturnedIsDone'
  <2>1. CASE call.op = "edit"
    BY <1>3, <2>1 DEF ReturnedIsDone
  <2>2. CASE call.op = "delete"
    BY <1>3, <2>2 DEF ReturnedIsDone
  <2> QED BY <2>1, <2>2
<1> QED BY <1>1, <1>2, <1>3, <1>4 DEF CallInv

LEMMA CallMove == CallInv /\ DeliveryMoves => CallInv'
<1> SUFFICES ASSUME CallInv, DeliveryMoves PROVE CallInv'
  OBVIOUS
<1>a. /\ post \in PostType /\ call \in CallType /\ call.id \in 0..post.copies
      /\ post.copies \in Nat
  BY DEF CallInv, PostType
<1>b. call.op \in {"send", "edit", "delete"} /\ call.attempt \in 1..MaxRetries
      /\ call.rounds \in 0..Again /\ MaxRetries = 3 /\ Again = 2
  BY <1>a DEF CallType, MaxRetries, Again
<1>1. ASSUME NEW e \in Answers \cup {"unreached"}, call' = RaisesError(e),
             post' \in PostType, post'.copies >= post.copies
      PROVE  CallInv'
  <2>1. call' \in CallType /\ call'.id = call.id /\ call'.pc = "raised"
    BY <1>a, <1>1 DEF RaisesError, CallType
  <2>2. call'.id \in 0..post'.copies
    BY <1>a, <1>1, <2>1 DEF PostType
  <2> QED BY <1>1, <2>1, <2>2, CallGoesOn
<1>2. CASE NotReached
  <2>1. /\ post' = post
        /\ \/ call' = RaisesError("unreached")
           \/ call.op = "delete" /\ call' = Ignores("unreached")
    BY <1>2 DEF NotReached
  <2> QED BY <1>a, <1>1, <2>1, CallIgnores
<1>3. CASE TelegramRequest
  <2>1. PICK e \in Answers : Answer(e) /\ call' = After(e)
    BY <1>3 DEF TelegramRequest
  <2>2. /\ post' \in PostType /\ post'.copies >= post.copies
        /\ e = "not_modified" => call.op = "edit" /\ post'.text = "new"
    BY <2>1, AnswerEffect
  <2>3. CASE e = "ok"
    BY <2>1, <2>3, CallSucceeds DEF After
  <2>4. CASE e # "ok" /\ call.pc = "once_more"
    BY <1>1, <2>1, <2>2, <2>4 DEF After
  <2>5. CASE e # "ok" /\ call.pc # "once_more" /\ Handling(e) = "ignore"
    <3>1. e = "not_modified"
      BY <2>5 DEF Handling, NetworkErrors
    <3>2. call' = Ignores(e)
      BY <2>1, <2>5 DEF After
    <3> QED BY <2>2, <3>1, <3>2, CallIgnores
  <2>6. CASE e # "ok" /\ call.pc # "once_more" /\ Handling(e) = "raise"
    <3>1. call' = RaisesError(e)
      BY <2>1, <2>6 DEF After
    <3> QED BY <1>1, <2>2, <3>1
  <2>7. CASE e # "ok" /\ call.pc # "once_more" /\ Handling(e) = "again"
    <3>1. CASE ~ AttemptLeft
      <4>1. call' = RaisesError(e)
        BY <2>1, <2>7, <3>1 DEF After
      <4> QED BY <1>1, <2>2, <4>1
    \* behind the last attempt the loop does not run out
    <3>2. CASE AttemptLeft
      <4>1. call.attempt # MaxRetries /\ call.attempt + 1 \in 1..MaxRetries
        BY <1>b, <3>2 DEF AttemptLeft
      <4>2. call' = [call EXCEPT !.attempt = call.attempt + 1]
        BY <2>1, <2>7, <3>2, <4>1 DEF After
      <4>3. call' \in CallType /\ call'.id = call.id /\ call'.pc = call.pc
        BY <1>a, <4>1, <4>2 DEF CallType
      <4>4. call.pc # "returned"
        BY <1>3 DEF TelegramRequest
      <4> QED BY <1>a, <2>2, <4>3, <4>4, CallGoesOn DEF PostType
    <3> QED BY <3>1, <3>2
  <2>8. CASE e # "ok" /\ call.pc # "once_more" /\ Handling(e) \in {"wait", "plain"}
    <3>1. \/ call' = [call EXCEPT !.pc = "once_more"]
          \/ call' = [call EXCEPT !.pc = "once_more", !.marked = FALSE]
      BY <2>1, <2>8 DEF After
    <3>2. call' \in CallType /\ call'.id = call.id /\ call'.pc = "once_more"
      BY <1>a, <3>1 DEF CallType
    <3> QED BY <1>a, <2>2, <3>2, CallGoesOn DEF PostType
  <2>9. Handling(e) \in {"ignore", "raise", "again", "wait", "plain"}
    BY DEF Handling
  <2> QED BY <2>3, <2>4, <2>5, <2>6, <2>7, <2>8, <2>9
<1>4. CASE DiscordFetches
  <2>1. /\ post' = post
        /\ \/ call' = [call EXCEPT !.pc = "found"]
           \/ call.op # "send" /\ ~ post.there /\ call' = Ignores("missing")
           \/ call' = RaisesError("lost")
           \/ call.op = "delete" /\ call' = Ignores("forbidden")
    BY <1>4 DEF DiscordFetches
  <2>2. CASE call' = [call EXCEPT !.pc = "found"]
    <3>1. call' \in CallType /\ call'.id = call.id /\ call'.pc = "found"
      BY <1>a, <2>2 DEF CallType
    <3> QED BY <1>a, <2>1, <3>1, CallGoesOn
  <2>3. CASE call' = RaisesError("lost")
    BY <1>a, <1>1, <2>1, <2>3 DEF Answers
  <2>4. CASE call.op # "send" /\ ~ post.there /\ call' = Ignores("missing")
    BY <1>a, <1>b, <2>1, <2>4, CallIgnores DEF Answers
  <2>5. CASE call.op = "delete" /\ call' = Ignores("forbidden")
    BY <1>a, <2>1, <2>5, CallIgnores DEF Answers
  <2> QED BY <2>1, <2>2, <2>3, <2>4, <2>5
<1>5. CASE DiscordRequest
  <2>1. PICK e \in Answers :
          /\ Answer(e)
          /\ call' = IF e = "ok" THEN Returns(post'.copies)
                     ELSE IF call.op = "delete" /\ e \in {"missing", "not_allowed", "forbidden"}
                          THEN Ignores(e) ELSE RaisesError(e)
    BY <1>5 DEF DiscordRequest
  <2>2. post' \in PostType /\ post'.copies >= post.copies /\ (e = "missing" => ~ post'.there)
    BY <2>1, AnswerEffect
  <2>3. CASE e = "ok"
    BY <2>1, <2>3, CallSucceeds
  <2>4. CASE e # "ok" /\ call.op = "delete" /\ e \in {"missing", "not_allowed", "forbidden"}
    BY <2>1, <2>2, <2>4, CallIgnores
  <2>5. CASE e # "ok" /\ ~ (call.op = "delete" /\ e \in {"missing", "not_allowed", "forbidden"})
    <3>1. call' = RaisesError(e)
      BY <2>1, <2>5
    <3> QED BY <1>1, <2>2, <3>1
  <2> QED BY <2>3, <2>4, <2>5
<1>6. CASE MadeAgain
  <2>1. /\ call' = [call EXCEPT !.pc = "ready", !.attempt = 1, !.marked = TRUE,
                               !.rounds = call.rounds + 1, !.error = "none"]
        /\ post' = post /\ call.rounds + 1 \in 0..Again /\ 1 \in 1..MaxRetries
    BY <1>b, <1>6 DEF MadeAgain
  <2>2. call' \in CallType /\ call'.id = call.id /\ call'.pc = "ready"
    BY <1>a, <2>1 DEF CallType
  <2> QED BY <1>a, <2>1, <2>2, CallGoesOn
<1>7. CASE UserDeletes
  <2>1. /\ post' = [post EXCEPT !.there = FALSE] /\ call' = call /\ call.pc # "returned"
    BY <1>7 DEF UserDeletes
  <2>2. post' \in PostType /\ post'.copies = post.copies
    BY <1>a, <2>1 DEF PostType
  <2> QED BY <1>a, <2>1, <2>2, CallGoesOn
<1> QED BY <1>2, <1>3, <1>4, <1>5, <1>6, <1>7 DEF DeliveryMoves

LEMMA CallKept == CallInv /\ UNCHANGED delivery_vars => CallInv'
BY DEF CallInv, delivery_vars, ReturnedIsDone

-----------------------------------------------------------------------------
(* The chat platform in the lives of the server.                            *)

\* A step of the server concerns the calls or leaves them alone, and the same goes for the
\* platform, which its steps find in the phase of the server they belong to.
LEMMA CallFrame == [Next]_app_vars => DeliveryMoves \/ UNCHANGED delivery_vars
<1> SUFFICES ASSUME [Next]_app_vars PROVE DeliveryMoves \/ UNCHANGED delivery_vars
  OBVIOUS
<1> USE DEF chat_vars
<1>1. CASE Startup \/ BeginShutdown
  BY <1>1 DEF Startup, BeginShutdown, NotProviders, NotSessions, NoPart, NotAdmin
<1>2. CASE ShutdownMoves
  BY <1>2 DEF ShutdownMoves, StopProbe, ChatStopped, LimiterShutDown, Exit, NotProviders,
              NotPlatform, NotSessions, NoPart, NotAdmin
<1>3. CASE SessionsStep
  BY <1>3 DEF SessionsStep, Sessions, NotSessions
<1>4. CASE ProvidersStep
  BY <1>4 DEF ProvidersStep, Models, NotProviders
<1>5. CASE VoiceStep
  BY <1>5 DEF VoiceStep, Voice, NotVoice
<1>6. CASE AdminStep
  BY <1>6 DEF AdminStep, Admin, NotAdmin
<1>7. CASE PlatformStep
  BY <1>7 DEF PlatformStep, StartsChat, ChatStarted, StopsChat, Interrupted, Platform,
              NotPlatform, NoPart, NotAdmin
<1>8. CASE DeliveryStep
  BY <1>8 DEF DeliveryStep, Call
<1>9. CASE UNCHANGED app_vars
  BY <1>9 DEF app_vars
<1> QED BY <1>1, <1>2, <1>3, <1>4, <1>5, <1>6, <1>7, <1>8, <1>9, Zenon DEF Next

\* The server goes on and the platform rests.
ServerMoves ==
  \/ phase' = phase
  \/ phase \in {"validating", "starting"} /\ phase' \in {"starting", "running"}
  \/ phase' = "stopping_limiter" /\ (HasRuntime => platform.stop # "none")
  \/ phase' \notin {"validating", "starting", "running", "stopping_limiter"}

LEMMA PlatformFrame ==
  [Next]_app_vars =>
    \/ ServerMoves /\ UNCHANGED platform_vars
    \/ /\ phase' = phase
       /\ \/ phase = "starting" /\ StartMoves
          \/ phase = "stopping_platform" /\ StopMoves
          \/ DiscordReady \/ DiscordEnds \/ AskRestart
    \/ phase = "stopping_limiter" /\ LifeEnds /\ phase' \in {"validating", "exited"}
<1> SUFFICES ASSUME [Next]_app_vars
             PROVE  \/ ServerMoves /\ UNCHANGED platform_vars
                    \/ /\ phase' = phase
                       /\ \/ phase = "starting" /\ StartMoves
                          \/ phase = "stopping_platform" /\ StopMoves
                          \/ DiscordReady \/ DiscordEnds \/ AskRestart
                    \/ /\ phase = "stopping_limiter" /\ LifeEnds
                       /\ phase' \in {"validating", "exited"}
  OBVIOUS
<1> USE DEF chat_vars, ServerMoves
<1>1. CASE Startup
  BY <1>1 DEF Startup, Comes, NotProviders
<1>2. CASE BeginShutdown
  BY <1>2 DEF BeginShutdown, NotSessions, NoPart, NotAdmin
<1>3. CASE StopProbe \/ ChatStopped \/ Exit
  BY <1>3 DEF StopProbe, ChatStopped, Exit, Comes, NotProviders, NotSessions, NoPart, NotAdmin
<1>4. CASE LimiterShutDown
  BY <1>4 DEF LimiterShutDown, Comes
<1>5. CASE SessionsStep
  BY <1>5 DEF SessionsStep, Sessions, NotSessions
<1>6. CASE ProvidersStep
  BY <1>6 DEF ProvidersStep, Models, NotProviders
<1>7. CASE VoiceStep
  BY <1>7 DEF VoiceStep, Voice, NotVoice
<1>8. CASE AdminStep
  BY <1>8 DEF AdminStep, Admin, NotAdmin
<1>9. CASE PlatformStep
  BY <1>9 DEF PlatformStep, StartsChat, ChatStarted, StopsChat, Interrupted, Platform,
              Comes, NoPart, NotAdmin
<1>10. CASE DeliveryStep
  BY <1>10 DEF DeliveryStep, Call, NotDelivery
<1>11. CASE UNCHANGED app_vars
  BY <1>11 DEF app_vars
<1> QED
  BY <1>1, <1>2, <1>3, <1>4, <1>5, <1>6, <1>7, <1>8, <1>9, <1>10, <1>11, Zenon
  DEF Next, ShutdownMoves

\* How far the start has come says what there is; the stop says what is left.
StagesSound ==
  /\ platform.start \in {"trying", "polling", "waiting", "up"}
     \/ platform.client \in {"connecting", "receiving"} => platform.restored
  /\ platform.start \in {"none", "restoring", "trying"} => platform.attempts < MaxAttempts
  /\ ~ HasRuntime \/ platform.stop = "done" => platform.client \in {"none", "closed"}
  /\ phase \in {"validating", "starting", "running"} => platform.stop = "none"

\* The limiter there is, if any, is of this life, and a life to come is one there can be.
LivesSound ==
  /\ limiter_of \in {NoLife, life} /\ platform.limiter \in {NoLife, limiter_of}
  /\ restart => life < Lives

PlatformInv == PlatformTypeOK /\ StagesSound /\ LivesSound /\ NoClientLeft

LEMMA PlatformStart == PlatformInit /\ phase = "validating" => PlatformInv
<1> SUFFICES ASSUME PlatformInit, phase = "validating" PROVE PlatformInv
  OBVIOUS
<1>1. platform = FreshPlatform /\ life = 1 /\ ~ restart /\ limiter_of = NoLife
      /\ restart \in BOOLEAN
  BY DEF PlatformInit
<1>2. 1 \in 1..Lives /\ 0 \in 0..Lives /\ 0 \in 0..MaxAttempts
  BY PlatformAssumption DEF MaxAttempts
<1>3. PlatformTypeOK
  BY <1>1, <1>2 DEF PlatformTypeOK, PlatformType, FreshPlatform, NoLife
<1>4. StagesSound /\ LivesSound /\ NoClientLeft
  BY <1>1 DEF StagesSound, LivesSound, NoClientLeft, FreshPlatform, MaxAttempts
<1> QED BY <1>3, <1>4 DEF PlatformInv

LEMMA PlatformRests == PlatformInv /\ ServerMoves /\ UNCHANGED platform_vars => PlatformInv'
BY DEF PlatformInv, ServerMoves, platform_vars, PlatformTypeOK, PlatformType, StagesSound, LivesSound,
       NoClientLeft, HasRuntime

\* A new record for the platform, in the same life and with the same limiter.
LEMMA PlatformBecomes ==
  ASSUME PlatformInv, phase' = phase, NEW p, Becomes(p),
         p \in PlatformType,
         p.limiter = platform.limiter,
         p.start \in {"trying", "polling", "waiting", "up"}
           \/ p.client \in {"connecting", "receiving"} => p.restored,
         p.start \in {"none", "restoring", "trying"} => p.attempts < MaxAttempts,
         p.kind = "disabled" \/ p.stop = "done" => p.client \in {"none", "closed"},
         phase \in {"validating", "starting", "running"} => p.stop = "none",
         phase = "stopping_limiter" =>
           p.client \in {"none", "closed"} \/ p.stop \in {"raised", "timed_out"}
  PROVE  PlatformInv'
<1>1. platform' = p /\ life' = life /\ restart' = restart /\ limiter_of' = limiter_of
  BY DEF Becomes, SameLife
<1>2. PlatformTypeOK'
  BY <1>1 DEF PlatformInv, PlatformTypeOK, PlatformType
<1>3. StagesSound' /\ LivesSound' /\ NoClientLeft'
  BY <1>1 DEF PlatformInv, StagesSound, LivesSound, NoClientLeft, HasRuntime
<1> QED BY <1>2, <1>3 DEF PlatformInv

LEMMA StartKeeps == PlatformInv /\ phase' = phase /\ phase = "starting" /\ StartMoves => PlatformInv'
<1> SUFFICES ASSUME PlatformInv, phase' = phase, phase = "starting", StartMoves
             PROVE  PlatformInv'
  OBVIOUS
<1>a. PlatformTypeOK /\ StagesSound /\ LivesSound /\ platform.stop = "none"
  BY DEF PlatformInv, StagesSound
<1>b. /\ life \in 1..Lives /\ limiter_of \in 0..Lives /\ platform.attempts \in Nat
      /\ MaxAttempts = 3 /\ Lives \in Nat
  BY <1>a, PlatformAssumption DEF PlatformTypeOK, PlatformType, MaxAttempts
<1> USE DEF PlatformTypeOK, PlatformType, StagesSound, HasRuntime
<1>1. CASE Compose
  <2>1. CASE Becomes([platform EXCEPT !.start = "failed"])
    BY <1>a, <2>1, PlatformBecomes
  <2>2. ASSUME NEW kind \in Kinds,
               Becomes([platform EXCEPT !.kind = kind, !.start = "restoring",
                                   !.client = IF kind = "discord" THEN "made" ELSE "none"])
        PROVE  PlatformInv'
    <3>1. kind # "disabled"
      BY PlatformAssumption
    <3> QED BY <1>1, <1>a, <2>2, <3>1, PlatformBecomes DEF Compose
  <2> QED BY <1>1, <2>1, <2>2 DEF Compose
<1>2. CASE Restore
  <2>1. CASE Becomes([platform EXCEPT !.restored = TRUE, !.start = "trying"])
    BY <1>2, <1>a, <2>1, PlatformBecomes DEF Restore
  <2>2. CASE Becomes([platform EXCEPT !.start = "failed"])
    BY <1>a, <2>2, PlatformBecomes
  <2> QED BY <1>2, <2>1, <2>2 DEF Restore
<1>3. CASE TryTelegram
  <2>0. platform.kind = "telegram" /\ platform.restored /\ platform.start = "trying"
        /\ platform.attempts < 3
    BY <1>3, <1>a, <1>b DEF TryTelegram, Starting
  <2>1. CASE Becomes([platform EXCEPT !.client = "receiving", !.connected = TRUE,
                                      !.start = "polling"])
    BY <1>a, <2>0, <2>1, PlatformBecomes
  <2>2. ASSUME NEW client \in {"made", "started"},
               Becomes([platform EXCEPT
                     !.client = client, !.attempts = platform.attempts + 1,
                     !.start = IF platform.attempts + 1 = MaxAttempts THEN "failed"
                               ELSE platform.start])
        PROVE  PlatformInv'
    <3>1. platform.attempts + 1 \in 0..MaxAttempts
          /\ (platform.attempts + 1 # MaxAttempts => platform.attempts + 1 < MaxAttempts)
      BY <1>b, <2>0
    <3> QED BY <1>a, <2>0, <2>2, <3>1, PlatformBecomes
  <2> QED BY <1>3, <2>1, <2>2 DEF TryTelegram
<1>4. ASSUME NEW p, platform' = p, SameLife, limiter_of' = GetInstance,
             p \in PlatformType,
             p.limiter = GetInstance, p.restored, p.start \in {"up", "waiting"},
             p.kind # "disabled", p.stop = "none"
      PROVE  PlatformInv'
  <2>1. life' = life /\ restart' = restart /\ GetInstance \in 0..Lives
        /\ GetInstance \in {NoLife, life}
    BY <1>4, <1>a, <1>b DEF SameLife, GetInstance, LivesSound
  <2>2. PlatformTypeOK'
    BY <1>4, <1>a, <2>1
  <2>3. StagesSound' /\ NoClientLeft'
    BY <1>4 DEF NoClientLeft
  <2>4. LivesSound'
    BY <1>4, <1>a, <2>1 DEF LivesSound
  <2> QED BY <2>2, <2>3, <2>4 DEF PlatformInv
<1>5. CASE TelegramStarted
  <2> DEFINE p == [platform EXCEPT !.limiter = GetInstance, !.start = "up"]
  <2>1. GetInstance \in 0..Lives
    BY <1>b DEF GetInstance
  <2>2. /\ platform' = p /\ SameLife /\ limiter_of' = GetInstance
        /\ platform.kind = "telegram" /\ platform.start = "polling"
    BY <1>5 DEF TelegramStarted, Starting
  <2>3. /\ p \in PlatformType
        /\ p.limiter = GetInstance /\ p.restored = platform.restored /\ p.start = "up"
        /\ p.kind = platform.kind /\ p.stop = platform.stop
    BY <1>a, <2>1
  <2>4. platform.restored
    BY <1>a, <2>2
  <2> HIDE DEF p
  <2> QED BY <1>4, <1>a, <2>2, <2>3, <2>4
<1>6. CASE StartDiscord
  <2> DEFINE p == [platform EXCEPT !.limiter = GetInstance, !.client = "connecting",
                                   !.start = "waiting"]
  <2>1. GetInstance \in 0..Lives
    BY <1>b DEF GetInstance
  <2>2. /\ platform' = p /\ SameLife /\ limiter_of' = GetInstance
        /\ platform.kind = "discord" /\ platform.start = "trying"
    BY <1>6 DEF StartDiscord, Starting
  <2>3. /\ p \in PlatformType
        /\ p.limiter = GetInstance /\ p.restored = platform.restored /\ p.start = "waiting"
        /\ p.kind = platform.kind /\ p.stop = platform.stop
    BY <1>a, <2>1
  <2>4. platform.restored
    BY <1>a, <2>2
  <2> HIDE DEF p
  <2> QED BY <1>4, <1>a, <2>2, <2>3, <2>4
<1>7. CASE DiscordStarted
  <2>1. platform.kind = "discord" /\ platform.restored
    BY <1>7, <1>a DEF DiscordStarted, Starting
  <2>2. PICK start \in {"up", "failed"} : Becomes([platform EXCEPT !.start = start])
    BY <1>7 DEF DiscordStarted
  <2> QED BY <1>a, <2>1, <2>2, PlatformBecomes
<1> QED BY <1>1, <1>2, <1>3, <1>5, <1>6, <1>7 DEF StartMoves

\* What a stop comes to: a client that is as it was or that receives no more, and no open one
\* if the stop went well.
LEMMA StopEndsWith ==
  ASSUME PlatformInv, phase' = phase, phase = "stopping_platform", NEW p, Becomes(p),
         NEW client \in {"none", "made", "started", "connecting", "receiving", "dead", "closed"},
         NEW how \in {"done", "raised", "timed_out"}, NEW connected \in BOOLEAN,
         p = [platform EXCEPT !.client = client, !.stop = how, !.connected = connected],
         client = platform.client \/ client \in {"none", "started", "closed"},
         HasRuntime \/ client \in {platform.client, "closed"},
         how = "done" => client \in {"none", "closed"}
  PROVE  PlatformInv'
<1>1. PlatformTypeOK /\ StagesSound
  BY DEF PlatformInv
<1>2. /\ p \in PlatformType /\ p.kind = platform.kind /\ p.restored = platform.restored
      /\ p.start = platform.start /\ p.attempts = platform.attempts
      /\ p.limiter = platform.limiter /\ p.client = client /\ p.stop = how
  BY <1>1 DEF PlatformTypeOK, PlatformType
<1>3. /\ p.start \in {"trying", "polling", "waiting", "up"}
           \/ p.client \in {"connecting", "receiving"} => p.restored
      /\ p.start \in {"none", "restoring", "trying"} => p.attempts < MaxAttempts
      /\ p.kind = "disabled" \/ p.stop = "done" => p.client \in {"none", "closed"}
  BY <1>1, <1>2 DEF StagesSound, HasRuntime
<1> QED BY <1>2, <1>3, PlatformBecomes

LEMMA StopKeeps ==
  PlatformInv /\ phase' = phase /\ phase = "stopping_platform" /\ StopMoves => PlatformInv'
<1> SUFFICES ASSUME PlatformInv, phase' = phase, phase = "stopping_platform", StopMoves
             PROVE  PlatformInv'
  OBVIOUS
<1>1. platform \in PlatformType
  BY DEF PlatformInv, PlatformTypeOK
<1>2. ASSUME NEW client \in {"none", "made", "started", "connecting", "receiving", "dead", "closed"},
             NEW how \in {"done", "raised"}, Stopped(client, how), HasRuntime,
             client = platform.client \/ client \in {"none", "started", "closed"},
             how = "done" => client \in {"none", "closed"}
      PROVE  PlatformInv'
  <2> DEFINE connected == platform.connected /\ how # "done"
  <2> DEFINE p == [platform EXCEPT !.client = client, !.stop = how, !.connected = connected]
  <2>1. Becomes(p)
    BY <1>2 DEF Stopped
  <2>2. connected \in BOOLEAN /\ how \in {"done", "raised", "timed_out"}
    OBVIOUS
  <2> HIDE DEF connected
  <2> QED BY <1>2, <2>1, <2>2, StopEndsWith
<1>3. platform.client \in {"none", "made", "started", "connecting", "receiving", "dead", "closed"}
  BY <1>1 DEF PlatformType
<1>4. platform.kind \in {"telegram", "discord"} => HasRuntime
  BY DEF HasRuntime
<1>5. CASE StopTelegram
  BY <1>2, <1>3, <1>4, <1>5 DEF StopTelegram
<1>6. CASE StopDiscord
  BY <1>2, <1>3, <1>4, <1>6 DEF StopDiscord
<1>7. CASE StopTimesOut
  <2>1. PICK client \in {platform.client, "closed"} \cup
               (IF platform.kind = "telegram" /\ platform.client = "receiving" THEN {"started"}
                ELSE {}) :
          Becomes([platform EXCEPT !.client = client, !.stop = "timed_out"])
    BY <1>7 DEF StopTimesOut
  <2> DEFINE p == [platform EXCEPT !.client = client, !.stop = "timed_out"]
  <2>2. p = [platform EXCEPT !.client = client, !.stop = "timed_out",
                             !.connected = platform.connected]
        /\ platform.connected \in BOOLEAN
    BY <1>1 DEF PlatformType
  <2>3. /\ client \in {"none", "made", "started", "connecting", "receiving", "dead", "closed"}
        /\ client = platform.client \/ client \in {"none", "started", "closed"}
        /\ HasRuntime \/ client \in {platform.client, "closed"}
    BY <1>3, <1>4, <2>1
  <2> HIDE DEF p
  <2>4. Becomes(p)
    BY <2>1 DEF p
  <2> QED BY <2>2, <2>3, <2>4, StopEndsWith
<1> QED BY <1>5, <1>6, <1>7 DEF StopMoves

\* What happens to a platform on its own.
LEMMA LaterKeeps ==
  PlatformInv /\ phase' = phase /\ (DiscordReady \/ DiscordEnds \/ AskRestart) => PlatformInv'
<1> SUFFICES ASSUME PlatformInv, phase' = phase, DiscordReady \/ DiscordEnds \/ AskRestart
             PROVE  PlatformInv'
  OBVIOUS
<1>1. PlatformTypeOK /\ StagesSound /\ NoClientLeft /\ LivesSound
  BY DEF PlatformInv
<1>2. ASSUME NEW client \in {"receiving", "dead", "closed"}, NEW connected \in BOOLEAN,
             Becomes([platform EXCEPT !.client = client, !.connected = connected]),
             platform.client \in {"connecting", "receiving"}
      PROVE  PlatformInv'
  <2> DEFINE p == [platform EXCEPT !.client = client, !.connected = connected]
  <2>1. /\ p \in PlatformType /\ p.kind = platform.kind /\ p.restored = platform.restored
        /\ p.start = platform.start /\ p.attempts = platform.attempts
        /\ p.limiter = platform.limiter /\ p.client = client /\ p.stop = platform.stop
    BY <1>1 DEF PlatformTypeOK, PlatformType
  <2>2. Becomes(p)
    BY <1>2
  <2> HIDE DEF p
  <2>3. /\ p.restored
        /\ p.start \in {"none", "restoring", "trying"} => p.attempts < MaxAttempts
        /\ p.kind # "disabled" /\ p.stop # "done"
        /\ phase \in {"validating", "starting", "running"} => p.stop = "none"
        /\ phase = "stopping_limiter" => p.stop \in {"raised", "timed_out"}
    BY <1>1, <1>2, <2>1 DEF StagesSound, HasRuntime, NoClientLeft
  <2> QED BY <2>1, <2>2, <2>3, PlatformBecomes
<1>3. CASE DiscordReady
  BY <1>2, <1>3 DEF DiscordReady
<1>4. CASE DiscordEnds
  <2>1. PICK client \in {"dead", "closed"} : Becomes([platform EXCEPT !.client = client])
    BY <1>4 DEF DiscordEnds
  <2>2. [platform EXCEPT !.client = client]
          = [platform EXCEPT !.client = client, !.connected = platform.connected]
        /\ platform.connected \in BOOLEAN
    BY <1>1 DEF PlatformTypeOK, PlatformType
  <2> QED BY <1>2, <1>4, <2>1, <2>2 DEF DiscordEnds
<1>5. CASE AskRestart
  BY <1>1, <1>5 DEF AskRestart, PlatformInv, PlatformTypeOK, StagesSound, LivesSound,
                    NoClientLeft, HasRuntime
<1> QED BY <1>3, <1>4, <1>5

\* The next life finds no runtime and, as the instance is forgotten, no limiter.
LEMMA NextLife ==
  PlatformInv /\ LifeEnds /\ phase' \in {"validating", "exited"} => PlatformInv'
<1> SUFFICES ASSUME PlatformInv, LifeEnds, phase' \in {"validating", "exited"}
             PROVE  PlatformInv'
  OBVIOUS
<1>1. platform' = FreshPlatform /\ ~ restart' /\ limiter_of' = NoLife
      /\ restart' \in BOOLEAN /\ life' = IF restart THEN life + 1 ELSE life
  BY DEF LifeEnds, Forgotten
<1>2. life' \in 1..Lives
  BY <1>1, PlatformAssumption DEF PlatformInv, PlatformTypeOK, LivesSound
<1>3. FreshPlatform \in PlatformType /\ NoLife \in 0..Lives
  BY PlatformAssumption DEF FreshPlatform, PlatformType, MaxAttempts, NoLife
<1>4. PlatformTypeOK'
  BY <1>1, <1>2, <1>3 DEF PlatformTypeOK
<1>5. StagesSound' /\ LivesSound' /\ NoClientLeft'
  BY <1>1 DEF StagesSound, LivesSound, NoClientLeft, HasRuntime, FreshPlatform, MaxAttempts
<1> QED BY <1>4, <1>5 DEF PlatformInv

\* The chat platform and the calls to it are sound in every life of the server
\* (messaging/platforms/telegram.py, discord.py, telegram_io.py, discord_io.py).
THEOREM PlatformCorrect == Spec => []PlatformSound
<1>1. AppInit => PlatformInv /\ CallInv
  BY PlatformStart, CallStart DEF AppInit
<1>2. PlatformInv /\ [Next]_app_vars => PlatformInv'
  BY PlatformFrame, PlatformRests, StartKeeps, StopKeeps, LaterKeeps, NextLife
<1>3. CallInv /\ [Next]_app_vars => CallInv'
  BY CallFrame, CallMove, CallKept
<1>4. PlatformInv /\ CallInv => PlatformSound
  <2>1. CallInv => DeliveryTypeOK /\ ReturnedIsDone
    BY DEF CallInv, CallType, PostType, DeliveryTypeOK
  <2>2. StagesSound => ReceivesRestored
    BY DEF StagesSound, ReceivesRestored
  <2>3. LivesSound => LimiterOfThisLife
    BY DEF LivesSound, LimiterOfThisLife
  <2> QED BY <2>1, <2>2, <2>3 DEF PlatformInv, PlatformSound
<1> QED BY <1>1, <1>2, <1>3, <1>4, PTL DEF Spec

-----------------------------------------------------------------------------
(* The settings of the admin page.                                          *)

\* A step of the server is one of the page or leaves the settings alone.
LEMMA AdminFrame == [Next]_app_vars => AdminMoves \/ UNCHANGED admin_vars
<1> SUFFICES ASSUME [Next]_app_vars PROVE AdminMoves \/ UNCHANGED admin_vars
  OBVIOUS
<1>1. CASE Startup \/ BeginShutdown \/ ShutdownMoves
  BY <1>1
  DEF Startup, BeginShutdown, ShutdownMoves, StopProbe, ChatStopped, LimiterShutDown, Exit, NoPart,
      NotProviders, NotSessions, NotPlatform, NotChat
<1>2. CASE SessionsStep \/ ProvidersStep
  BY <1>2 DEF SessionsStep, ProvidersStep, Sessions, Models, NotSessions, NotProviders
<1>3. CASE VoiceStep \/ DeliveryStep
  BY <1>3 DEF VoiceStep, DeliveryStep, Voice, Call, NotVoice, NotDelivery, NotChat
<1>4. CASE AdminStep
  BY <1>4 DEF AdminStep, Admin
<1>5. CASE PlatformStep
  BY <1>5 DEF PlatformStep, StartsChat, ChatStarted, StopsChat, Interrupted, Platform, NotPlatform,
              NotChat, NoPart
<1>6. CASE UNCHANGED app_vars
  BY <1>6 DEF app_vars
<1> QED BY <1>1, <1>2, <1>3, <1>4, <1>5, <1>6 DEF Next

\* What ValueIn finds, of any sources.
DefiningIn(src, S, k) == {s \in S : k \in DOMAIN src[s]}
FoundIn(src, S, k, otherwise) ==
  IF DefiningIn(src, S, k) = {} THEN otherwise
  ELSE src[CHOOSE s \in DefiningIn(src, S, k) :
             \A t \in DefiningIn(src, S, k) : Rank[t] <= Rank[s]][k]

LEMMA ValueFound ==
  ASSUME NEW S, NEW k, NEW otherwise
  PROVE  /\ ValueIn(S, k, otherwise) = FoundIn(sources, S, k, otherwise)
         /\ ValueIn(S, k, otherwise)' = FoundIn(sources', S, k, otherwise)
BY DEF ValueIn, FoundIn, DefiningIn

\* The source of the highest rank is the one that is found.
Last(src, S, k, s) ==
  /\ s \in S /\ S \subseteq Sources /\ k \in DOMAIN src[s]
  /\ \A t \in S : t # s /\ k \in DOMAIN src[t] => Rank[t] < Rank[s]

LEMMA LastFound ==
  ASSUME NEW src, NEW S, NEW k, NEW otherwise, NEW s, Last(src, S, k, s)
  PROVE  FoundIn(src, S, k, otherwise) = src[s][k]
<1> DEFINE D == DefiningIn(src, S, k)
           last == CHOOSE u \in D : \A t \in D : Rank[t] <= Rank[u]
<1>1. \A t \in Sources : Rank[t] \in 1..4
  BY DEF Sources, FileSources, Rank
<1>2. s \in D /\ \A t \in D : t # s => Rank[t] < Rank[s]
  BY DEF DefiningIn, Last
<1>3. D \subseteq Sources
  BY DEF DefiningIn, Last
<1>4. FoundIn(src, S, k, otherwise) = src[last][k]
  BY <1>2 DEF FoundIn
<1> HIDE DEF D
<1>5. \A t \in D : Rank[t] <= Rank[s]
  BY <1>1, <1>2, <1>3
<1>6. last \in D /\ \A t \in D : Rank[t] <= Rank[last]
  BY <1>2, <1>5
<1> HIDE DEF last
<1>7. last = s
  BY <1>1, <1>2, <1>3, <1>6
<1> QED BY <1>4, <1>7

LEMMA NoneFound ==
  ASSUME NEW src, NEW S, NEW k, NEW otherwise, \A s \in S : k \notin DOMAIN src[s]
  PROVE  FoundIn(src, S, k, otherwise) = otherwise
BY DEF FoundIn, DefiningIn

\* The precedence of the sources, spelt out.
FoundInFiles(src, k, otherwise) ==
  IF k \in DOMAIN src["explicit_env_file"] THEN src["explicit_env_file"][k]
  ELSE IF k \in DOMAIN src["managed_env"] THEN src["managed_env"][k]
  ELSE IF k \in DOMAIN src["repo_env"] THEN src["repo_env"][k]
  ELSE otherwise

LEMMA Precedence ==
  ASSUME NEW src, NEW k, NEW otherwise
  PROVE  /\ FoundIn(src, Sources, k, otherwise) =
              IF k \in DOMAIN src["process"] THEN src["process"][k]
              ELSE FoundInFiles(src, k, otherwise)
         /\ FoundIn(src, FileSources, k, otherwise) = FoundInFiles(src, k, otherwise)
         /\ FoundIn(src, {"managed_env"}, k, otherwise) =
              IF k \in DOMAIN src["managed_env"] THEN src["managed_env"][k] ELSE otherwise
<1>1. /\ Sources = {"repo_env", "managed_env", "explicit_env_file", "process"}
      /\ FileSources = {"repo_env", "managed_env", "explicit_env_file"}
      /\ Rank["repo_env"] = 1 /\ Rank["managed_env"] = 2 /\ Rank["explicit_env_file"] = 3
      /\ Rank["process"] = 4
  BY DEF Sources, FileSources, Rank
<1>2. FoundIn(src, Sources, k, otherwise) =
        IF k \in DOMAIN src["process"] THEN src["process"][k]
        ELSE FoundInFiles(src, k, otherwise)
  <2>1. CASE k \in DOMAIN src["process"]
    <3>1. Last(src, Sources, k, "process")
      BY <1>1, <2>1 DEF Last
    <3> QED BY <2>1, <3>1, LastFound
  <2>2. CASE k \notin DOMAIN src["process"] /\ k \in DOMAIN src["explicit_env_file"]
    <3>1. Last(src, Sources, k, "explicit_env_file")
      BY <1>1, <2>2 DEF Last
    <3> QED BY <2>2, <3>1, LastFound DEF FoundInFiles
  <2>3. CASE /\ k \notin DOMAIN src["process"] /\ k \notin DOMAIN src["explicit_env_file"]
             /\ k \in DOMAIN src["managed_env"]
    <3>1. Last(src, Sources, k, "managed_env")
      BY <1>1, <2>3 DEF Last
    <3> QED BY <2>3, <3>1, LastFound DEF FoundInFiles
  <2>4. CASE /\ k \notin DOMAIN src["process"] /\ k \notin DOMAIN src["explicit_env_file"]
             /\ k \notin DOMAIN src["managed_env"] /\ k \in DOMAIN src["repo_env"]
    <3>1. Last(src, Sources, k, "repo_env")
      BY <1>1, <2>4 DEF Last
    <3> QED BY <2>4, <3>1, LastFound DEF FoundInFiles
  <2>5. CASE \A s \in Sources : k \notin DOMAIN src[s]
    BY <1>1, <2>5, NoneFound DEF FoundInFiles
  <2> QED BY <1>1, <2>1, <2>2, <2>3, <2>4, <2>5
<1>3. FoundIn(src, FileSources, k, otherwise) = FoundInFiles(src, k, otherwise)
  <2>1. CASE k \in DOMAIN src["explicit_env_file"]
    <3>1. Last(src, FileSources, k, "explicit_env_file")
      BY <1>1, <2>1 DEF Last
    <3> QED BY <2>1, <3>1, LastFound DEF FoundInFiles
  <2>2. CASE k \notin DOMAIN src["explicit_env_file"] /\ k \in DOMAIN src["managed_env"]
    <3>1. Last(src, FileSources, k, "managed_env")
      BY <1>1, <2>2 DEF Last
    <3> QED BY <2>2, <3>1, LastFound DEF FoundInFiles
  <2>3. CASE /\ k \notin DOMAIN src["explicit_env_file"] /\ k \notin DOMAIN src["managed_env"]
             /\ k \in DOMAIN src["repo_env"]
    <3>1. Last(src, FileSources, k, "repo_env")
      BY <1>1, <2>3 DEF Last
    <3> QED BY <2>3, <3>1, LastFound DEF FoundInFiles
  <2>4. CASE \A s \in FileSources : k \notin DOMAIN src[s]
    BY <1>1, <2>4, NoneFound DEF FoundInFiles
  <2> QED BY <1>1, <2>1, <2>2, <2>3, <2>4
<1>4. FoundIn(src, {"managed_env"}, k, otherwise) =
        IF k \in DOMAIN src["managed_env"] THEN src["managed_env"][k] ELSE otherwise
  <2>1. CASE k \in DOMAIN src["managed_env"]
    <3>1. Last(src, {"managed_env"}, k, "managed_env")
      BY <1>1, <2>1 DEF Last
    <3> QED BY <2>1, <3>1, LastFound
  <2>2. CASE k \notin DOMAIN src["managed_env"]
    BY <2>2, NoneFound
  <2> QED BY <2>1, <2>2
<1> QED BY <1>2, <1>3, <1>4

\* What is sent back masked is a secret, and no other value is the mask.
LEMMA MaskIsSecret ==
  ASSUME NEW u \in Payloads
  PROVE  /\ DOMAIN u \subseteq FieldKeys
         /\ \A k \in DOMAIN u : u[k] = MaskedSecret => FIELDS[k].secret
<1>1. PICK K \in SUBSET FieldKeys : DOMAIN u = K
  BY DEF Payloads
<1>2. \A k \in FieldKeys : MaskedSecret \notin FIELDS[k].values
  <2>1. FieldKeys = {"key", "device", "token"}
    BY DEF FieldKeys, FIELDS
  <2>2. /\ FIELDS["key"].values = {"", "x"} /\ FIELDS["device"].values = {"cpu", "nim", "bad"}
        /\ FIELDS["token"].values = {"", "freecc"}
    BY DEF FIELDS
  <2>3. /\ MaskedSecret # "" /\ MaskedSecret # "x" /\ MaskedSecret # "cpu"
        /\ MaskedSecret # "nim" /\ MaskedSecret # "bad" /\ MaskedSecret # "freecc"
    BY DEF MaskedSecret
  <2> QED BY <2>1, <2>2, <2>3
<1>3. \A k \in DOMAIN u : u[k] \in FIELDS[k].values \/ FIELDS[k].secret
  BY DEF Payloads
<1> QED BY <1>1, <1>2, <1>3

\* The shape of the state, all that a step needs to know of the ones before it.
SettingsInv ==
  DOMAIN sources = Sources /\ "cached" \in DOMAIN settings /\ "payload" \in DOMAIN admin

\* The managed file defines every field, and the locked sources go before it.
LEMMA ShownAfter ==
  ASSUME DOMAIN sources = Sources, NEW u, NEW k \in FieldKeys,
         sources' = [sources EXCEPT !["managed_env"] = TargetValues(u)]
  PROVE  /\ Shown(k)' = IF Locked(k) THEN Shown(k) ELSE TargetValues(u)[k]
         /\ Loaded'[k] = Shown(k)' \/ (k = "token" /\ k \in DOMAIN sources["process"])
<1> DEFINE target == TargetValues(u)
           template == FIELDS[k].template
           default == FIELDS[k].default
           other == FoundIn(sources', Sources, "token", FIELDS["token"].default)
<1>1. DOMAIN target = FieldKeys
  BY DEF TargetValues
<1> HIDE DEF target
<1>2. sources'["managed_env"] = target
      /\ sources'["process"] = sources["process"]
      /\ sources'["explicit_env_file"] = sources["explicit_env_file"]
  BY DEF target, Sources, FileSources
<1>3. k \in DOMAIN sources'["managed_env"]
  BY <1>1, <1>2
<1> HIDE DEF template, default, other
<1>4. \A o : FoundInFiles(sources', k, o) =
               IF k \in DOMAIN sources["explicit_env_file"] THEN sources["explicit_env_file"][k]
               ELSE target[k]
  BY <1>2, <1>3 DEF FoundInFiles
<1>5. \A o : FoundIn(sources', Sources, k, o) =
               IF k \in DOMAIN sources["process"] THEN sources["process"][k]
               ELSE FoundInFiles(sources', k, o)
  <2> TAKE o
  <2> DEFINE after == sources'
  <2> HIDE DEF after
  <2>1. FoundIn(after, Sources, k, o) =
          IF k \in DOMAIN after["process"] THEN after["process"][k]
          ELSE FoundInFiles(after, k, o)
    BY Precedence
  <2> QED BY <1>2, <2>1 DEF after
<1>6. Shown(k)' = FoundIn(sources', Sources, k, template)
  BY ValueFound DEF Shown, template
<1>7. Shown(k) = FoundIn(sources, Sources, k, template)
  BY ValueFound DEF Shown, template
<1>8. Shown(k)' = IF Locked(k) THEN Shown(k) ELSE target[k]
  <2>1. Shown(k) = IF k \in DOMAIN sources["process"] THEN sources["process"][k]
                   ELSE FoundInFiles(sources, k, template)
    BY <1>7, Precedence
  <2>2. Locked(k) <=> k \in DOMAIN sources["process"] \/ k \in DOMAIN sources["explicit_env_file"]
    BY DEF Locked
  <2> QED BY <1>4, <1>5, <1>6, <2>1, <2>2 DEF FoundInFiles
<1>9. Loaded'[k] = Shown(k)' \/ (k = "token" /\ k \in DOMAIN sources["process"])
  <2>1. CASE k = "token"
    <3>1. Loaded'[k] = TokenOfFiles'
      BY <2>1 DEF Loaded
    <3>2. TokenOfFiles' = FoundIn(sources', FileSources, k, other)
      BY <2>1 DEF TokenOfFiles, ValueIn, FoundIn, DefiningIn, other
    <3>3. FoundIn(sources', FileSources, k, other) = FoundInFiles(sources', k, other)
      BY Precedence
    <3> QED BY <1>4, <1>5, <1>6, <2>1, <3>1, <3>2, <3>3
  <2>2. CASE k # "token"
    <3>1. Loaded'[k] = FoundIn(sources', Sources, k, default)
      BY <2>2, ValueFound DEF Loaded, default
    <3> QED BY <1>4, <1>5, <1>6, <3>1
  <2> QED BY <2>1, <2>2
<1> QED BY <1>8, <1>9 DEF target

\* A field that is not edited keeps what the page showed, but for the repository's that
\* the template shadows.
LEMMA NotAskedKept ==
  ASSUME NEW u, NEW k \in FieldKeys, ~ Locked(k),
         ~ (k \in DOMAIN u /\ ~ (FIELDS[k].secret /\ u[k] = MaskedSecret))
  PROVE  TargetValues(u)[k] = Shown(k) \/ ShadowsRepo(k)
<1> DEFINE template == FIELDS[k].template
           managed == ValueIn({"managed_env"}, k, template)
<1>1. TargetValues(u)[k] = IF DOMAIN sources["managed_env"] # {} THEN managed ELSE Shown(k)
  BY DEF TargetValues
<1>2. Shown(k) = FoundIn(sources, Sources, k, template)
  BY ValueFound DEF Shown
<1> HIDE DEF template
<1>3. managed = FoundIn(sources, {"managed_env"}, k, template)
  BY ValueFound
<1> HIDE DEF managed
<1>4. k \notin DOMAIN sources["process"] /\ k \notin DOMAIN sources["explicit_env_file"]
  BY DEF Locked
<1>5. managed = IF k \in DOMAIN sources["managed_env"] THEN sources["managed_env"][k] ELSE template
  BY <1>3, Precedence
<1>6. Shown(k) = FoundInFiles(sources, k, template)
  BY <1>2, <1>4, Precedence
<1> QED BY <1>1, <1>4, <1>5, <1>6 DEF FoundInFiles, ShadowsRepo

LEMMA ApplyAsShown ==
  ASSUME SettingsInv, NEW u \in Payloads, ApplyConfig(u)
  PROVE  AppliesAsShown
<1> SUFFICES ASSUME sources' # sources PROVE AppliesAsShown
  BY DEF AppliesAsShown
<1>1. /\ Validates(u) /\ sources' = [sources EXCEPT !["managed_env"] = TargetValues(u)]
      /\ admin'.payload = u /\ settings'.cached = Loaded' /\ DOMAIN sources = Sources
  <2>1. Validates(u)
    BY DEF ApplyConfig
  <2>2. /\ sources' = [sources EXCEPT !["managed_env"] = TargetValues(u)]
        /\ settings' = [settings EXCEPT !.cached = Loaded']
    BY <2>1 DEF ApplyConfig
  <2>3. admin'.payload = u
    BY <2>1 DEF ApplyConfig, SettingsInv
  <2> QED BY <2>1, <2>2, <2>3 DEF SettingsInv
<1>2. \A k \in FieldKeys :
        /\ Shown(k)' = IF Locked(k) THEN Shown(k) ELSE TargetValues(u)[k]
        /\ Loaded'[k] = Shown(k)' \/ (k = "token" /\ k \in DOMAIN sources["process"])
  BY <1>1, ShownAfter
<1>3. Accepts(Loaded')
  <2> DEFINE validated == [k \in FieldKeys |-> IF Locked(k) THEN Shown(k) ELSE TargetValues(u)[k]]
  <2>1. Accepts(validated)
    BY <1>1 DEF Validates
  <2>2. "device" \in FieldKeys /\ "key" \in FieldKeys
    BY DEF FieldKeys, FIELDS
  <2>3. Loaded'["device"] = validated["device"] /\ Loaded'["key"] = validated["key"]
    BY <1>2, <2>2
  <2> HIDE DEF validated
  <2> QED BY <2>1, <2>3 DEF Accepts
<1>4. ASSUME NEW k \in FieldKeys, k \in DOMAIN u, ~ Locked(k), u[k] # MaskedSecret
      PROVE  Shown(k)' = u[k]
  <2>1. TargetValues(u)[k] = u[k]
    BY <1>4 DEF TargetValues
  <2> QED BY <1>2, <1>4, <2>1
<1>5. ASSUME NEW k \in FieldKeys, ~ (k \in DOMAIN u /\ ~ Locked(k) /\ u[k] # MaskedSecret)
      PROVE  Shown(k)' = Shown(k) \/ ShadowsRepo(k)
  <2>1. CASE Locked(k)
    BY <1>2, <2>1
  <2>2. CASE ~ Locked(k)
    <3>1. ~ (k \in DOMAIN u /\ ~ (FIELDS[k].secret /\ u[k] = MaskedSecret))
      BY <1>5, <2>2, MaskIsSecret
    <3>2. TargetValues(u)[k] = Shown(k) \/ ShadowsRepo(k)
      BY <1>1, <2>2, <3>1, NotAskedKept
    <3> QED BY <1>2, <2>2, <3>2
  <2> QED BY <2>1, <2>2
<1> QED BY <1>1, <1>2, <1>3, <1>4, <1>5 DEF AppliesAsShown

\* An apply that is accepted leaves settings the server can start with, gives each edited
\* field its value and keeps the others as the page showed them, whatever the sources
\* define (persistence.py, values.py, settings.py).
THEOREM SettingsCorrect == Spec => SettingsKept
<1>1. AppInit => SettingsInv
  BY DEF AppInit, AdminInit, AdminRest, AdminUnused, SettingsInv
<1>2. SettingsInv /\ [Next]_app_vars => SettingsInv'
  <2> SUFFICES ASSUME SettingsInv, AdminMoves \/ UNCHANGED admin_vars PROVE SettingsInv'
    BY AdminFrame
  <2> QED BY DEF SettingsInv, AdminMoves, ApplyConfig, RestartServer, admin_vars
<1>3. SettingsInv /\ [Next]_app_vars => [AppliesAsShown]_admin_vars
  <2> SUFFICES ASSUME SettingsInv, AdminMoves \/ UNCHANGED admin_vars
               PROVE  AppliesAsShown \/ UNCHANGED admin_vars
    BY AdminFrame
  <2>1. CASE \E u \in Payloads : ApplyConfig(u)
    BY <2>1, ApplyAsShown
  <2>2. CASE RestartServer
    BY <2>2 DEF RestartServer, AppliesAsShown
  <2> QED BY <2>1, <2>2 DEF AdminMoves
<1> QED BY <1>1, <1>2, <1>3, PTL DEF Spec, SettingsKept

-----------------------------------------------------------------------------
(* The Claude sessions.                                                     *)

Pending(r) == <<"pending", r>>
Ids == {NoId, Parent} \cup {Pending(r) : r \in Runs} \cup {Real(r) : r \in Runs}

RunType ==
  [pc : RunPhase, resumes : BOOLEAN, session : Runs \cup {Nobody}, temp : Ids, captured : Ids,
   events : 0..Events, ending : Runs \cup {Nobody}, awaits : Runs \cup {Nobody},
   cancelled : BOOLEAN]
StopAllType ==
  [phase : {"idle", "waiting", "stopping", "done"}, todo : SUBSET Runs,
   awaits : Runs \cup {Nobody}]

SessionsType ==
  /\ runs \in [Runs -> RunType] /\ generator \in [Runs -> GeneratorPhase]
  /\ processes \in [Runs -> {"none", "alive", "asked", "dead"}] /\ pids \subseteq Runs
  /\ current \in [Runs -> Runs \cup {Nobody}]
  /\ lock \in Runs \cup {Nobody, Everyone} /\ stop_all \in StopAllType

\* How far a run is says what its generator does, and that what its process does.
RunSound(r) ==
  /\ runs[r].pc \in {"queued", "asking"} =>
       /\ generator[r] = "none" /\ runs[r].session = Nobody
       /\ runs[r].temp = NoId /\ runs[r].captured = NoId
  /\ At(r, "running") => generator[r] \in {"waiting", "launching", "running", "stopping"}
  /\ At(r, "handling") => generator[r] = "running"
  /\ generator[r] = "stopping" => runs[r].cancelled
  /\ generator[r] \in {"none", "waiting", "launching"} => processes[r] = "none"
  /\ processes[r] \in {"alive", "asked"} => generator[r] \in {"running", "stopping", "closing"}
  /\ generator[r] \notin {"none", "closed"} => runs[r].session \in Runs
  /\ At(r, "ending") => runs[r].ending \in Runs
RunsSound == \A r \in Runs : RunSound(r)

\* One task of a session at a time.
CliLockSound ==
  \A r, q \in Runs :
    r # q /\ runs[r].session = runs[q].session /\ Holding(r) => ~ Holding(q)

\* session.process is a process of one of the session's runs, and does not change while
\* its end is waited for.
CurrentSound ==
  /\ \A s \in Runs : current[s] # Nobody =>
       processes[current[s]] # "none" /\ runs[current[s]].session = s
  /\ \A q \in Runs : At(q, "ending") /\ runs[q].awaits # Nobody =>
       current[runs[q].ending] = runs[q].awaits

LockSound ==
  /\ \A r \in Runs : At(r, "ending") <=> lock = r
  /\ stop_all.phase = "stopping" <=> lock = Everyone

\* Every entry of the manager has a run that will remove it.
Owner(r) == runs[r].pc \in {"running", "handling", "removing"}
EntriesSound ==
  /\ \A t \in DOMAIN pending :
       pending[t] \in Runs /\ runs[pending[t]].temp = t /\ t # NoId /\ Owner(pending[t])
  /\ \A i \in DOMAIN sessions :
       /\ sessions[i] \in Runs /\ i \in DOMAIN real_to_temp
       /\ \E q \in Runs : i = Real(q) /\ Owner(q)

\* The two maps between the identifiers are inverse to each other, whoever has the lock; an
\* identifier without a session is the one whose removal has the lock.
MapsSound ==
  /\ \A i \in DOMAIN real_to_temp :
       /\ i \notin DOMAIN sessions => lock \in Runs /\ runs[lock].captured = i
       /\ \E q \in Runs : i = Real(q) /\ runs[q].captured = i
       /\ real_to_temp[i] \in DOMAIN temp_to_real /\ temp_to_real[real_to_temp[i]] = i
  /\ \A t \in DOMAIN temp_to_real :
       /\ temp_to_real[t] \in DOMAIN real_to_temp /\ real_to_temp[temp_to_real[t]] = t
       /\ t \notin DOMAIN pending
       /\ t = Parent \/ \E q \in Runs : t = Pending(q) /\ temp_to_real[t] = Real(q)

IdsSound ==
  \A r \in Runs : /\ runs[r].temp \in {NoId, Parent, Pending(r)}
                  /\ runs[r].temp # NoId => runs[r].captured = NoId

TasksInv == RunsSound /\ CliLockSound /\ CurrentSound /\ LockSound /\ ProcessesAccounted
NamesInv == EntriesSound /\ MapsSound /\ IdsSound
SessionsInv == SessionsType /\ TasksInv /\ NamesInv

-----------------------------------------------------------------------------
(* Names.                                                                   *)

LEMMA NobodyApart == Nobody \notin Runs /\ Everyone \notin Runs /\ Nobody # Everyone
BY SessionsAssumption DEF Nobody, Everyone

LEMMA IdsApart ==
  /\ NoId # Parent
  /\ \A r \in Runs : /\ Real(r) \notin {NoId, Parent} /\ Pending(r) \notin {NoId, Parent}
                     /\ \A q \in Runs : /\ Real(q) = Real(r) => q = r
                                        /\ Pending(q) = Pending(r) => q = r
                                        /\ Pending(q) # Real(r)
BY SessionsAssumption DEF NoId, Parent, Real, Pending

-----------------------------------------------------------------------------
(* Steps of the runs and of stop_all.                                       *)

\* The steps of the server as the sessions see them.
SessionsMove ==
  \/ \E r \in Runs : RunMoves(r)
  \/ AskStopAll \/ StopAllMoves \/ StopAllTimesOut \/ KillAll

LEMMA SessionsFrame == [Next]_app_vars => SessionsMove \/ UNCHANGED sessions_vars
<1> SUFFICES ASSUME [Next]_app_vars PROVE SessionsMove \/ UNCHANGED sessions_vars
  OBVIOUS
<1> USE DEF SessionsMove
<1>1. CASE Startup
  BY <1>1 DEF Startup, NotProviders
<1>2. CASE BeginShutdown
  BY <1>2 DEF BeginShutdown, NoPart, NotAdmin
<1>3. CASE ShutdownMoves
  BY <1>3 DEF ShutdownMoves, StopProbe, ChatStopped, LimiterShutDown, Exit, NotProviders,
              NotPlatform, NotChat, NoPart, NotAdmin
<1>4. CASE SessionsStep
  BY <1>4 DEF SessionsStep, Sessions, StopAllGivenUp
<1>5. CASE ProvidersStep
  BY <1>5 DEF ProvidersStep, Models, NotProviders
<1>6. CASE VoiceStep \/ DeliveryStep
  BY <1>6 DEF VoiceStep, DeliveryStep, Voice, Call, NotVoice, NotDelivery, NotChat
<1>7. CASE AdminStep
  BY <1>7 DEF AdminStep, Admin, NotAdmin
<1>8. CASE PlatformStep
  BY <1>8 DEF PlatformStep, StartsChat, ChatStarted, StopsChat, Interrupted, Platform,
              NotPlatform, NotChat, NoPart, NotAdmin
<1>9. CASE UNCHANGED app_vars
  BY <1>9 DEF app_vars
<1> QED BY <1>1, <1>2, <1>3, <1>4, <1>5, <1>6, <1>7, <1>8, <1>9 DEF Next

LEMMA SessionsStart == SessionsInit => SessionsInv
<1> SUFFICES ASSUME SessionsInit PROVE SessionsInv
  OBVIOUS
<1>1. FreshRun \in RunType
  BY SessionsAssumption DEF FreshRun, RunType, RunPhase, Ids
<1>2. SessionsType
  BY <1>1 DEF SessionsInit, SessionsType, StopAllType, GeneratorPhase
<1>3. TasksInv
  BY NobodyApart DEF SessionsInit, FreshRun, TasksInv, RunsSound, RunSound, CliLockSound, Holding, CurrentSound,
         LockSound, ProcessesAccounted, At, Everyone, Nobody
<1>4. NamesInv
  BY DEF SessionsInit, FreshRun, NamesInv, EntriesSound, MapsSound, IdsSound
<1> QED BY <1>2, <1>3, <1>4 DEF SessionsInv

\* Steps that launch no process, give no session away and take no lock of a session: what is
\* left to show of them is local to the runs.
LEMMA TasksGoOn ==
  ASSUME SessionsType, TasksInv, current' = current, RunsSound', LockSound',
         \A q \in Runs : runs'[q].session = runs[q].session /\ (Holding(q)' => Holding(q)),
         \A q \in Runs : \/ processes'[q] = processes[q]
                         \/ processes[q] \in {"alive", "asked"} /\ processes'[q] \in {"asked", "dead"},
         \A q \in Runs : q \in pids /\ q \notin pids' => processes'[q] # "alive",
         \A q \in Runs : runs'[q].pc = "ending" =>
           \/ /\ runs[q].pc = "ending" /\ runs'[q].ending = runs[q].ending
              /\ runs'[q].awaits = runs[q].awaits
           \/ runs'[q].awaits \in {Nobody, current[runs'[q].ending]}
  PROVE  TasksInv'
<1>1. CliLockSound'
  BY DEF TasksInv, CliLockSound
<1>2. CurrentSound'
  <2>1. ASSUME NEW p \in Runs, current[p] # Nobody
        PROVE  processes'[current[p]] # "none" /\ runs'[current[p]].session = p
    <3>1. current[p] \in Runs
      BY <2>1 DEF SessionsType
    <3>2. processes[current[p]] # "none" /\ runs[current[p]].session = p
      BY <2>1 DEF TasksInv, CurrentSound
    <3> QED BY <3>1, <3>2
  <2>2. ASSUME NEW q \in Runs, runs'[q].pc = "ending", runs'[q].awaits # Nobody
        PROVE  current[runs'[q].ending] = runs'[q].awaits
    BY <2>2 DEF TasksInv, CurrentSound, At
  <2> QED BY <2>1, <2>2 DEF CurrentSound, At
<1>3. ProcessesAccounted'
  BY DEF TasksInv, ProcessesAccounted
<1> QED BY <1>1, <1>2, <1>3 DEF TasksInv

\* Steps that leave the maps and the identifiers of the runs alone, and end no run.
LEMMA NamesGoOn ==
  ASSUME NamesInv, UNCHANGED maps, lock' = lock \/ lock \notin Runs,
         \A q \in Runs : /\ runs'[q].temp = runs[q].temp /\ runs'[q].captured = runs[q].captured
                         /\ Owner(q) => Owner(q)'
  PROVE  NamesInv'
<1>1. /\ pending' = pending /\ sessions' = sessions /\ temp_to_real' = temp_to_real
      /\ real_to_temp' = real_to_temp
  BY DEF maps
<1>2. EntriesSound'
  BY <1>1 DEF NamesInv, EntriesSound
<1>3. MapsSound'
  BY <1>1 DEF NamesInv, MapsSound
<1>4. IdsSound'
  BY DEF NamesInv, IdsSound
<1> QED BY <1>2, <1>3, <1>4 DEF NamesInv

LEMMA RunGoes ==
  ASSUME runs \in [Runs -> RunType], NEW r \in Runs, NEW pc \in RunPhase, Goes(r, pc)
  PROVE  /\ runs' \in [Runs -> RunType]
         /\ runs'[r].pc = pc
         /\ \A q \in Runs :
              /\ q # r => runs'[q] = runs[q]
              /\ runs'[q].session = runs[q].session /\ runs'[q].temp = runs[q].temp
              /\ runs'[q].captured = runs[q].captured /\ runs'[q].ending = runs[q].ending
              /\ runs'[q].awaits = runs[q].awaits /\ runs'[q].cancelled = runs[q].cancelled
BY DEF Goes, RunType

\* Steps that do both.
LEMMA SessionsGoOn ==
  ASSUME SessionsInv, SessionsType', current' = current, RunsSound', LockSound',
         \A q \in Runs : runs'[q].session = runs[q].session /\ (Holding(q)' => Holding(q)),
         \A q \in Runs : \/ processes'[q] = processes[q]
                         \/ processes[q] \in {"alive", "asked"} /\ processes'[q] \in {"asked", "dead"},
         \A q \in Runs : q \in pids /\ q \notin pids' => processes'[q] # "alive",
         \A q \in Runs : runs'[q].pc = "ending" =>
           /\ runs[q].pc = "ending" /\ runs'[q].ending = runs[q].ending
           /\ runs'[q].awaits = runs[q].awaits,
         UNCHANGED maps, lock' = lock \/ lock \notin Runs,
         \A q \in Runs : /\ runs'[q].temp = runs[q].temp /\ runs'[q].captured = runs[q].captured
                         /\ Owner(q) => Owner(q)'
  PROVE  SessionsInv'
<1>1. SessionsType /\ TasksInv /\ NamesInv
  BY DEF SessionsInv
<1>2. TasksInv'
  BY <1>1, TasksGoOn
<1>3. NamesInv'
  BY <1>1, NamesGoOn
<1> QED BY <1>2, <1>3 DEF SessionsInv

\* While a task launches its process, session.process is one that is over.
LEMMA LastIsOver ==
  ASSUME SessionsType, TasksInv, NEW r \in Runs, generator[r] = "launching"
  PROVE  /\ runs[r].session \in Runs
         /\ \A q \in Runs : q = current[runs[r].session] => processes[q] \notin {"alive", "asked"}
<1>1. /\ runs[r].session \in Runs /\ processes[r] = "none" /\ Holding(r)
  BY DEF TasksInv, RunsSound, RunSound, Holding
<1>2. ASSUME NEW q \in Runs, q = current[runs[r].session]
      PROVE  processes[q] \notin {"alive", "asked"}
  <2>1. q # Nobody
    BY NobodyApart
  <2>2. processes[q] # "none" /\ runs[q].session = runs[r].session
    BY <1>1, <1>2, <2>1 DEF TasksInv, CurrentSound
  <2>3. ~ Holding(q)
    BY <1>1, <2>2 DEF TasksInv, CliLockSound
  <2> QED BY <2>3 DEF TasksInv, RunsSound, RunSound, Holding
<1> QED BY <1>1, <1>2

LEMMA BeginKeeps ==
  ASSUME SessionsInv, NEW r \in Runs, NEW resumes \in BOOLEAN, Begin(r, resumes)
  PROVE  SessionsInv'
<1>1. SessionsType /\ TasksInv /\ NamesInv
  BY DEF SessionsInv
<1>2. /\ runs' \in [Runs -> RunType]
      /\ runs[r].pc = "queued" /\ runs'[r].pc = "asking"
      /\ \A q \in Runs :
           /\ q # r => runs'[q] = runs[q]
           /\ runs'[q].session = runs[q].session /\ runs'[q].temp = runs[q].temp
           /\ runs'[q].captured = runs[q].captured /\ runs'[q].ending = runs[q].ending
           /\ runs'[q].awaits = runs[q].awaits /\ runs'[q].cancelled = runs[q].cancelled
  <2>1. /\ runs \in [Runs -> RunType] /\ runs[r].pc = "queued"
        /\ runs' = [runs EXCEPT ![r].pc = "asking", ![r].resumes = resumes]
    BY <1>1 DEF SessionsType, Begin, At
  <2>2. \A q \in Runs : runs[q] \in RunType
    BY <2>1
  <2>3. runs'[r] = [runs[r] EXCEPT !.pc = "asking", !.resumes = resumes]
    BY <2>1
  <2>4. \A q \in Runs : q # r => runs'[q] = runs[q]
    BY <2>1
  <2>5. runs'[r] \in RunType
    BY <2>2, <2>3 DEF RunType, RunPhase
  <2>6. runs' \in [Runs -> RunType]
    BY <2>1, <2>2, <2>4, <2>5
  <2> QED BY <2>1, <2>2, <2>3, <2>4, <2>5, <2>6 DEF RunType
<1>3. UNCHANGED <<generator, processes, pids, current, maps, lock, stop_all>>
  BY DEF Begin
<1>4. SessionsType'
  BY <1>1, <1>2, <1>3 DEF SessionsType
<1>5. RunsSound' /\ LockSound'
  BY <1>1, <1>2, <1>3 DEF TasksInv, RunsSound, RunSound, LockSound, At
<1>6. TasksInv'
  <2>1. \A q \in Runs : runs'[q].session = runs[q].session /\ (Holding(q)' => Holding(q))
    BY <1>2, <1>3 DEF Holding
  <2>2. \A q \in Runs : runs'[q].pc = "ending" =>
          /\ runs[q].pc = "ending" /\ runs'[q].ending = runs[q].ending
          /\ runs'[q].awaits = runs[q].awaits
    BY <1>2
  <2>3. current' = current /\ processes' = processes /\ pids' = pids
    BY <1>3
  <2> QED BY <1>1, <1>5, <2>1, <2>2, <2>3, TasksGoOn
<1>7. NamesInv'
  BY <1>1, <1>2, <1>3, NamesGoOn DEF Owner
<1> QED BY <1>4, <1>6, <1>7 DEF SessionsInv

LEMMA LaunchFailsKeeps ==
  ASSUME SessionsInv, NEW r \in Runs, LaunchFails(r) PROVE SessionsInv'
<1>1. SessionsType /\ TasksInv /\ runs \in [Runs -> RunType]
  BY DEF SessionsInv, SessionsType
<1>2. /\ At(r, "running") /\ generator[r] = "launching" /\ Goes(r, "removing")
      /\ generator' = [generator EXCEPT ![r] = "closed"]
      /\ pids' = pids \ {current[runs[r].session]}
      /\ processes' = processes /\ current' = current /\ UNCHANGED maps /\ lock' = lock
      /\ stop_all' = stop_all
  BY DEF LaunchFails
<1>3. /\ runs' \in [Runs -> RunType]
      /\ runs'[r].pc = "removing"
      /\ \A q \in Runs :
           /\ q # r => runs'[q] = runs[q]
           /\ runs'[q].session = runs[q].session /\ runs'[q].temp = runs[q].temp
           /\ runs'[q].captured = runs[q].captured /\ runs'[q].ending = runs[q].ending
           /\ runs'[q].awaits = runs[q].awaits /\ runs'[q].cancelled = runs[q].cancelled
  BY <1>1, <1>2, RunGoes DEF RunPhase
<1>4. SessionsType'
  BY <1>1, <1>2, <1>3 DEF SessionsType, GeneratorPhase
<1>5. RunsSound' /\ LockSound'
  BY <1>1, <1>2, <1>3 DEF TasksInv, RunsSound, RunSound, LockSound, At, SessionsType
<1>6. \A q \in Runs : Holding(q)' => Holding(q)
  BY <1>1, <1>2 DEF Holding, SessionsType
<1>7. \A q \in Runs : q \in pids /\ q \notin pids' => processes'[q] # "alive"
  BY <1>1, <1>2, LastIsOver
<1>8. \A q \in Runs : Owner(q) => Owner(q)'
  BY <1>3 DEF Owner
<1> QED BY <1>2, <1>3, <1>4, <1>5, <1>6, <1>7, <1>8, SessionsGoOn

LEMMA PrintsEventKeeps ==
  ASSUME SessionsInv, NEW r \in Runs, PrintsEvent(r) PROVE SessionsInv'
<1>1. SessionsType /\ TasksInv /\ runs \in [Runs -> RunType]
  BY DEF SessionsInv, SessionsType
<1>2. /\ runs[r].pc = "running" /\ generator[r] = "running" /\ runs[r].events < Events
      /\ runs' = [runs EXCEPT ![r].pc = "handling", ![r].events = runs[r].events + 1]
      /\ UNCHANGED <<generator, processes, pids, current, maps, lock, stop_all>>
  BY DEF PrintsEvent, At
<1>3. /\ runs'[r] = [runs[r] EXCEPT !.pc = "handling", !.events = runs[r].events + 1]
      /\ \A q \in Runs : q # r => runs'[q] = runs[q]
  BY <1>1, <1>2
<1>4. \A q \in Runs : runs[q] \in RunType
  BY <1>1
<1>5. runs'[r] \in RunType
  <2> DEFINE events == runs[r].events + 1
  <2>1. events \in 0..Events
    BY <1>2, <1>4, SessionsAssumption DEF RunType
  <2>2. runs'[r] = [runs[r] EXCEPT !.pc = "handling", !.events = events]
    BY <1>3
  <2> HIDE DEF events
  <2> QED BY <1>4, <2>1, <2>2 DEF RunType, RunPhase
<1>6. \A q \in Runs :
        /\ runs'[q].session = runs[q].session /\ runs'[q].temp = runs[q].temp
        /\ runs'[q].captured = runs[q].captured /\ runs'[q].ending = runs[q].ending
        /\ runs'[q].awaits = runs[q].awaits /\ runs'[q].cancelled = runs[q].cancelled
        /\ runs'[q].pc = IF q = r THEN "handling" ELSE runs[q].pc
  BY <1>3, <1>4, <1>5 DEF RunType
<1>7. runs' \in [Runs -> RunType]
  BY <1>1, <1>2, <1>3, <1>4, <1>5
<1>8. SessionsType'
  BY <1>1, <1>2, <1>7 DEF SessionsType
<1>9. RunsSound' /\ LockSound'
  BY <1>1, <1>2, <1>6 DEF TasksInv, RunsSound, RunSound, LockSound, At
<1>10. \A q \in Runs : (Holding(q)' => Holding(q)) /\ (Owner(q) => Owner(q)')
  BY <1>2, <1>6 DEF Holding, Owner
<1>11. \A q \in Runs : runs'[q].pc = "ending" =>
         /\ runs[q].pc = "ending" /\ runs'[q].ending = runs[q].ending
         /\ runs'[q].awaits = runs[q].awaits
  BY <1>6
<1> QED BY <1>2, <1>6, <1>8, <1>9, <1>10, <1>11, SessionsGoOn

LEMMA HandleEventKeeps ==
  ASSUME SessionsInv, NEW r \in Runs, HandleEvent(r) PROVE SessionsInv'
<1>1. SessionsType /\ TasksInv /\ runs \in [Runs -> RunType]
  BY DEF SessionsInv, SessionsType
<1>2. /\ runs[r].pc = "handling" /\ Goes(r, "running")
      /\ UNCHANGED <<generator, processes, pids, current, maps, lock, stop_all>>
  BY DEF HandleEvent, At
<1>3. /\ runs' \in [Runs -> RunType]
      /\ runs'[r].pc = "running"
      /\ \A q \in Runs :
           /\ q # r => runs'[q] = runs[q]
           /\ runs'[q].session = runs[q].session /\ runs'[q].temp = runs[q].temp
           /\ runs'[q].captured = runs[q].captured /\ runs'[q].ending = runs[q].ending
           /\ runs'[q].awaits = runs[q].awaits /\ runs'[q].cancelled = runs[q].cancelled
  BY <1>1, <1>2, RunGoes DEF RunPhase
<1>4. SessionsType'
  BY <1>1, <1>2, <1>3 DEF SessionsType
<1>5. RunsSound' /\ LockSound'
  BY <1>1, <1>2, <1>3 DEF TasksInv, RunsSound, RunSound, LockSound, At
<1>6. \A q \in Runs : (Holding(q)' => Holding(q)) /\ (Owner(q) => Owner(q)')
  BY <1>2, <1>3 DEF Holding, Owner
<1> QED BY <1>2, <1>3, <1>4, <1>5, <1>6, SessionsGoOn

LEMMA TaskEndsKeeps ==
  ASSUME SessionsInv, NEW r \in Runs, TaskEnds(r) PROVE SessionsInv'
<1>1. SessionsType /\ TasksInv /\ runs \in [Runs -> RunType]
  BY DEF SessionsInv, SessionsType
<1>2. /\ runs[r].pc = "running" /\ processes[r] = "dead" /\ Goes(r, "removing")
      /\ generator' = [generator EXCEPT ![r] = "closed"] /\ pids' = pids \ {r}
      /\ processes' = processes /\ current' = current /\ UNCHANGED maps /\ lock' = lock
      /\ stop_all' = stop_all
  BY DEF TaskEnds, At
<1>3. /\ runs' \in [Runs -> RunType]
      /\ runs'[r].pc = "removing"
      /\ \A q \in Runs :
           /\ q # r => runs'[q] = runs[q]
           /\ runs'[q].session = runs[q].session /\ runs'[q].temp = runs[q].temp
           /\ runs'[q].captured = runs[q].captured /\ runs'[q].ending = runs[q].ending
           /\ runs'[q].awaits = runs[q].awaits /\ runs'[q].cancelled = runs[q].cancelled
  BY <1>1, <1>2, RunGoes DEF RunPhase
<1>4. SessionsType'
  BY <1>1, <1>2, <1>3 DEF SessionsType, GeneratorPhase
<1>5. RunsSound' /\ LockSound'
  BY <1>1, <1>2, <1>3 DEF TasksInv, RunsSound, RunSound, LockSound, At, SessionsType
<1>6. \A q \in Runs : (Holding(q)' => Holding(q)) /\ (Owner(q) => Owner(q)')
  BY <1>1, <1>2, <1>3 DEF Holding, Owner, SessionsType
<1>7. \A q \in Runs : q \in pids /\ q \notin pids' => processes'[q] # "alive"
  BY <1>2
<1> QED BY <1>2, <1>3, <1>4, <1>5, <1>6, <1>7, SessionsGoOn

\* Steps of a process, or of a generator that its run has left.
LEMMA ProcessKeeps ==
  ASSUME SessionsInv, NEW r \in Runs, ProcessEnds(r) \/ GeneratorCloses(r) PROVE SessionsInv'
<1>1. SessionsType /\ TasksInv
  BY DEF SessionsInv
<1>2. UNCHANGED <<runs, current, maps, lock, stop_all>>
  BY DEF ProcessEnds, GeneratorCloses
<1>3. \/ /\ processes[r] \in {"alive", "asked"} /\ processes' = [processes EXCEPT ![r] = "dead"]
         /\ generator' = generator /\ pids' = pids
      \/ /\ generator[r] = "closing" /\ processes[r] = "dead" /\ processes' = processes
         /\ generator' = [generator EXCEPT ![r] = "closed"] /\ pids' = pids \ {r}
  BY DEF ProcessEnds, GeneratorCloses
<1>4. SessionsType'
  BY <1>1, <1>2, <1>3 DEF SessionsType, GeneratorPhase
<1>5. RunsSound' /\ LockSound'
  BY <1>1, <1>2, <1>3 DEF TasksInv, RunsSound, RunSound, LockSound, At, SessionsType
<1>6. \A q \in Runs : /\ Holding(q)' => Holding(q)
                      /\ Owner(q) => Owner(q)'
  BY <1>1, <1>2, <1>3 DEF Holding, Owner, SessionsType
<1>7. \A q \in Runs :
        /\ q \in pids /\ q \notin pids' => processes'[q] # "alive"
        /\ \/ processes'[q] = processes[q]
           \/ processes[q] \in {"alive", "asked"} /\ processes'[q] \in {"asked", "dead"}
  BY <1>1, <1>3 DEF SessionsType
<1> QED BY <1>2, <1>4, <1>5, <1>6, <1>7, SessionsGoOn

\* What stop() does to the processes.
LEMMA AskedSound ==
  ASSUME SessionsType, NEW session \in Runs
  PROVE  /\ Asked(session) \in [Runs -> {"none", "alive", "asked", "dead"}]
         /\ \A q \in Runs : \/ Asked(session)[q] = processes[q]
                            \/ processes[q] = "alive" /\ Asked(session)[q] = "asked"
         /\ current[session] # Nobody => Asked(session)[current[session]] # "alive"
<1> DEFINE p == current[session]
<1>1. /\ p \in Runs \cup {Nobody}
      /\ processes \in [Runs -> {"none", "alive", "asked", "dead"}]
  BY DEF SessionsType
<1>2. CASE p # Nobody /\ processes[p] = "alive"
  <2>1. Asked(session) = [processes EXCEPT ![p] = "asked"] /\ p \in Runs
    BY <1>1, <1>2 DEF Asked
  <2> QED BY <1>1, <1>2, <2>1
<1>3. CASE ~ (p # Nobody /\ processes[p] = "alive")
  <2>1. Asked(session) = processes
    BY <1>3 DEF Asked
  <2> QED BY <1>1, <1>3, <2>1
<1> QED BY <1>2, <1>3

LEMMA CancelKeeps ==
  ASSUME SessionsInv, NEW r \in Runs, Cancel(r) PROVE SessionsInv'
<1>1. SessionsType /\ TasksInv /\ runs \in [Runs -> RunType] /\ generator \in [Runs -> GeneratorPhase]
  BY DEF SessionsInv, SessionsType
<1> DEFINE stopping == runs[r].pc = "running" /\ generator[r] = "running"
           launching == runs[r].pc = "running" /\ generator[r] = "launching"
           pc == IF stopping THEN runs[r].pc ELSE "removing"
           goes == CASE stopping -> "stopping"
                     [] runs[r].pc = "handling" -> "closing"
                     [] OTHER -> "closed"
<1>2. /\ ~ runs[r].cancelled /\ runs[r].pc \in {"asking", "running", "handling"}
      /\ runs' = [runs EXCEPT ![r].cancelled = TRUE, ![r].pc = pc]
      /\ generator' = [generator EXCEPT ![r] = goes]
      /\ processes' = IF stopping THEN Asked(runs[r].session) ELSE processes
      /\ pids' = IF launching THEN pids \ {current[runs[r].session]} ELSE pids
      /\ UNCHANGED <<current, maps, lock, stop_all>>
  BY DEF Cancel, At
<1>3. /\ pc \in {"running", "removing"} /\ (pc = "running" <=> stopping)
      /\ goes \in {"stopping", "closing", "closed"} /\ (goes = "stopping" <=> stopping)
      /\ goes = "closed" => generator[r] \in {"none", "waiting", "launching"}
      /\ goes # "closed" => generator[r] = "running"
  BY <1>1, <1>2 DEF TasksInv, RunsSound, RunSound, At
<1>4. stopping => runs[r].session \in Runs
  BY <1>1 DEF TasksInv, RunsSound, RunSound
<1> HIDE DEF pc, goes
<1>5. /\ runs'[r] = [runs[r] EXCEPT !.cancelled = TRUE, !.pc = pc]
      /\ \A q \in Runs : q # r => runs'[q] = runs[q]
  BY <1>1, <1>2
<1>6. \A q \in Runs : runs[q] \in RunType
  BY <1>1
<1>7. runs'[r] \in RunType
  BY <1>3, <1>5, <1>6 DEF RunType, RunPhase
<1>8. \A q \in Runs :
        /\ runs'[q].session = runs[q].session /\ runs'[q].temp = runs[q].temp
        /\ runs'[q].captured = runs[q].captured /\ runs'[q].ending = runs[q].ending
        /\ runs'[q].awaits = runs[q].awaits
        /\ runs'[q].cancelled = IF q = r THEN TRUE ELSE runs[q].cancelled
        /\ runs'[q].pc = IF q = r THEN pc ELSE runs[q].pc
  <2>1. /\ runs'[r].session = runs[r].session /\ runs'[r].temp = runs[r].temp
        /\ runs'[r].captured = runs[r].captured /\ runs'[r].ending = runs[r].ending
        /\ runs'[r].awaits = runs[r].awaits /\ runs'[r].cancelled = TRUE /\ runs'[r].pc = pc
    BY <1>5, <1>6, <1>7 DEF RunType
  <2> QED BY <1>5, <2>1
<1>9. /\ processes' \in [Runs -> {"none", "alive", "asked", "dead"}]
      /\ \A q \in Runs : \/ processes'[q] = processes[q]
                         \/ stopping /\ processes[q] = "alive" /\ processes'[q] = "asked"
  BY <1>1, <1>2, <1>4, AskedSound DEF SessionsType
<1>10. SessionsType'
  <2>1. runs' \in [Runs -> RunType]
    BY <1>1, <1>2, <1>5, <1>6, <1>7
  <2>2. generator' \in [Runs -> GeneratorPhase]
    BY <1>1, <1>2, <1>3 DEF GeneratorPhase
  <2> QED BY <1>1, <1>2, <1>9, <2>1, <2>2 DEF SessionsType
<1>11. \A q \in Runs : generator'[q] = IF q = r THEN goes ELSE generator[q]
  BY <1>1, <1>2
<1>12. RunsSound'
  <2>1. RunSound(r)'
    BY <1>1, <1>2, <1>3, <1>8, <1>9, <1>11 DEF TasksInv, RunsSound, RunSound, At
  <2>2. ASSUME NEW q \in Runs, q # r PROVE RunSound(q)'
    BY <1>1, <1>5, <1>9, <1>11, <2>2 DEF TasksInv, RunsSound, RunSound, At
  <2> QED BY <2>1, <2>2 DEF RunsSound
<1>13. LockSound'
  BY <1>1, <1>2, <1>3, <1>8 DEF TasksInv, LockSound, At
<1>14. \A q \in Runs : (Holding(q)' => Holding(q)) /\ (Owner(q) => Owner(q)')
  BY <1>2, <1>3, <1>8, <1>11 DEF Holding, Owner
<1>15. \A q \in Runs : q \in pids /\ q \notin pids' => processes'[q] # "alive"
  BY <1>1, <1>2, <1>9, LastIsOver
<1>16. \A q \in Runs : runs'[q].pc = "ending" =>
        /\ runs[q].pc = "ending" /\ runs'[q].ending = runs[q].ending
        /\ runs'[q].awaits = runs[q].awaits
  BY <1>3, <1>8
<1> QED BY <1>2, <1>8, <1>9, <1>10, <1>12, <1>13, <1>14, <1>15, <1>16, SessionsGoOn

LEMMA TakeCliLockKeeps ==
  ASSUME SessionsInv, NEW r \in Runs, TakeCliLock(r) PROVE SessionsInv'
<1>1. SessionsType /\ TasksInv /\ NamesInv
  BY DEF SessionsInv
<1>2. /\ runs[r].pc = "running" /\ generator[r] = "waiting"
      /\ \A q \in Runs : runs[q].session = runs[r].session => ~ Holding(q)
      /\ generator' = [generator EXCEPT ![r] = "launching"]
      /\ UNCHANGED <<runs, processes, pids, current, maps, lock, stop_all>>
  BY DEF TakeCliLock, At
<1>3. SessionsType'
  BY <1>1, <1>2 DEF SessionsType, GeneratorPhase
<1>4. RunsSound' /\ LockSound'
  BY <1>1, <1>2 DEF TasksInv, RunsSound, RunSound, LockSound, At, SessionsType
<1>5. \A q \in Runs : q # r => (Holding(q)' <=> Holding(q))
  BY <1>1, <1>2 DEF Holding, SessionsType
<1>6. CliLockSound'
  BY <1>1, <1>2, <1>5 DEF TasksInv, CliLockSound
<1>7. CurrentSound' /\ ProcessesAccounted'
  BY <1>1, <1>2 DEF TasksInv, CurrentSound, ProcessesAccounted, At
<1>8. NamesInv'
  BY <1>1, <1>2, NamesGoOn DEF Owner
<1> QED BY <1>3, <1>4, <1>6, <1>7, <1>8 DEF SessionsInv, TasksInv

\* The process that is over and that the new one replaces in session.process is waited for
\* by nobody: whoever did has gone on.
LEMMA LaunchKeeps ==
  ASSUME SessionsInv, NEW r \in Runs, Launch(r) PROVE SessionsInv'
<1>1. SessionsType /\ TasksInv /\ NamesInv
  BY DEF SessionsInv
<1> DEFINE s == runs[r].session
<1>2. /\ runs[r].pc = "running" /\ generator[r] = "launching"
      /\ \A q \in Runs : runs[q].awaits # Nobody /\ At(q, "ending") => ~ Over(runs[q].awaits)
      /\ generator' = [generator EXCEPT ![r] = "running"]
      /\ processes' = [processes EXCEPT ![r] = "alive"]
      /\ pids' = pids \cup {r}
      /\ current' = [current EXCEPT ![s] = r]
      /\ UNCHANGED <<runs, maps, lock, stop_all>>
  BY DEF Launch, At
<1>3. s \in Runs /\ \A q \in Runs : q = current[s] => processes[q] \notin {"alive", "asked"}
  BY <1>1, <1>2, LastIsOver
<1> HIDE DEF s
<1>4. SessionsType'
  BY <1>1, <1>2 DEF SessionsType, GeneratorPhase
<1>5. RunsSound' /\ LockSound'
  BY <1>1, <1>2, <1>3 DEF TasksInv, RunsSound, RunSound, LockSound, At, SessionsType
<1>6. \A q \in Runs : Holding(q)' <=> Holding(q)
  BY <1>1, <1>2 DEF Holding, SessionsType
<1>7. CliLockSound'
  BY <1>1, <1>2, <1>6 DEF TasksInv, CliLockSound
<1>8. ASSUME NEW x \in Runs, current'[x] # Nobody
      PROVE  processes'[current'[x]] # "none" /\ runs'[current'[x]].session = x
  <2>1. CASE x = s
    BY <1>1, <1>2, <2>1 DEF s, SessionsType
  <2>2. CASE x # s
    BY <1>1, <1>2, <1>8, <2>2 DEF TasksInv, CurrentSound, SessionsType
  <2> QED BY <2>1, <2>2
<1>9. ASSUME NEW q \in Runs, runs[q].pc = "ending", runs[q].awaits # Nobody
      PROVE  current'[runs[q].ending] = runs[q].awaits
  <2>1. /\ current[runs[q].ending] = runs[q].awaits /\ runs[q].ending \in Runs
        /\ processes[runs[q].awaits] # "dead" /\ runs[q].awaits \in Runs
    BY <1>1, <1>2, <1>9 DEF TasksInv, CurrentSound, RunsSound, RunSound, At, Over, SessionsType
  <2>2. processes[runs[q].awaits] \in {"alive", "asked"}
    BY <1>1, <1>9, <2>1 DEF TasksInv, CurrentSound, SessionsType
  <2>3. runs[q].ending # s
    BY <1>3, <2>1, <2>2
  <2> QED BY <1>1, <1>2, <2>1, <2>3 DEF SessionsType
<1>10. CurrentSound'
  BY <1>2, <1>8, <1>9 DEF CurrentSound, At
<1>11. ProcessesAccounted'
  BY <1>1, <1>2 DEF TasksInv, ProcessesAccounted, SessionsType
<1>12. NamesInv'
  BY <1>1, <1>2, NamesGoOn DEF Owner
<1> QED BY <1>4, <1>5, <1>7, <1>10, <1>11, <1>12 DEF SessionsInv, TasksInv

\* What stop_all and the exit do to the processes and the registry of their numbers.
LEMMA StopAllKeeps ==
  ASSUME SessionsInv,
         \/ AskStopAll \/ BeginStopAll \/ (\E session \in Runs : StopOne(session))
         \/ StopAllTimesOut \/ KillAll
  PROVE  SessionsInv'
<1>1. SessionsType /\ TasksInv /\ NamesInv
  BY DEF SessionsInv
<1>2. UNCHANGED <<runs, generator, current, maps>>
  BY DEF AskStopAll, BeginStopAll, StopOne, StopAllTimesOut, KillAll
<1>3. ASSUME SessionsType', LockSound', lock' = lock \/ lock \notin Runs,
             \A q \in Runs : \/ processes'[q] = processes[q]
                             \/ processes[q] = "alive" /\ processes'[q] = "asked",
             \A q \in Runs : q \in pids /\ q \notin pids' => processes'[q] # "alive"
      PROVE  SessionsInv'
  <2>1. RunsSound'
    BY <1>1, <1>2, <1>3 DEF TasksInv, RunsSound, RunSound, At
  <2>2. \A q \in Runs : (Holding(q)' => Holding(q)) /\ (Owner(q) => Owner(q)')
    BY <1>2 DEF Holding, Owner
  <2> QED BY <1>2, <1>3, <2>1, <2>2, SessionsGoOn
<1>4. CASE AskStopAll
  <2>1. /\ stop_all' = [stop_all EXCEPT !.phase = "waiting"] /\ stop_all.phase = "idle"
        /\ UNCHANGED <<processes, pids, lock>>
    BY <1>4 DEF AskStopAll
  <2>2. SessionsType'
    BY <1>1, <1>2, <2>1 DEF SessionsType, StopAllType
  <2>3. LockSound'
    BY <1>1, <1>2, <2>1 DEF TasksInv, LockSound, SessionsType, StopAllType, At
  <2> QED BY <1>3, <2>1, <2>2, <2>3
<1>5. CASE BeginStopAll
  <2>1. /\ lock = Nobody /\ lock' = Everyone /\ UNCHANGED <<processes, pids>>
        /\ stop_all' = [phase |-> "stopping", todo |-> Range(sessions) \cup Range(pending),
                        awaits |-> Nobody]
    BY <1>5 DEF BeginStopAll
  <2>2. Range(sessions) \cup Range(pending) \subseteq Runs
    BY <1>1 DEF NamesInv, EntriesSound, Range
  <2>3. SessionsType'
    BY <1>1, <1>2, <2>1, <2>2 DEF SessionsType, StopAllType
  <2>4. LockSound'
    BY <1>1, <1>2, <2>1, NobodyApart DEF TasksInv, LockSound, At
  <2> QED BY <1>3, <2>1, <2>3, <2>4, NobodyApart
<1>6. ASSUME NEW session \in Runs, StopOne(session) PROVE SessionsInv'
  <2>1. /\ stop_all.phase = "stopping" /\ Over(stop_all.awaits)
        /\ stop_all.awaits # Nobody => current[session] = stop_all.awaits
        /\ processes' = Asked(session) /\ lock' = lock
        /\ stop_all' = [stop_all EXCEPT !.awaits = Awaited(session),
                           !.todo = IF Awaited(session) = Nobody THEN stop_all.todo \ {session}
                                    ELSE stop_all.todo]
        /\ pids' = Unregistered(session, stop_all.awaits)
    BY <1>6 DEF StopOne
  <2>2. Awaited(session) \in Runs \cup {Nobody}
    BY <1>1 DEF SessionsType, Awaited
  <2>3. /\ processes' \in [Runs -> {"none", "alive", "asked", "dead"}]
        /\ \A q \in Runs : \/ processes'[q] = processes[q]
                           \/ processes[q] = "alive" /\ processes'[q] = "asked"
    BY <1>1, <2>1, AskedSound
  <2>4. stop_all' \in StopAllType /\ stop_all'.phase = "stopping"
    BY <1>1, <2>1, <2>2 DEF SessionsType, StopAllType
  <2>5. pids' \subseteq pids
        /\ \A q \in Runs : q \in pids /\ q \notin pids' => processes[q] = "dead"
    BY <2>1 DEF Unregistered, Over
  <2>6. SessionsType'
    BY <1>1, <1>2, <2>1, <2>3, <2>4, <2>5 DEF SessionsType
  <2>7. LockSound'
    BY <1>1, <1>2, <2>1, <2>4 DEF TasksInv, LockSound, At
  <2> QED BY <1>3, <2>1, <2>3, <2>5, <2>6, <2>7
<1>7. CASE StopAllTimesOut
  <2>1. /\ lock' = IF lock = Everyone THEN Nobody ELSE lock
        /\ stop_all' = [phase |-> "done", todo |-> {}, awaits |-> Nobody]
        /\ UNCHANGED <<processes, pids>>
    BY <1>7 DEF StopAllTimesOut
  <2>2. SessionsType'
    BY <1>1, <1>2, <2>1 DEF SessionsType, StopAllType
  <2>3. LockSound'
    BY <1>1, <1>2, <2>1, NobodyApart DEF TasksInv, LockSound, At
  <2> QED BY <1>3, <2>1, <2>2, <2>3, NobodyApart
<1>8. CASE KillAll
  <2>1. /\ processes' = [r \in Runs |-> IF r \in pids /\ processes[r] = "alive" THEN "asked"
                                        ELSE processes[r]]
        /\ pids' = {} /\ UNCHANGED <<lock, stop_all>>
    BY <1>8 DEF KillAll
  <2>2. SessionsType'
    BY <1>1, <1>2, <2>1 DEF SessionsType
  <2>3. LockSound'
    BY <1>1, <1>2, <2>1 DEF TasksInv, LockSound, At
  <2> QED BY <1>1, <1>3, <2>1, <2>2, <2>3
<1> QED BY <1>4, <1>5, <1>6, <1>7, <1>8

LEMMA GetOrCreateKeeps ==
  ASSUME SessionsInv, NEW r \in Runs, GetOrCreate(r) PROVE SessionsInv'
<1>1. SessionsType /\ TasksInv /\ NamesInv /\ runs \in [Runs -> RunType]
  BY DEF SessionsInv, SessionsType
<1> DEFINE id == IF runs[r].resumes THEN Parent ELSE NoId
           at == IF id \in DOMAIN temp_to_real THEN temp_to_real[id] ELSE id
           found == IF at \in DOMAIN sessions THEN sessions[at]
                    ELSE IF at \in DOMAIN pending THEN pending[at] ELSE Nobody
           session == IF found = Nobody THEN r ELSE found
           temp == IF found = Nobody THEN Temp(r) ELSE NoId
           captured == IF found = Nobody THEN NoId ELSE at
<1>2. /\ runs[r].pc = "asking" /\ lock = Nobody
      /\ runs' = [runs EXCEPT ![r].pc = "running", ![r].session = session, ![r].temp = temp,
                              ![r].captured = captured]
      /\ pending' = IF found = Nobody THEN With(pending, Temp(r), r) ELSE pending
      /\ generator' = [generator EXCEPT ![r] = "waiting"]
      /\ UNCHANGED <<processes, pids, current, sessions, temp_to_real, real_to_temp, lock, stop_all>>
  BY DEF GetOrCreate, At
<1>3. /\ runs[r].session = Nobody /\ runs[r].temp = NoId /\ runs[r].captured = NoId
      /\ generator[r] = "none" /\ processes[r] = "none" /\ Temp(r) \in {Parent, Pending(r)}
  BY <1>1, <1>2 DEF TasksInv, RunsSound, RunSound, Temp, Pending
<1>4. found \in Runs \cup {Nobody}
  BY <1>1 DEF NamesInv, EntriesSound
<1>5. found = Nobody => at \notin DOMAIN sessions \cup DOMAIN pending
  BY <1>1, NobodyApart DEF NamesInv, EntriesSound
\* An identifier that is looked up in vain is known to none of the maps.
<1>6. found = Nobody => Temp(r) \notin DOMAIN pending \cup DOMAIN temp_to_real
  <2> SUFFICES ASSUME found = Nobody
               PROVE  Temp(r) \notin DOMAIN pending /\ Temp(r) \notin DOMAIN temp_to_real
    OBVIOUS
  <2>1. CASE runs[r].resumes
    <3>1. id = Parent /\ Temp(r) = Parent
      BY <2>1 DEF Temp
    <3>2. Parent \notin DOMAIN temp_to_real
      <4> SUFFICES ASSUME Parent \in DOMAIN temp_to_real PROVE FALSE
        OBVIOUS
      <4>1. at = temp_to_real[Parent] /\ at \in DOMAIN real_to_temp
        BY <1>1, <3>1 DEF NamesInv, MapsSound
      <4>2. at \in DOMAIN sessions
        BY <1>1, <1>2, <4>1, NobodyApart DEF NamesInv, MapsSound
      <4> QED BY <1>5, <4>2
    <3> QED BY <1>5, <3>1, <3>2
  <2>2. CASE ~ runs[r].resumes
    <3>1. Temp(r) = Pending(r)
      BY <2>2 DEF Temp, Pending
    <3>2. Pending(r) \notin DOMAIN pending
      <4> SUFFICES ASSUME Pending(r) \in DOMAIN pending PROVE FALSE
        OBVIOUS
      <4>1. /\ pending[Pending(r)] \in Runs /\ runs[pending[Pending(r)]].temp = Pending(r)
            /\ Owner(pending[Pending(r)])
        BY <1>1 DEF NamesInv, EntriesSound
      <4>2. pending[Pending(r)] = r
        BY <1>1, <4>1, IdsApart DEF NamesInv, IdsSound
      <4> QED BY <1>2, <4>1, <4>2 DEF Owner
    <3>3. Pending(r) \notin DOMAIN temp_to_real
      <4> SUFFICES ASSUME Pending(r) \in DOMAIN temp_to_real PROVE FALSE
        OBVIOUS
      <4>1. temp_to_real[Pending(r)] = Real(r) /\ Real(r) \in DOMAIN real_to_temp
        BY <1>1, IdsApart DEF NamesInv, MapsSound
      <4>2. runs[r].captured = Real(r)
        BY <1>1, <4>1, IdsApart DEF NamesInv, MapsSound
      <4> QED BY <1>3, <4>2, IdsApart
    <3> QED BY <3>1, <3>2, <3>3
  <2> QED BY <2>1, <2>2
<1>7. /\ session \in Runs /\ temp \in {NoId, Parent, Pending(r)}
      /\ temp # NoId => captured = NoId
  BY <1>3, <1>4
<1>8. captured \in Ids
  <2>1. NoId \in Ids /\ Parent \in Ids /\ \A q \in Runs : Real(q) \in Ids
    BY DEF Ids
  <2>2. \A t \in DOMAIN temp_to_real : temp_to_real[t] \in Ids
    BY <1>1, <2>1 DEF NamesInv, MapsSound
  <2> QED BY <2>1, <2>2
<1>9. temp \in Ids
  BY <1>7 DEF Ids
<1>10. \A t \in DOMAIN pending' :
         \/ t \in DOMAIN pending /\ pending'[t] = pending[t]
         \/ t = temp /\ temp # NoId /\ pending'[t] = r /\ t \notin DOMAIN temp_to_real
  BY <1>2, <1>3, <1>6, IdsApart DEF With
<1> HIDE DEF session, temp, captured, found, at, id
<1>11. /\ runs'[r] = [runs[r] EXCEPT !.pc = "running", !.session = session, !.temp = temp,
                                     !.captured = captured]
       /\ \A q \in Runs : q # r => runs'[q] = runs[q]
  BY <1>1, <1>2
<1>12. runs[r] \in RunType
  BY <1>1
<1>13. runs'[r] \in RunType
  BY <1>7, <1>8, <1>9, <1>11, <1>12 DEF RunType, RunPhase
<1>14. /\ runs'[r].pc = "running" /\ runs'[r].session = session /\ runs'[r].temp = temp
       /\ runs'[r].captured = captured /\ runs'[r].cancelled = runs[r].cancelled
  BY <1>11, <1>12 DEF RunType
<1>15. SessionsType'
  <2>1. runs' \in [Runs -> RunType]
    BY <1>1, <1>2, <1>11, <1>13
  <2>2. generator' \in [Runs -> GeneratorPhase]
    BY <1>1, <1>2 DEF SessionsType, GeneratorPhase
  <2> QED BY <1>1, <1>2, <2>1, <2>2 DEF SessionsType
<1>16. \A q \in Runs : generator'[q] = IF q = r THEN "waiting" ELSE generator[q]
  BY <1>1, <1>2 DEF SessionsType
<1>17. RunsSound' /\ LockSound'
  BY <1>1, <1>2, <1>3, <1>7, <1>11, <1>14, <1>16 DEF TasksInv, RunsSound, RunSound, LockSound, At
<1>18. CliLockSound'
  BY <1>1, <1>11, <1>16 DEF TasksInv, CliLockSound, Holding
<1>19. CurrentSound'
  <2>1. \A s \in Runs : current[s] # Nobody => current[s] # r /\ current[s] \in Runs
    BY <1>1, <1>3 DEF TasksInv, CurrentSound, SessionsType
  <2> QED BY <1>1, <1>2, <1>11, <1>14, <2>1 DEF TasksInv, CurrentSound, At
<1>20. ProcessesAccounted'
  BY <1>1, <1>2 DEF TasksInv, ProcessesAccounted
<1>21. EntriesSound'
  <2>1. \A q \in Runs : Owner(q) => Owner(q)' /\ q # r
    BY <1>2, <1>11 DEF Owner
  <2>2. Owner(r)'
    BY <1>14 DEF Owner
  <2> QED BY <1>1, <1>2, <1>10, <1>11, <1>14, <2>1, <2>2 DEF NamesInv, EntriesSound
<1>22. MapsSound'
  <2>1. ASSUME NEW i \in DOMAIN real_to_temp
        PROVE  /\ i \in DOMAIN sessions
               /\ \E q \in Runs : i = Real(q) /\ runs'[q].captured = i
    <3>1. i \in DOMAIN sessions
      BY <1>1, <1>2, NobodyApart DEF NamesInv, MapsSound
    <3>2. PICK q \in Runs : i = Real(q) /\ runs[q].captured = i
      BY <1>1 DEF NamesInv, MapsSound
    <3>3. q # r
      BY <1>3, <3>2, IdsApart
    <3> QED BY <1>11, <3>1, <3>2, <3>3
  <2>2. \A t \in DOMAIN temp_to_real : t \notin DOMAIN pending'
    BY <1>1, <1>10 DEF NamesInv, MapsSound
  <2> QED BY <1>1, <1>2, <2>1, <2>2 DEF NamesInv, MapsSound
<1>23. IdsSound'
  BY <1>1, <1>7, <1>11, <1>14 DEF NamesInv, IdsSound
<1> QED BY <1>15, <1>17, <1>18, <1>19, <1>20, <1>21, <1>22, <1>23 DEF SessionsInv, TasksInv, NamesInv

LEMMA RegisterIdKeeps ==
  ASSUME SessionsInv, NEW r \in Runs, RegisterId(r) PROVE SessionsInv'
<1>1. SessionsType /\ TasksInv /\ NamesInv /\ runs \in [Runs -> RunType]
  BY DEF SessionsInv, SessionsType
<1> DEFINE temp == runs[r].temp
           known == temp \in DOMAIN pending
<1>2. /\ runs[r].pc = "handling" /\ temp # NoId /\ lock = Nobody
      /\ runs' = [runs EXCEPT ![r].pc = "running", ![r].temp = NoId, ![r].captured = Real(r)]
      /\ pending' = IF known THEN Without(pending, temp) ELSE pending
      /\ sessions' = IF known THEN With(sessions, Real(r), pending[temp]) ELSE sessions
      /\ temp_to_real' = IF known THEN With(temp_to_real, temp, Real(r)) ELSE temp_to_real
      /\ real_to_temp' = IF known THEN With(real_to_temp, Real(r), temp) ELSE real_to_temp
      /\ UNCHANGED <<generator, processes, pids, current, lock, stop_all>>
  BY DEF RegisterId, At
<1>3. temp \in {Parent, Pending(r)} /\ runs[r].captured = NoId
  BY <1>1, <1>2 DEF NamesInv, IdsSound
<1> HIDE DEF temp
<1>4. /\ runs'[r] = [runs[r] EXCEPT !.pc = "running", !.temp = NoId, !.captured = Real(r)]
      /\ \A q \in Runs : q # r => runs'[q] = runs[q]
  BY <1>1, <1>2
<1>5. runs[r] \in RunType /\ NoId \in Ids /\ Real(r) \in Ids
  BY <1>1 DEF Ids
<1>6. runs'[r] \in RunType
  BY <1>4, <1>5 DEF RunType, RunPhase
<1>7. /\ runs'[r].pc = "running" /\ runs'[r].session = runs[r].session /\ runs'[r].temp = NoId
      /\ runs'[r].captured = Real(r) /\ runs'[r].cancelled = runs[r].cancelled
      /\ runs'[r].ending = runs[r].ending /\ runs'[r].awaits = runs[r].awaits
  BY <1>4, <1>5 DEF RunType
<1>8. SessionsType'
  <2>1. runs' \in [Runs -> RunType]
    BY <1>1, <1>2, <1>4, <1>6
  <2> QED BY <1>1, <1>2, <2>1 DEF SessionsType
<1>9. TasksInv'
  <2>1. RunsSound' /\ LockSound'
    BY <1>1, <1>2, <1>4, <1>7 DEF TasksInv, RunsSound, RunSound, LockSound, At
  <2>2. \A q \in Runs : runs'[q].session = runs[q].session /\ (Holding(q)' => Holding(q))
    BY <1>2, <1>4, <1>7 DEF Holding
  <2>3. \A q \in Runs : runs'[q].pc = "ending" =>
          /\ runs[q].pc = "ending" /\ runs'[q].ending = runs[q].ending
          /\ runs'[q].awaits = runs[q].awaits
    BY <1>4, <1>7
  <2> QED BY <1>1, <1>2, <2>1, <2>2, <2>3, TasksGoOn
<1>10. IdsSound'
  BY <1>1, <1>4, <1>7 DEF NamesInv, IdsSound
<1>11. \A q \in Runs : (Owner(q) => Owner(q)') /\ Owner(r)'
  BY <1>4, <1>7 DEF Owner
\* The identifier is new to the maps: it comes from this run, which has reported none.
<1>12. Real(r) \notin DOMAIN real_to_temp /\ Real(r) \notin DOMAIN sessions
  <2>1. Real(r) \notin DOMAIN real_to_temp
    BY <1>1, <1>3, IdsApart DEF NamesInv, MapsSound
  <2> QED BY <1>1, <2>1 DEF NamesInv, EntriesSound
<1>13. \A i \in DOMAIN real_to_temp :
         i \in DOMAIN sessions /\ \E q \in Runs : i = Real(q) /\ runs'[q].captured = i
  <2> SUFFICES ASSUME NEW i \in DOMAIN real_to_temp
               PROVE  i \in DOMAIN sessions /\ \E q \in Runs : i = Real(q) /\ runs'[q].captured = i
    OBVIOUS
  <2>1. i \in DOMAIN sessions
    BY <1>1, <1>2, NobodyApart DEF NamesInv, MapsSound
  <2>2. PICK q \in Runs : i = Real(q) /\ runs[q].captured = i
    BY <1>1 DEF NamesInv, MapsSound
  <2> QED BY <1>4, <1>12, <2>1, <2>2
<1>14. CASE ~ known
  <2>1. UNCHANGED maps
    BY <1>2, <1>14 DEF maps
  <2>2. EntriesSound'
    <3>1. \A t \in DOMAIN pending : pending[t] # r
      BY <1>1, <1>14 DEF NamesInv, EntriesSound, temp
    <3> QED BY <1>1, <1>4, <1>11, <2>1, <3>1 DEF NamesInv, EntriesSound, maps
  <2>3. MapsSound'
    BY <1>1, <1>2, <1>13, <2>1 DEF NamesInv, MapsSound, maps
  <2> QED BY <1>8, <1>9, <1>10, <2>2, <2>3 DEF SessionsInv, NamesInv
<1>15. CASE known
  <2>1. /\ DOMAIN pending' = DOMAIN pending \ {temp}
        /\ \A t \in DOMAIN pending' : pending'[t] = pending[t]
        /\ DOMAIN sessions' = DOMAIN sessions \cup {Real(r)}
        /\ \A i \in DOMAIN sessions : sessions'[i] = sessions[i]
        /\ sessions'[Real(r)] = pending[temp]
    BY <1>2, <1>12, <1>15 DEF With, Without
  <2>2. temp \notin DOMAIN temp_to_real
    BY <1>1, <1>15 DEF NamesInv, MapsSound
  <2>3. /\ DOMAIN temp_to_real' = DOMAIN temp_to_real \cup {temp}
        /\ \A t \in DOMAIN temp_to_real : temp_to_real'[t] = temp_to_real[t]
        /\ temp_to_real'[temp] = Real(r)
        /\ DOMAIN real_to_temp' = DOMAIN real_to_temp \cup {Real(r)}
        /\ \A i \in DOMAIN real_to_temp : real_to_temp'[i] = real_to_temp[i]
        /\ real_to_temp'[Real(r)] = temp
    BY <1>2, <1>12, <1>15, <2>2 DEF With
  <2>4. EntriesSound'
    <3>1. \A t \in DOMAIN pending' : pending[t] # r /\ pending[t] \in Runs
                                    /\ runs[pending[t]].temp = t /\ Owner(pending[t])
      BY <1>1, <2>1 DEF NamesInv, EntriesSound, temp
    <3>2. pending[temp] \in Runs
      BY <1>1, <1>15 DEF NamesInv, EntriesSound
    <3> QED BY <1>1, <1>4, <1>11, <2>1, <2>3, <3>1, <3>2 DEF NamesInv, EntriesSound
  <2>5. ASSUME NEW i \in DOMAIN real_to_temp'
        PROVE  /\ i \in DOMAIN sessions'
               /\ \E q \in Runs : i = Real(q) /\ runs'[q].captured = i
               /\ real_to_temp'[i] \in DOMAIN temp_to_real' /\ temp_to_real'[real_to_temp'[i]] = i
    <3>1. CASE i = Real(r)
      BY <1>7, <2>1, <2>3, <3>1
    <3>2. CASE i # Real(r)
      <4>1. real_to_temp[i] \in DOMAIN temp_to_real /\ temp_to_real[real_to_temp[i]] = i
            /\ i \in DOMAIN real_to_temp
        BY <1>1, <2>3, <3>2 DEF NamesInv, MapsSound
      <4> QED BY <1>13, <2>1, <2>3, <4>1
    <3> QED BY <3>1, <3>2
  <2>6. ASSUME NEW t \in DOMAIN temp_to_real'
        PROVE  /\ temp_to_real'[t] \in DOMAIN real_to_temp' /\ real_to_temp'[temp_to_real'[t]] = t
               /\ t \notin DOMAIN pending'
               /\ t = Parent \/ \E q \in Runs : t = Pending(q) /\ temp_to_real'[t] = Real(q)
    <3>1. CASE t = temp
      BY <1>3, <2>1, <2>3, <3>1
    <3>2. CASE t # temp
      BY <1>1, <2>1, <2>3, <3>2 DEF NamesInv, MapsSound
    <3> QED BY <3>1, <3>2
  <2>7. MapsSound'
    BY <2>5, <2>6 DEF MapsSound
  <2> QED BY <1>8, <1>9, <1>10, <2>4, <2>7 DEF SessionsInv, NamesInv
<1> QED BY <1>14, <1>15

LEMMA RemoveKeeps ==
  ASSUME SessionsInv, NEW r \in Runs, Remove(r) PROVE SessionsInv'
<1>1. SessionsType /\ TasksInv /\ NamesInv /\ runs \in [Runs -> RunType]
  BY DEF SessionsInv, SessionsType
<1> DEFINE id == IdToRemove(r)
           session == IF id \in DOMAIN pending THEN pending[id]
                      ELSE IF id \in DOMAIN sessions THEN sessions[id] ELSE Nobody
           pc == IF session = Nobody THEN "done" ELSE "ending"
           awaits == IF session = Nobody THEN Nobody ELSE Awaited(session)
<1>2. /\ runs[r].pc = "removing" /\ (id # NoId => lock = Nobody)
      /\ runs' = [runs EXCEPT ![r].pc = pc, ![r].ending = session, ![r].awaits = awaits]
      /\ lock' = IF session = Nobody THEN lock ELSE r
      /\ processes' = IF session = Nobody THEN processes ELSE Asked(session)
      /\ pending' = Without(pending, id)
      /\ sessions' = IF id \in DOMAIN pending THEN sessions ELSE Without(sessions, id)
      /\ UNCHANGED <<generator, pids, current, temp_to_real, real_to_temp, stop_all>>
  BY DEF Remove, At
<1>3. session \in Runs \cup {Nobody}
      /\ (session = Nobody <=> id \notin DOMAIN pending \cup DOMAIN sessions)
  BY <1>1, NobodyApart DEF NamesInv, EntriesSound
\* No entry is without an identifier, so that a session is removed under a free lock only.
<1>4. session # Nobody => id # NoId /\ lock = Nobody
  <2>1. NoId \notin DOMAIN pending
    BY <1>1 DEF NamesInv, EntriesSound
  <2>2. NoId \notin DOMAIN sessions
    BY <1>1, IdsApart DEF NamesInv, EntriesSound
  <2> QED BY <1>2, <1>3, <2>1, <2>2
<1>5. awaits \in {Nobody} \cup Runs /\ (awaits # Nobody => awaits = current[session])
  BY <1>1, <1>3 DEF Awaited, SessionsType
<1>6. pc \in {"done", "ending"} /\ (pc = "ending" <=> session # Nobody)
  OBVIOUS
<1>7. id = IF runs[r].captured # NoId THEN runs[r].captured ELSE runs[r].temp
  BY DEF IdToRemove
\* What the run is answerable for is what it removes.
<1>8. /\ \A t \in DOMAIN pending : pending[t] = r => t = id
      /\ Real(r) \in DOMAIN sessions => id = Real(r)
      /\ id \notin DOMAIN pending /\ id \in DOMAIN sessions => runs[r].captured = id
      /\ \A q \in Runs : Real(q) \notin DOMAIN pending
  <2>1. \A t \in DOMAIN pending : pending[t] = r => t = id
    BY <1>1, <1>7 DEF NamesInv, EntriesSound, IdsSound
  <2>2. Real(r) \in DOMAIN sessions => runs[r].captured = Real(r)
    <3> SUFFICES ASSUME Real(r) \in DOMAIN sessions PROVE runs[r].captured = Real(r)
      OBVIOUS
    <3>1. Real(r) \in DOMAIN real_to_temp
      BY <1>1 DEF NamesInv, EntriesSound
    <3> QED BY <1>1, <3>1, IdsApart DEF NamesInv, MapsSound
  <2>3. id \in DOMAIN sessions => \E q \in Runs : id = Real(q)
    BY <1>1 DEF NamesInv, EntriesSound
  <2>4. \A q \in Runs : runs[r].temp # Real(q)
    BY <1>1, IdsApart DEF NamesInv, IdsSound
  <2>5. \A q \in Runs : Real(q) \notin DOMAIN pending
    BY <1>1, IdsApart DEF NamesInv, EntriesSound, IdsSound
  <2> QED BY <1>7, <2>1, <2>2, <2>3, <2>4, <2>5, IdsApart
<1> HIDE DEF id, session, pc, awaits
<1>9. /\ runs'[r] = [runs[r] EXCEPT !.pc = pc, !.ending = session, !.awaits = awaits]
      /\ \A q \in Runs : q # r => runs'[q] = runs[q]
  BY <1>1, <1>2
<1>10. runs[r] \in RunType
  BY <1>1
<1>11. runs'[r] \in RunType
  BY <1>3, <1>5, <1>6, <1>9, <1>10 DEF RunType, RunPhase
<1>12. /\ runs'[r].pc = pc /\ runs'[r].session = runs[r].session /\ runs'[r].temp = runs[r].temp
       /\ runs'[r].captured = runs[r].captured /\ runs'[r].cancelled = runs[r].cancelled
       /\ runs'[r].ending = session /\ runs'[r].awaits = awaits
  BY <1>9, <1>10 DEF RunType
<1>13. /\ processes' \in [Runs -> {"none", "alive", "asked", "dead"}]
       /\ \A q \in Runs : \/ processes'[q] = processes[q]
                          \/ processes[q] = "alive" /\ processes'[q] = "asked"
  BY <1>1, <1>2, <1>3, AskedSound DEF SessionsType
<1>14. SessionsType'
  <2>1. runs' \in [Runs -> RunType]
    BY <1>1, <1>2, <1>9, <1>11
  <2> QED BY <1>1, <1>2, <1>13, <2>1 DEF SessionsType
<1>15. TasksInv'
  <2>1. RunsSound'
    BY <1>1, <1>2, <1>3, <1>6, <1>9, <1>12, <1>13 DEF TasksInv, RunsSound, RunSound, At
  <2>2. LockSound'
    BY <1>1, <1>2, <1>4, <1>6, <1>9, <1>12, NobodyApart DEF TasksInv, LockSound, At
  <2>3. \A q \in Runs : runs'[q].session = runs[q].session /\ (Holding(q)' => Holding(q))
    BY <1>2, <1>9, <1>12 DEF Holding
  <2>4. \A q \in Runs : runs'[q].pc = "ending" =>
          \/ /\ runs[q].pc = "ending" /\ runs'[q].ending = runs[q].ending
             /\ runs'[q].awaits = runs[q].awaits
          \/ runs'[q].awaits \in {Nobody, current[runs'[q].ending]}
    BY <1>5, <1>9, <1>12
  <2> QED BY <1>1, <1>2, <1>13, <2>1, <2>2, <2>3, <2>4, TasksGoOn
<1>16. IdsSound'
  BY <1>1, <1>9, <1>12 DEF NamesInv, IdsSound
<1>17. /\ DOMAIN pending' = DOMAIN pending \ {id}
       /\ \A t \in DOMAIN pending' : pending'[t] = pending[t]
       /\ DOMAIN sessions' = IF id \in DOMAIN pending THEN DOMAIN sessions
                             ELSE DOMAIN sessions \ {id}
       /\ \A i \in DOMAIN sessions' : sessions'[i] = sessions[i]
  BY <1>2 DEF Without
<1>18. EntriesSound'
  <2>1. \A q \in Runs : q # r /\ Owner(q) => Owner(q)' /\ runs'[q].temp = runs[q].temp
    BY <1>9 DEF Owner
  <2>2. \A t \in DOMAIN pending' :
          pending'[t] \in Runs /\ runs'[pending'[t]].temp = t /\ t # NoId /\ Owner(pending[t])'
    <3> SUFFICES ASSUME NEW t \in DOMAIN pending'
                 PROVE  /\ pending'[t] \in Runs /\ runs'[pending'[t]].temp = t /\ t # NoId
                        /\ Owner(pending[t])'
      OBVIOUS
    <3>1. /\ t \in DOMAIN pending /\ t # id /\ pending'[t] = pending[t] /\ pending[t] # r
      BY <1>8, <1>17
    <3>2. pending[t] \in Runs /\ runs[pending[t]].temp = t /\ t # NoId /\ Owner(pending[t])
      BY <1>1, <3>1 DEF NamesInv, EntriesSound
    <3> QED BY <1>9, <3>1, <3>2 DEF Owner
  <2>3. \A i \in DOMAIN sessions' :
          /\ sessions'[i] \in Runs /\ i \in DOMAIN real_to_temp
          /\ \E q \in Runs : i = Real(q) /\ Owner(q)'
    <3> SUFFICES ASSUME NEW i \in DOMAIN sessions'
                 PROVE  /\ sessions'[i] \in Runs /\ i \in DOMAIN real_to_temp
                        /\ \E q \in Runs : i = Real(q) /\ Owner(q)'
      OBVIOUS
    <3>1. i \in DOMAIN sessions /\ sessions'[i] = sessions[i]
      BY <1>17
    <3>2. sessions[i] \in Runs /\ i \in DOMAIN real_to_temp
      BY <1>1, <3>1 DEF NamesInv, EntriesSound
    <3>3. PICK q \in Runs : i = Real(q) /\ Owner(q)
      BY <1>1, <3>1 DEF NamesInv, EntriesSound
    <3>4. q # r
      BY <1>8, <1>17, <3>1, <3>3
    <3> QED BY <2>1, <3>1, <3>2, <3>3, <3>4
  <2> QED BY <1>2, <2>2, <2>3 DEF EntriesSound
<1>19. MapsSound'
  <2>1. ASSUME NEW i \in DOMAIN real_to_temp, i \notin DOMAIN sessions'
        PROVE  lock' \in Runs /\ runs'[lock'].captured = i
    <3>1. CASE i \in DOMAIN sessions
      <4>1. i = id /\ id \notin DOMAIN pending
        BY <1>17, <2>1, <3>1
      <4>2. session # Nobody
        BY <1>3, <3>1, <4>1
      <4> QED BY <1>2, <1>8, <1>12, <3>1, <4>1, <4>2
    <3>2. CASE i \notin DOMAIN sessions
      <4>1. lock \in Runs /\ runs[lock].captured = i
        BY <1>1, <3>2 DEF NamesInv, MapsSound
      <4>2. lock' = lock
        BY <1>2, <1>4, <4>1, NobodyApart
      <4> QED BY <1>9, <1>12, <4>1, <4>2
    <3> QED BY <3>1, <3>2
  <2>2. \A i \in DOMAIN real_to_temp : \E q \in Runs : i = Real(q) /\ runs'[q].captured = i
    <3>1. \A q \in Runs : runs'[q].captured = runs[q].captured
      BY <1>9, <1>12
    <3> QED BY <1>1, <3>1 DEF NamesInv, MapsSound
  <2>3. \A t \in DOMAIN temp_to_real : t \notin DOMAIN pending'
    BY <1>1, <1>17 DEF NamesInv, MapsSound
  <2> QED BY <1>1, <1>2, <2>1, <2>2, <2>3 DEF NamesInv, MapsSound
<1> QED BY <1>14, <1>15, <1>16, <1>18, <1>19 DEF SessionsInv, NamesInv

\* The removal that ends forgets the two identifiers together, if they are still known.
LEMMA RemovedKeeps ==
  ASSUME SessionsInv, NEW r \in Runs, Removed(r) PROVE SessionsInv'
<1>1. SessionsType /\ TasksInv /\ NamesInv /\ runs \in [Runs -> RunType]
  BY DEF SessionsInv, SessionsType
<1> DEFINE id == runs[r].captured
           temp == IF id \in DOMAIN real_to_temp /\ id \notin DOMAIN sessions
                   THEN real_to_temp[id] ELSE NoId
<1>2. /\ runs[r].pc = "ending" /\ Over(runs[r].awaits) /\ Goes(r, "done") /\ lock' = Nobody
      /\ pids' = Unregistered(runs[r].ending, runs[r].awaits)
      /\ real_to_temp' = IF temp = NoId THEN real_to_temp ELSE Without(real_to_temp, id)
      /\ temp_to_real' = Without(temp_to_real, temp)
      /\ UNCHANGED <<generator, processes, current, sessions, pending, stop_all>>
  BY DEF Removed, At
<1>3. lock = r
  BY <1>1, <1>2 DEF TasksInv, LockSound, At
<1>4. /\ runs' \in [Runs -> RunType]
      /\ runs'[r].pc = "done"
      /\ \A q \in Runs :
           /\ q # r => runs'[q] = runs[q]
           /\ runs'[q].session = runs[q].session /\ runs'[q].temp = runs[q].temp
           /\ runs'[q].captured = runs[q].captured /\ runs'[q].ending = runs[q].ending
           /\ runs'[q].awaits = runs[q].awaits /\ runs'[q].cancelled = runs[q].cancelled
  BY <1>1, <1>2, RunGoes DEF RunPhase
<1>5. /\ pids' \subseteq pids
      /\ \A q \in Runs : q \in pids /\ q \notin pids' => processes[q] = "dead"
  BY <1>1, <1>2 DEF TasksInv, CurrentSound, Unregistered, Over, At
<1>6. SessionsType'
  BY <1>1, <1>2, <1>4, <1>5 DEF SessionsType
<1>7. TasksInv'
  <2>1. RunsSound'
    BY <1>1, <1>2, <1>4 DEF TasksInv, RunsSound, RunSound, At
  <2>2. LockSound'
    BY <1>1, <1>2, <1>3, <1>4, NobodyApart DEF TasksInv, LockSound, At
  <2>3. \A q \in Runs : runs'[q].session = runs[q].session /\ (Holding(q)' => Holding(q))
    BY <1>2, <1>4 DEF Holding
  <2>4. \A q \in Runs : runs'[q].pc = "ending" =>
          /\ runs[q].pc = "ending" /\ runs'[q].ending = runs[q].ending
          /\ runs'[q].awaits = runs[q].awaits
    BY <1>4
  <2> QED BY <1>1, <1>2, <1>5, <2>1, <2>2, <2>3, <2>4, TasksGoOn
<1>8. EntriesSound' /\ IdsSound'
  <2>1. \A q \in Runs : Owner(q) => Owner(q)'
    BY <1>2, <1>4 DEF Owner
  <2>2. \A i \in DOMAIN sessions : i \in DOMAIN real_to_temp'
    <3>1. temp # NoId => id \notin DOMAIN sessions
      OBVIOUS
    <3>2. \A i \in DOMAIN sessions : i \in DOMAIN real_to_temp
      BY <1>1 DEF NamesInv, EntriesSound
    <3> QED BY <1>2, <3>1, <3>2 DEF Without
  <2>3. EntriesSound'
    BY <1>1, <1>2, <1>4, <2>1, <2>2 DEF NamesInv, EntriesSound
  <2> QED BY <1>1, <1>4, <2>3 DEF NamesInv, IdsSound
<1>9. \A i \in DOMAIN real_to_temp : real_to_temp[i] # NoId /\ (i \notin DOMAIN sessions => i = id)
  <2>1. NoId \notin DOMAIN temp_to_real
    BY <1>1, IdsApart DEF NamesInv, MapsSound
  <2> QED BY <1>1, <1>3, <2>1 DEF NamesInv, MapsSound
<1>10. MapsSound'
  <2>1. CASE id \in DOMAIN real_to_temp /\ id \notin DOMAIN sessions
    <3>1. temp = real_to_temp[id] /\ temp # NoId /\ temp \in DOMAIN temp_to_real
          /\ temp_to_real[temp] = id
      BY <1>1, <1>9, <2>1 DEF NamesInv, MapsSound
    <3>2. /\ DOMAIN real_to_temp' = DOMAIN real_to_temp \ {id}
          /\ \A i \in DOMAIN real_to_temp' : real_to_temp'[i] = real_to_temp[i]
          /\ DOMAIN temp_to_real' = DOMAIN temp_to_real \ {temp}
          /\ \A t \in DOMAIN temp_to_real' : temp_to_real'[t] = temp_to_real[t]
      BY <1>2, <3>1 DEF Without
    <3>3. \A i \in DOMAIN real_to_temp' :
            /\ i \in DOMAIN sessions
            /\ \E q \in Runs : i = Real(q) /\ runs'[q].captured = i
            /\ real_to_temp[i] \in DOMAIN temp_to_real /\ temp_to_real[real_to_temp[i]] = i
            /\ real_to_temp[i] # temp
      BY <1>1, <1>4, <1>9, <3>1, <3>2 DEF NamesInv, MapsSound
    <3>4. \A t \in DOMAIN temp_to_real' :
            /\ temp_to_real[t] \in DOMAIN real_to_temp /\ real_to_temp[temp_to_real[t]] = t
            /\ temp_to_real[t] # id
            /\ t \notin DOMAIN pending
            /\ t = Parent \/ \E q \in Runs : t = Pending(q) /\ temp_to_real[t] = Real(q)
      BY <1>1, <3>1, <3>2 DEF NamesInv, MapsSound
    <3> QED BY <1>2, <3>2, <3>3, <3>4 DEF MapsSound
  <2>2. CASE ~ (id \in DOMAIN real_to_temp /\ id \notin DOMAIN sessions)
    <3>1. temp = NoId /\ NoId \notin DOMAIN temp_to_real
      BY <1>1, <2>2, IdsApart DEF NamesInv, MapsSound
    <3>2. /\ real_to_temp' = real_to_temp
          /\ DOMAIN temp_to_real' = DOMAIN temp_to_real
          /\ \A t \in DOMAIN temp_to_real' : temp_to_real'[t] = temp_to_real[t]
      BY <1>2, <3>1 DEF Without
    <3>3. \A i \in DOMAIN real_to_temp : i \in DOMAIN sessions
      BY <1>9, <2>2
    <3> QED BY <1>1, <1>2, <1>4, <3>2, <3>3 DEF NamesInv, MapsSound
  <2> QED BY <2>1, <2>2
<1> QED BY <1>6, <1>7, <1>8, <1>10 DEF SessionsInv, NamesInv

LEMMA EndStopAllKeeps == SessionsInv /\ EndStopAll => SessionsInv'
<1> SUFFICES ASSUME SessionsInv, EndStopAll PROVE SessionsInv'
  OBVIOUS
<1>1. SessionsType /\ TasksInv /\ NamesInv
  BY DEF SessionsInv
<1>2. /\ stop_all.phase = "stopping" /\ lock' = Nobody
      /\ sessions' = <<>> /\ pending' = <<>> /\ temp_to_real' = <<>> /\ real_to_temp' = <<>>
      /\ stop_all' = [stop_all EXCEPT !.phase = "done"]
      /\ UNCHANGED <<runs, generator, processes, pids, current>>
  BY DEF EndStopAll
<1>3. lock = Everyone
  BY <1>1, <1>2 DEF TasksInv, LockSound
<1>4. SessionsType' /\ stop_all'.phase = "done"
  BY <1>1, <1>2 DEF SessionsType, StopAllType
<1>5. RunsSound'
  BY <1>1, <1>2 DEF TasksInv, RunsSound, RunSound, At
<1>6. LockSound'
  BY <1>1, <1>2, <1>3, <1>4, NobodyApart DEF TasksInv, LockSound, At
<1>7. \A q \in Runs : Holding(q)' => Holding(q)
  BY <1>2 DEF Holding
<1>8. TasksInv'
  BY <1>1, <1>2, <1>5, <1>6, <1>7, TasksGoOn
<1>9. NamesInv'
  BY <1>1, <1>2 DEF NamesInv, EntriesSound, MapsSound, IdsSound
<1> QED BY <1>4, <1>8, <1>9 DEF SessionsInv

LEMMA SessionsKept == SessionsInv /\ (SessionsMove \/ UNCHANGED sessions_vars) => SessionsInv'
<1> SUFFICES ASSUME SessionsInv, SessionsMove \/ UNCHANGED sessions_vars PROVE SessionsInv'
  OBVIOUS
<1>1. ASSUME NEW r \in Runs, RunMoves(r) PROVE SessionsInv'
  <2>1. CASE \E resumes \in BOOLEAN : Begin(r, resumes)
    BY <2>1, BeginKeeps
  <2>2. CASE GetOrCreate(r) \/ TakeCliLock(r) \/ Launch(r) \/ LaunchFails(r)
    BY <2>2, GetOrCreateKeeps, TakeCliLockKeeps, LaunchKeeps, LaunchFailsKeeps
  <2>3. CASE PrintsEvent(r) \/ HandleEvent(r) \/ RegisterId(r) \/ TaskEnds(r)
    BY <2>3, PrintsEventKeeps, HandleEventKeeps, RegisterIdKeeps, TaskEndsKeeps
  <2>4. CASE ProcessEnds(r) \/ GeneratorCloses(r) \/ Cancel(r)
    BY <2>4, ProcessKeeps, CancelKeeps
  <2>5. CASE Remove(r) \/ Removed(r)
    BY <2>5, RemoveKeeps, RemovedKeeps
  <2> QED BY <1>1, <2>1, <2>2, <2>3, <2>4, <2>5 DEF RunMoves, CleansUp
<1>2. CASE AskStopAll \/ StopAllMoves \/ StopAllTimesOut \/ KillAll
  BY <1>2, StopAllKeeps, EndStopAllKeeps DEF StopAllMoves
<1>3. CASE UNCHANGED sessions_vars
  <2>1. UNCHANGED <<runs, generator, processes, pids, current, maps, lock, stop_all>>
    BY <1>3 DEF sessions_vars
  <2>2. SessionsType' /\ RunsSound' /\ LockSound'
    BY <2>1 DEF SessionsInv, SessionsType, TasksInv, RunsSound, RunSound, LockSound, At
  <2>3. \A q \in Runs : (Holding(q)' => Holding(q)) /\ (Owner(q) => Owner(q)')
    BY <2>1 DEF Holding, Owner
  <2> QED BY <2>1, <2>2, <2>3, SessionsGoOn
<1> QED BY <1>1, <1>2, <1>3 DEF SessionsMove

\* What the run checks follows from the invariant.
LEMMA SessionsFollow == SessionsInv => SessionsSound
<1> SUFFICES ASSUME SessionsInv PROVE SessionsSound
  OBVIOUS
<1>1. SessionsType /\ TasksInv /\ NamesInv
  BY DEF SessionsInv
<1>2. SessionsTypeOK
  <2>1. \A r \in Runs :
          /\ runs[r].pc \in RunPhase /\ runs[r].events \in 0 .. Events
          /\ runs[r].session \in Runs \cup {Nobody} /\ runs[r].ending \in Runs \cup {Nobody}
          /\ runs[r].awaits \in Runs \cup {Nobody}
          /\ {runs[r].cancelled, runs[r].resumes} \subseteq BOOLEAN
    BY <1>1 DEF SessionsType, RunType
  <2>2. Range(temp_to_real) \cup DOMAIN real_to_temp \cup DOMAIN sessions \subseteq
          {Real(r) : r \in Runs}
    BY <1>1 DEF NamesInv, EntriesSound, MapsSound, Range
  <2> QED BY <1>1, <2>1, <2>2 DEF SessionsTypeOK, SessionsType, StopAllType
<1>3. IdsAgree
  BY <1>1, NobodyApart DEF NamesInv, EntriesSound, MapsSound, IdsAgree
<1>4. OneProcessPerSession
  BY <1>1 DEF TasksInv, RunsSound, RunSound, CliLockSound, Holding, OneProcessPerSession
<1>5. NothingRemembered
  BY <1>1 DEF NamesInv, EntriesSound, Owner, At, NothingRemembered
<1> QED BY <1>1, <1>2, <1>3, <1>4, <1>5 DEF TasksInv, SessionsSound

\* Every Claude process has a run that answers for it, a session runs one process at a time,
\* and the manager's maps agree and forget the runs that are over, whatever is cancelled,
\* removed or stopped meanwhile (cli/managed/manager.py, session.py, process_registry.py).
THEOREM SessionsCorrect == Spec => []SessionsSound
<1>1. AppInit => SessionsInv
  BY SessionsStart DEF AppInit
<1>2. SessionsInv /\ [Next]_app_vars => SessionsInv'
  BY SessionsFrame, SessionsKept
<1>3. SessionsInv => SessionsSound
  BY SessionsFollow
<1> QED BY <1>1, <1>2, <1>3, PTL DEF Spec

-----------------------------------------------------------------------------
(* The provider runtimes and the health of their models.                    *)

Calls == Applies \cup {Shutdown}
InstanceType == Nat \X Providers \X Nat
RuntimeType ==
  [settings : Nat, cache : [Providers -> Nat], made : [Providers -> Nat],
   models : SUBSET Providers,
   refresh : [phase : {"none", "running", "cancelled", "done"}, uses : SUBSET InstanceType]]
CleanupType ==
  [phase : Phases, runtime : Nat, todo : SUBSET InstanceType, errors : BOOLEAN]

RuntimesType ==
  /\ env \in Nat /\ runtimes \in Seq(RuntimeType)
  /\ installed \in DOMAIN runtimes /\ First \in DOMAIN runtimes
  /\ closed \in SUBSET InstanceType /\ cleanups \in [Calls -> CleanupType]

\* A runtime counts the instances it makes, and its refresh uses its own.
RuntimeSound(k) ==
  /\ runtimes[k].settings <= env
  /\ \A p \in Providers : runtimes[k].cache[p] <= runtimes[k].made[p]
  /\ \A i \in runtimes[k].refresh.uses : i[1] = k

\* An instance that a runtime has made.
Made(i) == i[1] \in DOMAIN runtimes /\ i[3] <= runtimes[i[1]].made[i[2]]

CleanupSound(c) ==
  /\ cleanups[c].runtime \in DOMAIN runtimes
  /\ \A i \in cleanups[c].todo : i[1] = cleanups[c].runtime /\ Made(i)
  /\ cleanups[c].phase = "idle" => cleanups[c].todo = {}

\* Only a cleanup of its runtime closes an instance, so that what is cached is open unless
\* one is closing, and a refresh that runs has seen no cleanup.
ClosedSound ==
  \A i \in closed :
    Made(i) /\ \E c \in Calls : cleanups[c].phase # "idle" /\ cleanups[c].runtime = i[1]
RefreshSound ==
  \A k \in DOMAIN runtimes : runtimes[k].refresh.phase = "running" =>
    \A c \in Calls : cleanups[c].phase # "idle" => cleanups[c].runtime # k
CacheSound ==
  \A k \in DOMAIN runtimes, p \in Providers :
    runtimes[k].cache[p] # 0 /\ <<k, p, runtimes[k].cache[p]>> \in closed =>
      \E c \in Calls : cleanups[c].phase = "closing" /\ cleanups[c].runtime = k

RuntimesInv ==
  /\ RuntimesType
  /\ \A k \in DOMAIN runtimes : RuntimeSound(k)
  /\ \A c \in Calls : CleanupSound(c)
  /\ ClosedSound /\ RefreshSound /\ CacheSound /\ SettingsCurrent

Statuses == {"unknown", "healthy", "unhealthy"}
ProbeType ==
  [pc : {"off", "listing", "probing", "sleeping", "stopped"}, left : SUBSET Providers,
   uses : InstanceType \cup {NoInstance}]
RequestType ==
  [pc : {"new", "streaming", "stalled", "ended"}, provider : Providers \cup {"none"},
   chunks : BOOLEAN, uses : InstanceType \cup {NoInstance}]

HealthInv ==
  /\ health \in [Providers -> Statuses]
  /\ probe \in ProbeType /\ requests \in [Requests -> RequestType]
  /\ usage \in [Requests -> Seq({"ok", "error"})]
  /\ UsageOnce

\* Where the server is while its providers are busy: the cleanup of the shutdown begins
\* with it, and no cleanup before the server runs.
PhaseSound ==
  /\ part \in {"providers", "health"} =>
       phase \in {"validating", "running", "stopping_probe", "cleaning_providers", "exited"}
  /\ phase \in {"stopping_probe", "cleaning_providers"} => part \in {"providers", "health"}
  /\ part \in {"providers", "health"} =>
       /\ phase = "validating" => \A c \in Calls : cleanups[c].phase = "idle"
       /\ phase \in {"running", "stopping_probe"} => cleanups[Shutdown].phase = "idle"

ProvidersInv == RuntimesInv /\ HealthInv /\ PhaseSound

-----------------------------------------------------------------------------
(* The server and its providers.                                            *)

\* The steps of the runtimes and of the models, as they see them.
ProvidersMove ==
  \/ RuntimesMove /\ UNCHANGED health_vars
  \/ (\E c \in Applies : Apply(c)) /\ UNCHANGED health_vars
  \/ SweepMoves
  \/ \E r \in Requests : RequestMoves(r) \/ StreamMoves(r)
  \/ \E p \in Providers : CooldownEnds(p)

\* Where the server goes while the providers rest.
PhaseMoves ==
  \/ phase' = phase
  \/ part \in {"providers", "health"} /\ phase = "running" /\ phase' = "stopping_probe"
  \/ part \in {"providers", "health"} /\ phase = "running" /\ phase' = "exited"
  \/ phase \in {"stopping_sessions", "cleaning_providers", "leaving"} /\ phase' = "exited"
  \/ part \notin {"providers", "health"} /\ phase' \notin {"stopping_probe", "cleaning_providers"}
  \/ /\ phase \in {"starting", "stopping_platform", "stopping_limiter"}
     /\ phase' \notin {"stopping_probe", "cleaning_providers"}

LEMMA ProvidersFrame ==
  [Next]_app_vars =>
    \/ part' = part /\ PhaseMoves /\ UNCHANGED <<provider_vars, health_vars>>
    \/ part' = part /\ part \in {"providers", "health"} /\ phase = "validating" /\ phase' = "running"
       /\ Startup
    \/ part' = part /\ phase = "stopping_probe" /\ phase' = "cleaning_providers" /\ StopProbe
    \/ /\ UNCHANGED <<part, phase>> /\ part \in {"providers", "health"}
       /\ phase \notin {"validating", "exited"} /\ ProvidersMove
<1> DEFINE Goal ==
    \/ part' = part /\ PhaseMoves /\ UNCHANGED <<provider_vars, health_vars>>
    \/ part' = part /\ part \in {"providers", "health"} /\ phase = "validating" /\ phase' = "running"
       /\ Startup
    \/ part' = part /\ phase = "stopping_probe" /\ phase' = "cleaning_providers" /\ StopProbe
    \/ /\ UNCHANGED <<part, phase>> /\ part \in {"providers", "health"}
       /\ phase \notin {"validating", "exited"} /\ ProvidersMove
<1> SUFFICES ASSUME [Next]_app_vars PROVE Goal
  OBVIOUS
<1> USE DEF PhaseMoves
<1>1. CASE Startup
  <2>1. CASE part \in {"providers", "health"}
    BY <1>1, <2>1 DEF Startup, Comes
  <2>2. CASE part \notin {"providers", "health"}
    BY <1>1, <2>2 DEF Startup, Comes
  <2> QED BY <2>1, <2>2
<1>2. CASE BeginShutdown
  BY <1>2 DEF BeginShutdown, NoPart, NotAdmin, NotSessions
<1>3. CASE StopProbe
  BY <1>3 DEF StopProbe, Comes
<1>4. CASE ChatStopped \/ LimiterShutDown \/ Exit
  BY <1>4 DEF ChatStopped, LimiterShutDown, Exit, Comes, NoPart, NotAdmin, NotPlatform, NotChat,
              NotSessions
<1>5. CASE SessionsStep
  BY <1>5 DEF SessionsStep, Sessions, NotSessions
<1>6. CASE ProvidersStep
  BY <1>6 DEF ProvidersStep, Models, Up, ProvidersMove
<1>7. CASE VoiceStep \/ DeliveryStep
  BY <1>7 DEF VoiceStep, DeliveryStep, Voice, Call, NotVoice, NotDelivery, NotChat
<1>8. CASE AdminStep
  BY <1>8 DEF AdminStep, Admin, NotAdmin
<1>9. CASE PlatformStep
  BY <1>9 DEF PlatformStep, StartsChat, ChatStarted, StopsChat, Interrupted, Platform, Comes,
              NotPlatform, NotChat, NoPart, NotAdmin
<1>10. CASE UNCHANGED app_vars
  BY <1>10 DEF app_vars
<1> HIDE DEF Goal
<1> QED
  BY <1>1, <1>2, <1>3, <1>4, <1>5, <1>6, <1>7, <1>8, <1>9, <1>10 DEF Next, ShutdownMoves

LEMMA ShutdownApart == Shutdown \notin Applies /\ Shutdown \in Calls
BY ProvidersAssumption DEF Shutdown, Calls

-----------------------------------------------------------------------------
(* The instances a runtime makes.                                           *)

LEMMA RuntimeTyped ==
  ASSUME runtimes \in Seq(RuntimeType), NEW k \in DOMAIN runtimes
  PROVE  runtimes[k] \in RuntimeType /\ k \in Nat \ {0}
<1>1. /\ Len(runtimes) \in Nat /\ DOMAIN runtimes = 1..Len(runtimes)
      /\ runtimes \in [1..Len(runtimes) -> RuntimeType]
  BY LenProperties
<1> QED BY <1>1

LEMMA RuntimeBecomes ==
  ASSUME runtimes \in Seq(RuntimeType), NEW k \in DOMAIN runtimes, NEW new \in RuntimeType,
         runtimes' = [runtimes EXCEPT ![k] = new]
  PROVE  /\ runtimes' \in Seq(RuntimeType) /\ DOMAIN runtimes' = DOMAIN runtimes
         /\ runtimes'[k] = new /\ \A j \in DOMAIN runtimes : j # k => runtimes'[j] = runtimes[j]
BY ExceptSeq

\* A runtime whose instances are made in order, and whose refresh does not begin after a
\* cleanup, has nothing closed in its cache that it had not before.
LEMMA RuntimesGoOn ==
  ASSUME RuntimesInv, UNCHANGED <<env, installed, closed, cleanups>>,
         NEW k \in DOMAIN runtimes, NEW new \in RuntimeType,
         runtimes' = [runtimes EXCEPT ![k] = new],
         new.settings = runtimes[k].settings,
         \A p \in Providers :
           /\ new.made[p] >= runtimes[k].made[p] /\ new.cache[p] <= new.made[p]
           /\ \/ new.cache[p] = runtimes[k].cache[p]
              \/ new.cache[p] > runtimes[k].made[p],
         \A i \in new.refresh.uses : i[1] = k,
         new.refresh.phase = "running" =>
           \/ runtimes[k].refresh.phase = "running"
           \/ \A c \in Calls : cleanups[c].phase = "idle"
  PROVE  RuntimesInv'
<1>1. /\ runtimes' \in Seq(RuntimeType) /\ DOMAIN runtimes' = DOMAIN runtimes
      /\ runtimes'[k] = new /\ \A j \in DOMAIN runtimes : j # k => runtimes'[j] = runtimes[j]
  BY RuntimeBecomes DEF RuntimesInv, RuntimesType
<1>a. runtimes \in Seq(RuntimeType) /\ runtimes[k] \in RuntimeType
  BY RuntimeTyped DEF RuntimesInv, RuntimesType
<1>2. RuntimesType'
  BY <1>1 DEF RuntimesInv, RuntimesType
<1>3. \A j \in DOMAIN runtimes' : RuntimeSound(j)'
  BY <1>1 DEF RuntimesInv, RuntimeSound
<1>4. ASSUME NEW i \in InstanceType, Made(i) PROVE Made(i)'
  <2>1. i[2] \in Providers /\ i[3] \in Nat
    BY <1>4 DEF InstanceType
  <2>2. CASE i[1] = k
    <3>1. new.made[i[2]] \in Nat /\ runtimes[k].made[i[2]] \in Nat
          /\ new.made[i[2]] >= runtimes[k].made[i[2]]
      BY <1>a, <2>1 DEF RuntimeType
    <3> QED BY <1>1, <1>4, <2>1, <2>2, <3>1 DEF Made
  <2>3. CASE i[1] # k
    BY <1>1, <1>4, <2>3 DEF Made
  <2> QED BY <2>2, <2>3
<1>5. \A c \in Calls : CleanupSound(c)'
  <2> SUFFICES ASSUME NEW c \in Calls PROVE CleanupSound(c)'
    OBVIOUS
  <2>1. CleanupSound(c) /\ cleanups[c].todo \in SUBSET InstanceType
    BY DEF RuntimesInv, RuntimesType, CleanupType
  <2> QED BY <1>1, <1>4, <2>1 DEF CleanupSound
<1>6. ClosedSound'
  <2>1. closed \in SUBSET InstanceType
    BY DEF RuntimesInv, RuntimesType
  <2> QED BY <1>4, <2>1 DEF RuntimesInv, ClosedSound
<1>7. RefreshSound'
  BY <1>1 DEF RuntimesInv, RefreshSound
<1>8. CacheSound'
  <2> SUFFICES ASSUME NEW j \in DOMAIN runtimes, NEW p \in Providers,
                      runtimes'[j].cache[p] # 0, <<j, p, runtimes'[j].cache[p]>> \in closed
               PROVE  \E c \in Calls : cleanups[c].phase = "closing" /\ cleanups[c].runtime = j
    BY <1>1 DEF CacheSound
  <2>1. CASE j = k /\ new.cache[p] > runtimes[k].made[p]
    <3>1. Made(<<k, p, new.cache[p]>>)
      BY <1>1, <2>1 DEF RuntimesInv, ClosedSound
    <3>2. new.cache[p] <= runtimes[k].made[p]
      BY <3>1 DEF Made
    <3>3. new.cache[p] \in Nat /\ runtimes[k].made[p] \in Nat
      BY <1>a DEF RuntimeType
    <3> QED BY <2>1, <3>2, <3>3
  <2>2. CASE ~ (j = k /\ new.cache[p] > runtimes[k].made[p])
    BY <1>1, <2>2 DEF RuntimesInv, CacheSound
  <2> QED BY <2>1, <2>2
<1>9. SettingsCurrent'
  BY <1>1 DEF RuntimesInv, SettingsCurrent, RuntimesType
<1> QED BY <1>2, <1>3, <1>5, <1>6, <1>7, <1>8, <1>9 DEF RuntimesInv

\* What resolve_provider makes of a runtime.
Resolved(k, P) ==
  [runtimes[k] EXCEPT
     !.cache = [p \in Providers |-> IF p \in P THEN Instance(k, p)[3] ELSE runtimes[k].cache[p]],
     !.made = [p \in Providers |-> IF p \in P /\ runtimes[k].cache[p] = 0
                                  THEN runtimes[k].made[p] + 1 ELSE runtimes[k].made[p]]]

LEMMA InstanceTyped ==
  ASSUME runtimes \in Seq(RuntimeType), NEW k \in DOMAIN runtimes, NEW p \in Providers
  PROVE  /\ Instance(k, p) \in InstanceType /\ Instance(k, p)[1] = k
         /\ Instance(k, p)[3] \in Nat
         /\ Instance(k, p)[3] = IF runtimes[k].cache[p] = 0 THEN runtimes[k].made[p] + 1
                                ELSE runtimes[k].cache[p]
<1>1. runtimes[k] \in RuntimeType /\ k \in Nat
  BY RuntimeTyped
<1>2. runtimes[k].cache[p] \in Nat /\ runtimes[k].made[p] \in Nat
  BY <1>1 DEF RuntimeType
<1> QED BY <1>1, <1>2 DEF Instance, InstanceType

LEMMA ResolvedSound ==
  ASSUME runtimes \in Seq(RuntimeType), NEW k \in DOMAIN runtimes, RuntimeSound(k),
         NEW P \in SUBSET Providers
  PROVE  /\ Resolving(k, P) = [runtimes EXCEPT ![k] = Resolved(k, P)]
         /\ Resolved(k, P) \in RuntimeType
         /\ Resolved(k, P).settings = runtimes[k].settings
         /\ Resolved(k, P).refresh = runtimes[k].refresh
         /\ Resolved(k, P).models = runtimes[k].models
         /\ \A p \in Providers :
              /\ Resolved(k, P).made[p] >= runtimes[k].made[p]
              /\ Resolved(k, P).cache[p] <= Resolved(k, P).made[p]
              /\ \/ Resolved(k, P).cache[p] = runtimes[k].cache[p]
                 \/ Resolved(k, P).cache[p] > runtimes[k].made[p]
<1>1. runtimes[k] \in RuntimeType
  BY RuntimeTyped
<1>2. \A p \in Providers :
        /\ runtimes[k].cache[p] \in Nat /\ runtimes[k].made[p] \in Nat
        /\ runtimes[k].cache[p] <= runtimes[k].made[p]
  BY <1>1 DEF RuntimeType, RuntimeSound
<1> DEFINE cache == [p \in Providers |-> IF p \in P THEN Instance(k, p)[3] ELSE runtimes[k].cache[p]]
           made == [p \in Providers |-> IF p \in P /\ runtimes[k].cache[p] = 0
                                       THEN runtimes[k].made[p] + 1 ELSE runtimes[k].made[p]]
<1>3. /\ cache \in [Providers -> Nat] /\ made \in [Providers -> Nat]
      /\ \A p \in Providers :
           /\ made[p] >= runtimes[k].made[p] /\ cache[p] <= made[p]
           /\ cache[p] = runtimes[k].cache[p] \/ cache[p] > runtimes[k].made[p]
  BY <1>2, InstanceTyped
<1>4. Resolving(k, P) = [runtimes EXCEPT ![k].cache = cache, ![k].made = made]
      /\ Resolved(k, P) = [runtimes[k] EXCEPT !.cache = cache, !.made = made]
  BY DEF Resolving, Resolved
<1> HIDE DEF cache, made
<1>5. [runtimes EXCEPT ![k].cache = cache, ![k].made = made]
        = [runtimes EXCEPT ![k] = [runtimes[k] EXCEPT !.cache = cache, !.made = made]]
  OBVIOUS
<1>6. Resolved(k, P) \in RuntimeType
  BY <1>1, <1>3, <1>4 DEF RuntimeType
<1>7. /\ Resolved(k, P).settings = runtimes[k].settings
      /\ Resolved(k, P).refresh = runtimes[k].refresh
      /\ Resolved(k, P).models = runtimes[k].models
      /\ Resolved(k, P).cache = cache /\ Resolved(k, P).made = made
  BY <1>1, <1>4 DEF RuntimeType
<1> QED BY <1>3, <1>4, <1>5, <1>6, <1>7

LEMMA ResolvingKeeps ==
  ASSUME RuntimesInv, UNCHANGED <<env, installed, closed, cleanups>>,
         NEW k \in DOMAIN runtimes, NEW P \in SUBSET Providers, runtimes' = Resolving(k, P)
  PROVE  RuntimesInv'
<1>1. runtimes \in Seq(RuntimeType) /\ RuntimeSound(k)
  BY DEF RuntimesInv, RuntimesType
<1> DEFINE new == Resolved(k, P)
<1>2. /\ runtimes' = [runtimes EXCEPT ![k] = new] /\ new \in RuntimeType
      /\ new.settings = runtimes[k].settings /\ new.refresh = runtimes[k].refresh
      /\ \A p \in Providers :
           /\ new.made[p] >= runtimes[k].made[p] /\ new.cache[p] <= new.made[p]
           /\ new.cache[p] = runtimes[k].cache[p] \/ new.cache[p] > runtimes[k].made[p]
  BY <1>1, ResolvedSound
<1> HIDE DEF new
<1>3. \A i \in new.refresh.uses : i[1] = k
  BY <1>1, <1>2 DEF RuntimeSound
<1>4. new.refresh.phase = "running" => runtimes[k].refresh.phase = "running"
  BY <1>2
<1>5. \A p \in Providers :
        /\ new.made[p] >= runtimes[k].made[p] /\ new.cache[p] <= new.made[p]
        /\ \/ new.cache[p] = runtimes[k].cache[p]
           \/ new.cache[p] > runtimes[k].made[p]
  BY <1>2
<1>6. new \in RuntimeType /\ new.settings = runtimes[k].settings
      /\ runtimes' = [runtimes EXCEPT ![k] = new]
  BY <1>2
<1> QED BY <1>3, <1>4, <1>5, <1>6, RuntimesGoOn

-----------------------------------------------------------------------------
(* Steps of the runtimes.                                                   *)

\* New lists of models, and perhaps the end of the refresh.
LEMMA ListsKeep ==
  ASSUME RuntimesInv, UNCHANGED <<env, installed, closed, cleanups>>,
         NEW k \in DOMAIN runtimes, NEW models \in SUBSET Providers, NEW refresh,
         refresh = runtimes[k].refresh \/ refresh = [phase |-> "done", uses |-> {}],
         runtimes' = [runtimes EXCEPT ![k] = [runtimes[k] EXCEPT !.models = models,
                                                                !.refresh = refresh]]
  PROVE  RuntimesInv'
<1> DEFINE new == [runtimes[k] EXCEPT !.models = models, !.refresh = refresh]
<1>1. runtimes[k] \in RuntimeType /\ RuntimeSound(k)
  <2>1. runtimes \in Seq(RuntimeType) /\ RuntimeSound(k)
    BY DEF RuntimesInv, RuntimesType
  <2> QED BY <2>1, RuntimeTyped
<1>6. refresh \in [phase : {"none", "running", "cancelled", "done"}, uses : SUBSET InstanceType]
  <2>1. CASE refresh = runtimes[k].refresh
    BY <1>1, <2>1 DEF RuntimeType
  <2>2. CASE refresh = [phase |-> "done", uses |-> {}]
    BY <2>2
  <2> QED BY <2>1, <2>2
<1>2. /\ new \in RuntimeType /\ new.settings = runtimes[k].settings /\ new.made = runtimes[k].made
      /\ new.cache = runtimes[k].cache /\ new.refresh = refresh
  <2>1. runtimes[k] \in RuntimeType
    BY <1>1
  <2> QED BY <1>6, <2>1 DEF RuntimeType
<1>3. runtimes' = [runtimes EXCEPT ![k] = new]
  OBVIOUS
<1> HIDE DEF new
<1>4. \A p \in Providers :
        /\ new.made[p] >= runtimes[k].made[p] /\ new.cache[p] <= new.made[p]
        /\ \/ new.cache[p] = runtimes[k].cache[p]
           \/ new.cache[p] > runtimes[k].made[p]
  <2>1. \A p \in Providers : runtimes[k].made[p] \in Nat
    BY <1>1 DEF RuntimeType
  <2> QED BY <1>1, <1>2, <2>1 DEF RuntimeSound
<1>5. /\ \A i \in new.refresh.uses : i[1] = k
      /\ new.refresh.phase = "running" => runtimes[k].refresh.phase = "running"
  BY <1>1, <1>2 DEF RuntimeSound
<1> QED BY <1>2, <1>3, <1>4, <1>5, RuntimesGoOn

LEMMA RefreshKeeps ==
  ASSUME RuntimesInv, NEW k \in DOMAIN runtimes, EndRefresh(k) \/ RefreshCancelled(k)
  PROVE  RuntimesInv'
<1> DEFINE over == [phase |-> "done", uses |-> {}]
<1>1. runtimes[k] \in RuntimeType
  BY RuntimeTyped DEF RuntimesInv, RuntimesType
<1>2. CASE EndRefresh(k)
  <2>1. PICK answered \in SUBSET {i[2] : i \in runtimes[k].refresh.uses \ closed} :
          runtimes' = [runtimes EXCEPT ![k].models = runtimes[k].models \cup answered,
                                       ![k].refresh = over]
    BY <1>2 DEF EndRefresh
  <2> DEFINE models == runtimes[k].models \cup answered
  <2>2. models \in SUBSET Providers
    BY <1>1 DEF RuntimeType, InstanceType
  <2>3. UNCHANGED <<env, installed, closed, cleanups>>
    BY <1>2 DEF EndRefresh
  <2> HIDE DEF models, over
  <2>4. runtimes' = [runtimes EXCEPT ![k] = [runtimes[k] EXCEPT !.models = models, !.refresh = over]]
    BY <2>1 DEF models
  <2> QED BY <2>2, <2>3, <2>4, ListsKeep DEF over
<1>3. CASE RefreshCancelled(k)
  <2> DEFINE models == runtimes[k].models
  <2>1. runtimes' = [runtimes EXCEPT ![k].refresh = over]
    BY <1>3 DEF RefreshCancelled
  <2>4. UNCHANGED <<env, installed, closed, cleanups>>
    BY <1>3 DEF RefreshCancelled
  <2>2. [runtimes[k] EXCEPT !.refresh = over] = [runtimes[k] EXCEPT !.models = models, !.refresh = over]
        /\ models \in SUBSET Providers
    BY <1>1 DEF RuntimeType
  <2> HIDE DEF models, over
  <2>3. runtimes' = [runtimes EXCEPT ![k] = [runtimes[k] EXCEPT !.models = models, !.refresh = over]]
    BY <2>1, <2>2
  <2>5. models \in SUBSET Providers /\ over = [phase |-> "done", uses |-> {}]
    BY <2>2 DEF over
  <2> QED BY <2>3, <2>4, <2>5, ListsKeep
<1> QED BY <1>2, <1>3

\* A cleanup begins: it cancels the refresh, and has closed nothing yet.
LEMMA CleanupBegins ==
  ASSUME RuntimesInv, NEW c \in Calls, NEW k \in DOMAIN runtimes, cleanups[c].phase = "idle",
         BeginCleanup(c, k), UNCHANGED <<installed, closed>>,
         env' = env \/ (c \in Applies /\ env' = env + 1)
  PROVE  RuntimesInv'
<1>1. /\ runtimes \in Seq(RuntimeType) /\ runtimes[k] \in RuntimeType /\ env \in Nat
      /\ cleanups \in [Calls -> CleanupType] /\ k \in Nat
  BY RuntimeTyped DEF RuntimesInv, RuntimesType
<1> DEFINE phase_ == IF runtimes[k].refresh.phase = "running" THEN "cancelled"
                     ELSE runtimes[k].refresh.phase
           refresh == [runtimes[k].refresh EXCEPT !.phase = phase_]
           new == [runtimes[k] EXCEPT !.refresh = refresh]
<1>2. refresh \in [phase : {"none", "running", "cancelled", "done"}, uses : SUBSET InstanceType]
      /\ refresh.uses = runtimes[k].refresh.uses /\ refresh.phase # "running"
  BY <1>1 DEF RuntimeType
<1> HIDE DEF refresh
<1>3. /\ new \in RuntimeType /\ new.settings = runtimes[k].settings /\ new.made = runtimes[k].made
      /\ new.cache = runtimes[k].cache /\ new.refresh = refresh
  BY <1>1, <1>2 DEF RuntimeType
<1>4. runtimes' = [runtimes EXCEPT ![k] = new]
  BY DEF BeginCleanup, refresh
<1> HIDE DEF new
<1>5. /\ runtimes' \in Seq(RuntimeType) /\ DOMAIN runtimes' = DOMAIN runtimes
      /\ runtimes'[k] = new /\ \A j \in DOMAIN runtimes : j # k => runtimes'[j] = runtimes[j]
  BY <1>1, <1>3, <1>4, RuntimeBecomes
<1>6. /\ cleanups' \in [Calls -> CleanupType]
      /\ cleanups'[c].phase = "discovery" /\ cleanups'[c].runtime = k
      /\ cleanups'[c].todo = cleanups[c].todo
      /\ \A d \in Calls : d # c => cleanups'[d] = cleanups[d]
  <2>1. cleanups' = [cleanups EXCEPT ![c].phase = "discovery", ![c].runtime = k]
    BY DEF BeginCleanup
  <2>2. cleanups'[c] = [cleanups[c] EXCEPT !.phase = "discovery", !.runtime = k]
        /\ \A d \in Calls : d # c => cleanups'[d] = cleanups[d]
    BY <1>1, <2>1
  <2>3. cleanups[c] \in CleanupType
    BY <1>1
  <2>4. cleanups'[c] \in CleanupType
    BY <1>1, <2>2, <2>3 DEF CleanupType, Phases
  <2>5. cleanups' \in [Calls -> CleanupType]
    BY <1>1, <2>1, <2>2, <2>4
  <2> QED BY <2>2, <2>3, <2>5 DEF CleanupType
<1>7. RuntimesType'
  BY <1>1, <1>5, <1>6 DEF RuntimesInv, RuntimesType
<1>8. \A j \in DOMAIN runtimes' : RuntimeSound(j)'
  <2>1. \A j \in DOMAIN runtimes : RuntimeSound(j) /\ runtimes[j].settings \in Nat
    BY <1>1, RuntimeTyped DEF RuntimesInv, RuntimeType
  <2> QED BY <1>1, <1>2, <1>3, <1>5, <2>1 DEF RuntimeSound
<1>9. \A j \in DOMAIN runtimes : runtimes'[j].made = runtimes[j].made /\ runtimes'[j].cache = runtimes[j].cache
                                /\ runtimes'[j].settings = runtimes[j].settings
  BY <1>3, <1>5
<1>10. ASSUME NEW i, Made(i) PROVE Made(i)'
  BY <1>5, <1>9, <1>10 DEF Made
<1>11. \A d \in Calls : CleanupSound(d)'
  <2>1. \A d \in Calls : CleanupSound(d)
    BY DEF RuntimesInv
  <2> QED BY <1>5, <1>6, <1>10, <2>1 DEF CleanupSound
<1>12. ClosedSound'
  BY <1>6, <1>10 DEF RuntimesInv, ClosedSound
<1>13. RefreshSound'
  BY <1>2, <1>3, <1>5, <1>6 DEF RuntimesInv, RefreshSound
<1>14. CacheSound'
  BY <1>5, <1>6, <1>9 DEF RuntimesInv, CacheSound
<1>15. SettingsCurrent'
  <2>1. CASE c \in Applies
    BY <1>6, <2>1 DEF SettingsCurrent
  <2>2. CASE c \notin Applies
    <3>1. \A d \in Applies : cleanups'[d] = cleanups[d]
      BY <1>6, <2>2 DEF Calls
    <3> QED BY <1>9, <2>2, <3>1 DEF RuntimesInv, SettingsCurrent, RuntimesType
  <2> QED BY <2>1, <2>2
<1> QED BY <1>7, <1>8, <1>11, <1>12, <1>13, <1>14, <1>15 DEF RuntimesInv

\* ProviderCache.cleanup takes what is cached, which the runtime has made.
LEMMA ClosingBegins ==
  ASSUME RuntimesInv, NEW c \in Calls, BeginClosing(c)
  PROVE  RuntimesInv'
<1> DEFINE k == cleanups[c].runtime
           todo_ == Cached(k)
<1>1. /\ runtimes \in Seq(RuntimeType) /\ cleanups \in [Calls -> CleanupType] /\ CleanupSound(c)
      /\ cleanups[c] \in CleanupType
  BY DEF RuntimesInv, RuntimesType
<1>2. k \in DOMAIN runtimes /\ k \in Nat /\ runtimes[k] \in RuntimeType /\ RuntimeSound(k)
  <2>1. k \in DOMAIN runtimes
    BY <1>1 DEF CleanupSound
  <2> QED BY <1>1, <2>1, RuntimeTyped DEF RuntimesInv
<1>3. /\ todo_ \in SUBSET InstanceType
      /\ \A i \in todo_ : i[1] = k /\ Made(i)
  <2> SUFFICES ASSUME NEW i \in todo_ PROVE i \in InstanceType /\ i[1] = k /\ Made(i)
    OBVIOUS
  <2>1. PICK p \in Providers : i = <<k, p, runtimes[k].cache[p]>>
    BY DEF Cached
  <2>2. runtimes[k].cache[p] \in Nat /\ runtimes[k].cache[p] <= runtimes[k].made[p]
    BY <1>2 DEF RuntimeType, RuntimeSound
  <2> HIDE DEF k, todo_
  <2> QED BY <1>2, <2>1, <2>2 DEF InstanceType, Made
<1> DEFINE new == [cleanups[c] EXCEPT !.phase = "closing", !.todo = todo_]
<1>4. /\ cleanups' = [cleanups EXCEPT ![c] = new]
      /\ UNCHANGED <<env, runtimes, installed, closed>> /\ cleanups[c].phase # "idle"
  BY DEF BeginClosing
<1> HIDE DEF todo_
<1>5. new \in CleanupType /\ new.phase = "closing" /\ new.runtime = k /\ new.todo = todo_
  BY <1>1, <1>3 DEF CleanupType, Phases
<1> HIDE DEF new
<1>6. /\ cleanups' \in [Calls -> CleanupType] /\ cleanups'[c] = new
      /\ \A d \in Calls : d # c => cleanups'[d] = cleanups[d]
  BY <1>1, <1>4, <1>5
<1>7. RuntimesType' /\ \A j \in DOMAIN runtimes' : RuntimeSound(j)'
  BY <1>4, <1>6 DEF RuntimesInv, RuntimesType, RuntimeSound
<1>8. \A d \in Calls : CleanupSound(d)'
  <2>1. \A d \in Calls : CleanupSound(d)
    BY DEF RuntimesInv
  <2>2. \A i : Made(i)' <=> Made(i)
    BY <1>4 DEF Made
  <2>3. CleanupSound(c)'
    BY <1>1, <1>2, <1>3, <1>4, <1>5, <1>6, <2>2 DEF CleanupSound
  <2>4. \A d \in Calls : d # c => CleanupSound(d)'
    BY <1>4, <1>6, <2>1, <2>2 DEF CleanupSound
  <2> QED BY <2>3, <2>4
<1>9. ClosedSound'
  BY <1>4, <1>5, <1>6 DEF RuntimesInv, ClosedSound, Made
<1>10. RefreshSound' /\ CacheSound'
  BY <1>4, <1>5, <1>6 DEF RuntimesInv, RefreshSound, CacheSound
<1>11. SettingsCurrent'
  <2>1. CASE c \in Applies
    BY <1>5, <1>6, <2>1 DEF SettingsCurrent
  <2>2. CASE c \notin Applies
    BY <1>4, <1>6, <2>2 DEF RuntimesInv, SettingsCurrent, Calls
  <2> QED BY <2>1, <2>2
<1> QED BY <1>7, <1>8, <1>9, <1>10, <1>11 DEF RuntimesInv

\* One instance is closed: the cleanup that closes it is under way.
LEMMA CloseKeeps ==
  ASSUME RuntimesInv, NEW c \in Calls, NEW i \in cleanups[c].todo, Close(c, i)
  PROVE  RuntimesInv'
<1>1. /\ cleanups \in [Calls -> CleanupType] /\ CleanupSound(c) /\ cleanups[c] \in CleanupType
      /\ closed \in SUBSET InstanceType
  BY DEF RuntimesInv, RuntimesType
<1>2. /\ i \in InstanceType /\ i[1] = cleanups[c].runtime /\ Made(i)
  BY <1>1 DEF CleanupSound, CleanupType
<1>3. PICK error \in BOOLEAN :
        cleanups' = [cleanups EXCEPT ![c].todo = cleanups[c].todo \ {i},
                                     ![c].errors = cleanups[c].errors \/ error]
  BY <1>1 DEF Close
<1>4. /\ cleanups[c].phase = "closing" /\ closed' = closed \cup {i}
      /\ UNCHANGED <<env, runtimes, installed>>
  BY DEF Close
<1> DEFINE todo_ == cleanups[c].todo \ {i}
           errors_ == cleanups[c].errors \/ error
           new == [cleanups[c] EXCEPT !.todo = todo_, !.errors = errors_]
<1>5. cleanups' = [cleanups EXCEPT ![c] = new]
  BY <1>3
<1>b. errors_ \in BOOLEAN
  BY <1>1 DEF CleanupType
<1>t. todo_ \in SUBSET InstanceType /\ todo_ \subseteq cleanups[c].todo
  BY <1>1 DEF CleanupType
<1> HIDE DEF todo_, errors_
<1>6. /\ new \in CleanupType /\ new.phase = cleanups[c].phase /\ new.runtime = cleanups[c].runtime
      /\ new.todo = todo_
  BY <1>1, <1>b, <1>t DEF CleanupType
<1> HIDE DEF new
<1>7. /\ cleanups' \in [Calls -> CleanupType] /\ cleanups'[c] = new
      /\ \A d \in Calls : d # c => cleanups'[d] = cleanups[d]
  BY <1>1, <1>5, <1>6
<1>8. \A d \in Calls : cleanups'[d].phase = cleanups[d].phase
                      /\ cleanups'[d].runtime = cleanups[d].runtime
  BY <1>6, <1>7
<1>9. RuntimesType' /\ \A j \in DOMAIN runtimes' : RuntimeSound(j)'
  BY <1>1, <1>2, <1>4, <1>7 DEF RuntimesInv, RuntimesType, RuntimeSound
<1>10. \A j : Made(j)' <=> Made(j)
  BY <1>4 DEF Made
<1>11. \A d \in Calls : CleanupSound(d)'
  <2>1. \A d \in Calls : CleanupSound(d)
    BY DEF RuntimesInv
  <2>2. \A d \in Calls : cleanups'[d].todo \subseteq cleanups[d].todo
    BY <1>6, <1>7, <1>t
  <2> QED BY <1>4, <1>8, <1>10, <2>1, <2>2 DEF CleanupSound
<1>12. ClosedSound'
  BY <1>2, <1>4, <1>8, <1>10 DEF RuntimesInv, ClosedSound
<1>13. RefreshSound'
  BY <1>4, <1>8 DEF RuntimesInv, RefreshSound
<1>14. CacheSound'
  <2> SUFFICES ASSUME NEW j \in DOMAIN runtimes, NEW p \in Providers,
                      runtimes[j].cache[p] # 0, <<j, p, runtimes[j].cache[p]>> \in closed \cup {i}
               PROVE  \E d \in Calls : cleanups[d].phase = "closing" /\ cleanups[d].runtime = j
    BY <1>4, <1>8 DEF CacheSound
  <2>1. CASE <<j, p, runtimes[j].cache[p]>> = i
    BY <1>2, <1>4, <2>1
  <2>2. CASE <<j, p, runtimes[j].cache[p]>> \in closed
    BY <2>2 DEF RuntimesInv, CacheSound
  <2> QED BY <2>1, <2>2
<1>15. SettingsCurrent'
  BY <1>4, <1>8 DEF RuntimesInv, SettingsCurrent, Calls
<1> QED BY <1>9, <1>11, <1>12, <1>13, <1>14, <1>15 DEF RuntimesInv

LEMMA NewRuntimeTyped ==
  ASSUME NEW number \in Nat
  PROVE  Runtime(number) \in RuntimeType
BY DEF Runtime, RuntimeType, NoRefresh

LEMMA OneMore ==
  ASSUME NEW n \in Nat
  PROVE  /\ \A j \in 1..(n + 1) : j \notin 1..n => j = n + 1
         /\ 1..n \subseteq 1..(n + 1)
OBVIOUS

\* What a cleanup that is over has made of its runtime k.
CleanedUp(c, k, over, new) ==
  /\ k \in DOMAIN runtimes /\ k = cleanups[c].runtime /\ cleanups[c].phase # "idle"
  /\ over \in {"done", "failed"} /\ cleanups' = [cleanups EXCEPT ![c].phase = over]
  /\ UNCHANGED <<env, closed>>
  /\ new \in RuntimeType /\ new.settings = runtimes[k].settings /\ new.made = runtimes[k].made
  /\ new.refresh = runtimes[k].refresh
  /\ \/ new.cache = runtimes[k].cache /\ cleanups[c].phase # "closing"
     \/ new.cache = [p \in Providers |-> 0]
  /\ \/ runtimes' = [runtimes EXCEPT ![k] = new]
     \/ runtimes' = Append([runtimes EXCEPT ![k] = new], Runtime(env))

\* A cleanup is over: what its runtime has cached is forgotten, unless nothing was closed,
\* and a new runtime may follow.
LEMMA CleanupOver ==
  ASSUME RuntimesInv, NEW c \in Calls, NEW k, NEW over, NEW new, CleanedUp(c, k, over, new),
         installed' \in DOMAIN runtimes', SettingsCurrent'
  PROVE  RuntimesInv'
<1> DEFINE middle == [runtimes EXCEPT ![k] = new]
<1>0. /\ k \in DOMAIN runtimes /\ new \in RuntimeType
      /\ new.settings = runtimes[k].settings /\ new.made = runtimes[k].made
      /\ new.refresh = runtimes[k].refresh
      /\ \/ new.cache = runtimes[k].cache /\ cleanups[c].phase # "closing"
         \/ new.cache = [p \in Providers |-> 0]
      /\ runtimes' = middle \/ runtimes' = Append(middle, Runtime(env))
      /\ k = cleanups[c].runtime /\ cleanups[c].phase # "idle" /\ over \in {"done", "failed"}
      /\ cleanups' = [cleanups EXCEPT ![c].phase = over] /\ UNCHANGED <<env, closed>>
  BY DEF CleanedUp
<1>1. /\ runtimes \in Seq(RuntimeType) /\ runtimes[k] \in RuntimeType /\ RuntimeSound(k)
      /\ cleanups \in [Calls -> CleanupType] /\ cleanups[c] \in CleanupType /\ env \in Nat
      /\ First \in DOMAIN runtimes /\ closed \in SUBSET InstanceType
  BY <1>0, RuntimeTyped DEF RuntimesInv, RuntimesType
<1>2. /\ middle \in Seq(RuntimeType) /\ DOMAIN middle = DOMAIN runtimes
      /\ middle[k] = new /\ \A j \in DOMAIN runtimes : j # k => middle[j] = runtimes[j]
  BY <1>0, <1>1, ExceptSeq
<1> HIDE DEF middle
<1>n. Runtime(env) \in RuntimeType
  BY <1>0, <1>1, NewRuntimeTyped
<1>3. /\ runtimes' \in Seq(RuntimeType) /\ DOMAIN runtimes \subseteq DOMAIN runtimes'
      /\ \A j \in DOMAIN runtimes : runtimes'[j] = middle[j]
      /\ \A j \in DOMAIN runtimes' \ DOMAIN runtimes : runtimes'[j] = Runtime(env)
  <2>1. CASE runtimes' = middle
    BY <1>0, <1>2, <2>1
  <2>2. CASE runtimes' = Append(middle, Runtime(env))
    <3> DEFINE n == Len(middle)
    <3>1. /\ runtimes' \in Seq(RuntimeType) /\ Len(runtimes') = n + 1
          /\ \A j \in 1..n : runtimes'[j] = middle[j]
          /\ runtimes'[n + 1] = Runtime(env)
      BY <1>0, <1>2, <1>n, <2>2, AppendProperties
    <3>2. n \in Nat /\ DOMAIN middle = 1..n /\ DOMAIN runtimes' = 1..Len(runtimes')
      BY <1>0, <1>2, <3>1, LenProperties
    <3> HIDE DEF n
    <3>3. DOMAIN runtimes = 1..n /\ DOMAIN runtimes' = 1..(n + 1)
      BY <1>0, <1>2, <3>1, <3>2
    <3>4. /\ \A j \in 1..(n + 1) : j \notin 1..n => j = n + 1
          /\ 1..n \subseteq 1..(n + 1)
      BY <3>2, OneMore
    <3>6. \A j \in DOMAIN runtimes : runtimes'[j] = middle[j]
      BY <3>1, <3>3
    <3>7. \A j \in DOMAIN runtimes' \ DOMAIN runtimes : runtimes'[j] = Runtime(env)
      <4> SUFFICES ASSUME NEW j \in DOMAIN runtimes' \ DOMAIN runtimes
                   PROVE  runtimes'[j] = Runtime(env)
        OBVIOUS
      <4>1. j = n + 1
        BY <3>3, <3>4
      <4> QED BY <3>1, <4>1
    <3>8. DOMAIN runtimes \subseteq DOMAIN runtimes'
      BY <3>3, <3>4
    <3>9. runtimes' \in Seq(RuntimeType)
      BY <3>1
    <3> QED BY <3>6, <3>7, <3>8, <3>9
  <2> QED BY <1>0, <2>1, <2>2
<1>4. /\ runtimes'[k] = new
      /\ \A j \in DOMAIN runtimes : j # k => runtimes'[j] = runtimes[j]
      /\ \A j \in DOMAIN runtimes :
           /\ runtimes'[j].settings = runtimes[j].settings /\ runtimes'[j].made = runtimes[j].made
           /\ runtimes'[j].refresh = runtimes[j].refresh
  BY <1>0, <1>2, <1>3
<1>5. /\ Runtime(env).settings = env /\ Runtime(env).refresh.phase = "none"
      /\ Runtime(env).refresh.uses = {}
      /\ \A p \in Providers : Runtime(env).cache[p] = 0 /\ Runtime(env).made[p] = 0
  BY DEF Runtime, NoRefresh
<1>6. /\ cleanups' \in [Calls -> CleanupType]
      /\ cleanups'[c].phase = over /\ cleanups'[c].runtime = k
      /\ cleanups'[c].todo = cleanups[c].todo
      /\ \A d \in Calls : d # c => cleanups'[d] = cleanups[d]
  <2>1. cleanups'[c] = [cleanups[c] EXCEPT !.phase = over]
        /\ \A d \in Calls : d # c => cleanups'[d] = cleanups[d]
    BY <1>0, <1>1
  <2>2. cleanups'[c] \in CleanupType
    BY <1>0, <1>1, <2>1 DEF CleanupType, Phases
  <2> QED BY <1>0, <1>1, <2>1, <2>2 DEF CleanupType
<1>7. RuntimesType'
  BY <1>0, <1>1, <1>3, <1>6 DEF RuntimesInv, RuntimesType
<1>8. \A j \in DOMAIN runtimes' : RuntimeSound(j)'
  <2> SUFFICES ASSUME NEW j \in DOMAIN runtimes' PROVE RuntimeSound(j)'
    OBVIOUS
  <2>1. CASE j \in DOMAIN runtimes
    <3>1. RuntimeSound(j)
      BY <2>1 DEF RuntimesInv
    <3>2. CASE new.cache = runtimes[k].cache
      BY <1>0, <1>4, <2>1, <3>1, <3>2 DEF RuntimeSound
    <3>3. CASE new.cache = [p \in Providers |-> 0]
      <4>1. \A p \in Providers : new.cache[p] = 0 /\ new.made[p] \in Nat
        BY <1>0, <3>3 DEF RuntimeType
      <4> QED BY <1>0, <1>4, <2>1, <3>1, <4>1 DEF RuntimeSound
    <3> QED BY <1>0, <3>2, <3>3
  <2>2. CASE j \notin DOMAIN runtimes
    <3>1. runtimes'[j] = Runtime(env)
      BY <1>0, <1>3, <2>2
    <3> QED BY <1>0, <1>1, <1>5, <3>1 DEF RuntimeSound
  <2> QED BY <2>1, <2>2
<1>9. ASSUME NEW i, Made(i) PROVE Made(i)'
  BY <1>0, <1>3, <1>4, <1>9 DEF Made
<1>10. \A d \in Calls : CleanupSound(d)'
  <2>1. \A d \in Calls : CleanupSound(d)
    BY DEF RuntimesInv
  <2> QED BY <1>0, <1>3, <1>6, <1>9, <2>1 DEF CleanupSound
<1>11. ClosedSound'
  BY <1>0, <1>6, <1>9 DEF RuntimesInv, ClosedSound
<1>12. RefreshSound'
  <2> SUFFICES ASSUME NEW j \in DOMAIN runtimes', runtimes'[j].refresh.phase = "running",
                      NEW d \in Calls, cleanups'[d].phase # "idle"
               PROVE  cleanups'[d].runtime # j
    BY DEF RefreshSound
  <2>1. j \in DOMAIN runtimes
    BY <1>0, <1>3, <1>5
  <2>2. cleanups[d].phase # "idle" /\ cleanups'[d].runtime = cleanups[d].runtime
    BY <1>0, <1>6
  <2> QED BY <1>0, <1>4, <2>1, <2>2 DEF RuntimesInv, RefreshSound
<1>13. CacheSound'
  <2> SUFFICES ASSUME NEW j \in DOMAIN runtimes', NEW p \in Providers,
                      runtimes'[j].cache[p] # 0, <<j, p, runtimes'[j].cache[p]>> \in closed
               PROVE  \E d \in Calls : cleanups'[d].phase = "closing" /\ cleanups'[d].runtime = j
    BY <1>0 DEF CacheSound
  <2>1. j \in DOMAIN runtimes /\ runtimes'[j].cache[p] = runtimes[j].cache[p]
        /\ (j = k => cleanups[c].phase # "closing")
    BY <1>0, <1>3, <1>4, <1>5
  <2>2. PICK d \in Calls : cleanups[d].phase = "closing" /\ cleanups[d].runtime = j
    BY <2>1 DEF RuntimesInv, CacheSound
  <2>3. d # c
    BY <1>0, <2>1, <2>2
  <2> QED BY <1>0, <1>6, <2>2, <2>3
<1> QED BY <1>0, <1>7, <1>8, <1>10, <1>11, <1>12, <1>13 DEF RuntimesInv

\* ProviderRuntime.cleanup and the apply it belongs to, to their end.
LEMMA EndCleanupKeeps ==
  ASSUME RuntimesInv, NEW c \in Calls, EndCleanup(c)
  PROVE  RuntimesInv'
<1> DEFINE k == cleanups[c].runtime
           replaced == c # Shutdown /\ ~ cleanups[c].errors
           over == IF cleanups[c].errors THEN "failed" ELSE "done"
           none == [p \in Providers |-> 0]
           new == [runtimes[k] EXCEPT !.cache = none, !.models = {}]
           middle == [runtimes EXCEPT ![k] = new]
<1>1. /\ runtimes \in Seq(RuntimeType) /\ CleanupSound(c) /\ env \in Nat
      /\ cleanups \in [Calls -> CleanupType] /\ cleanups[c] \in CleanupType
      /\ installed \in DOMAIN runtimes
  BY DEF RuntimesInv, RuntimesType
<1>2. k \in DOMAIN runtimes /\ runtimes[k] \in RuntimeType
  BY <1>1, RuntimeTyped DEF CleanupSound
<1>3. none \in [Providers -> Nat]
  OBVIOUS
<1>4. /\ new \in RuntimeType /\ new.settings = runtimes[k].settings /\ new.made = runtimes[k].made
      /\ new.refresh = runtimes[k].refresh /\ new.cache = none
  <2> HIDE DEF none, k
  <2> QED BY <1>2, <1>3 DEF RuntimeType
<1>5. /\ UNCHANGED <<env, closed>> /\ cleanups[c].phase # "idle"
      /\ cleanups' = [cleanups EXCEPT ![c].phase = over]
      /\ installed' = IF replaced THEN Len(runtimes) + 1 ELSE installed
  BY DEF EndCleanup
<1>6. runtimes' = IF replaced THEN Append(middle, Runtime(env)) ELSE middle
  <2>1. Emptied(k) = middle
    BY DEF Emptied
  <2> HIDE DEF middle
  <2> QED BY <2>1 DEF EndCleanup, NewSettings
<1> HIDE DEF new, none
<1>7. /\ middle \in Seq(RuntimeType) /\ DOMAIN middle = DOMAIN runtimes
      /\ middle[k] = new /\ \A j \in DOMAIN runtimes : j # k => middle[j] = runtimes[j]
  BY <1>1, <1>2, <1>4, ExceptSeq
<1> HIDE DEF middle
<1>8. over \in {"done", "failed"} /\ (c \in Applies => c # Shutdown)
  BY ShutdownApart
<1>9. /\ cleanups'[c].phase = over
      /\ \A d \in Calls : d # c => cleanups'[d] = cleanups[d]
  <2> HIDE DEF over
  <2> QED BY <1>1, <1>5 DEF CleanupType
<1>12. CleanedUp(c, k, over, new)
  <2>1. new.cache = [p \in Providers |-> 0]
    BY <1>4 DEF none
  <2>2. \/ runtimes' = [runtimes EXCEPT ![k] = new]
        \/ runtimes' = Append([runtimes EXCEPT ![k] = new], Runtime(env))
    BY <1>6 DEF middle
  <2> HIDE DEF over
  <2> QED BY <1>2, <1>4, <1>5, <1>8, <2>1, <2>2 DEF CleanedUp
<1>10. CASE replaced
  <2>1. Len(middle) = Len(runtimes) /\ Len(middle) \in Nat
    BY <1>1, <1>7, LenProperties
  <2>n. Runtime(env) \in RuntimeType /\ Runtime(env).settings = env
    BY <1>1, NewRuntimeTyped DEF Runtime
  <2>2. /\ runtimes' \in Seq(RuntimeType) /\ Len(runtimes') = Len(runtimes) + 1
        /\ runtimes'[Len(runtimes) + 1] = Runtime(env)
    BY <1>6, <1>7, <1>10, <2>1, <2>n, AppendProperties
  <2>3. installed' \in DOMAIN runtimes'
    BY <1>5, <1>10, <2>1, <2>2, LenProperties
  <2>4. SettingsCurrent'
    BY <1>5, <1>10, <2>2, <2>n DEF SettingsCurrent
  <2> QED BY <1>12, <2>3, <2>4, CleanupOver
<1>11. CASE ~ replaced
  <2>3. runtimes' = middle /\ installed' = installed
    BY <1>5, <1>6, <1>11
  <2>4. installed' \in DOMAIN runtimes'
    BY <1>1, <1>7, <2>3
  <2>5. SettingsCurrent'
    <3>1. runtimes'[installed].settings = runtimes[installed].settings
      BY <1>1, <1>4, <1>7, <2>3
    <3>2. CASE c \in Applies
      <4>1. cleanups'[c].phase = "failed"
        BY <1>8, <1>9, <1>11, <3>2
      <4> QED BY <3>2, <4>1 DEF SettingsCurrent
    <3>3. CASE c \notin Applies
      <4>1. \A d \in Applies : cleanups'[d] = cleanups[d]
        BY <1>9, <3>3 DEF Calls
      <4> QED BY <1>5, <2>3, <3>1, <4>1 DEF RuntimesInv, SettingsCurrent
    <3> QED BY <3>2, <3>3
  <2> QED BY <1>12, <2>4, <2>5, CleanupOver
<1> QED BY <1>10, <1>11

\* best_effort gives the shutdown's cleanup up, in discovery or among the instances.
LEMMA TimeoutKeeps ==
  ASSUME RuntimesInv, CleanupTimesOut
  PROVE  RuntimesInv'
<1> DEFINE c == Shutdown
           k == cleanups[c].runtime
           none == [p \in Providers |-> 0]
           cache_ == IF cleanups[c].phase = "closing" THEN none ELSE runtimes[k].cache
           new == [runtimes[k] EXCEPT !.cache = cache_, !.models = {}]
           middle == [runtimes EXCEPT ![k] = new]
<1>0. c \in Calls /\ c \notin Applies
  BY ShutdownApart
<1>1. /\ runtimes \in Seq(RuntimeType) /\ CleanupSound(c)
      /\ cleanups \in [Calls -> CleanupType] /\ cleanups[c] \in CleanupType
      /\ installed \in DOMAIN runtimes
  BY <1>0 DEF RuntimesInv, RuntimesType
<1>2. k \in DOMAIN runtimes /\ runtimes[k] \in RuntimeType
  BY <1>1, RuntimeTyped DEF CleanupSound
<1>3. cache_ \in [Providers -> Nat]
  BY <1>2 DEF RuntimeType
<1>4. /\ UNCHANGED <<env, installed, closed>> /\ cleanups[c].phase # "idle"
      /\ cleanups' = [cleanups EXCEPT ![c].phase = "failed"]
      /\ runtimes' = IF cleanups[c].phase = "closing" THEN Emptied(k)
                     ELSE [runtimes EXCEPT ![k].models = {}]
  BY DEF CleanupTimesOut
<1>5. runtimes' = middle
  <2>1. CASE cleanups[c].phase = "closing"
    <3>1. cache_ = none
      BY <2>1
    <3>2. runtimes' = [runtimes EXCEPT ![k].cache = none, ![k].models = {}]
      BY <1>4, <2>1 DEF Emptied
    <3> HIDE DEF cache_, none, k
    <3> QED BY <3>1, <3>2
  <2>2. CASE cleanups[c].phase # "closing"
    <3>1. cache_ = runtimes[k].cache
      BY <2>2
    <3>2. runtimes' = [runtimes EXCEPT ![k].models = {}]
      BY <1>4, <2>2
    <3>3. [runtimes[k] EXCEPT !.models = {}] = [runtimes[k] EXCEPT !.cache = runtimes[k].cache,
                                                                  !.models = {}]
      <4> HIDE DEF k
      <4> QED BY <1>2 DEF RuntimeType
    <3> HIDE DEF cache_, k
    <3> QED BY <3>1, <3>2, <3>3
  <2> QED BY <2>1, <2>2
<1>6. \/ cache_ = runtimes[k].cache /\ cleanups[c].phase # "closing"
      \/ cache_ = [p \in Providers |-> 0]
  OBVIOUS
<1> HIDE DEF cache_
<1>7. /\ new \in RuntimeType /\ new.settings = runtimes[k].settings /\ new.made = runtimes[k].made
      /\ new.refresh = runtimes[k].refresh /\ new.cache = cache_
  <2> HIDE DEF k
  <2> QED BY <1>2, <1>3 DEF RuntimeType
<1> HIDE DEF new
<1>8. /\ DOMAIN middle = DOMAIN runtimes
      /\ middle[k] = new /\ \A j \in DOMAIN runtimes : j # k => middle[j] = runtimes[j]
  BY <1>1, <1>2, <1>7, ExceptSeq
<1>9. \A d \in Calls : d # c => cleanups'[d] = cleanups[d]
  BY <1>1, <1>4
<1>10. installed' \in DOMAIN runtimes' /\ SettingsCurrent'
  <2>1. runtimes'[installed].settings = runtimes[installed].settings
    BY <1>1, <1>5, <1>7, <1>8
  <2>2. \A d \in Applies : cleanups'[d] = cleanups[d]
    BY <1>0, <1>9 DEF Calls
  <2>3. SettingsCurrent'
    BY <1>4, <2>1, <2>2 DEF RuntimesInv, SettingsCurrent
  <2> QED BY <1>1, <1>4, <1>5, <1>8, <2>3
<1>11. CleanedUp(c, k, "failed", new)
  <2>1. runtimes' = [runtimes EXCEPT ![k] = new]
    BY <1>5 DEF middle
  <2>2. \/ new.cache = runtimes[k].cache /\ cleanups[c].phase # "closing"
        \/ new.cache = [p \in Providers |-> 0]
    BY <1>6, <1>7
  <2> HIDE DEF c
  <2> QED BY <1>2, <1>4, <1>7, <2>1, <2>2 DEF CleanedUp
<1>12. c \in Calls
  BY <1>0
<1> HIDE DEF middle, k, c
<1> QED BY <1>10, <1>11, <1>12, CleanupOver

LEMMA RuntimesMoveKeeps ==
  ASSUME RuntimesInv, RuntimesMove
  PROVE  RuntimesInv'
<1>1. CASE \E k \in DOMAIN runtimes : EndRefresh(k) \/ RefreshCancelled(k)
  BY <1>1, RefreshKeeps
<1>2. CASE \E c \in Calls : CleanupMoves(c)
  <2>1. PICK c \in Calls : CleanupMoves(c)
    BY <1>2
  <2>2. CASE BeginClosing(c)
    BY <2>2, ClosingBegins
  <2>3. CASE \E i \in cleanups[c].todo : Close(c, i)
    BY <2>3, CloseKeeps
  <2>4. CASE EndCleanup(c)
    BY <2>4, EndCleanupKeeps
  <2> QED BY <2>1, <2>2, <2>3, <2>4 DEF CleanupMoves
<1>3. CASE CleanupTimesOut
  BY <1>3, TimeoutKeeps
<1> QED BY <1>1, <1>2, <1>3 DEF RuntimesMove, Calls

LEMMA ApplyKeeps ==
  ASSUME RuntimesInv, NEW c \in Applies, Apply(c)
  PROVE  RuntimesInv'
<1>1. c \in Calls /\ installed \in DOMAIN runtimes
  BY DEF Calls, RuntimesInv, RuntimesType
<1>2. /\ cleanups[c].phase = "idle" /\ BeginCleanup(c, installed)
      /\ UNCHANGED <<installed, closed>>
      /\ (env' = env \/ (c \in Applies /\ env' = env + 1))
  BY DEF Apply
<1> QED BY <1>1, <1>2, CleanupBegins

-----------------------------------------------------------------------------
(* The health of the models and the requests.                               *)

LEMMA ProbeGoesOn ==
  ASSUME HealthInv, probe' \in ProbeType, health' \in [Providers -> Statuses],
         UNCHANGED <<requests, usage>>
  PROVE  HealthInv'
BY DEF HealthInv, UsageOnce

LEMMA RequestGoesOn ==
  ASSUME HealthInv, NEW r \in Requests, NEW new \in RequestType,
         requests' = [requests EXCEPT ![r] = new], UNCHANGED <<probe, usage>>,
         requests[r].pc # "ended", new.pc # "ended", health' \in [Providers -> Statuses]
  PROVE  HealthInv'
<1>1. /\ requests' \in [Requests -> RequestType] /\ requests'[r] = new
      /\ \A q \in Requests : q # r => requests'[q] = requests[q]
  BY DEF HealthInv
<1>2. UsageOnce'
  BY <1>1 DEF HealthInv, UsageOnce
<1> QED BY <1>1, <1>2 DEF HealthInv

\* A request that ends has one entry, whatever it was recorded with.
LEMMA RequestOver ==
  ASSUME HealthInv, NEW r \in Requests, NEW entries \in Seq({"ok", "error"}), Len(entries) = 1,
         requests' = [requests EXCEPT ![r].pc = "ended"],
         usage' = [usage EXCEPT ![r] = entries], UNCHANGED probe,
         health' \in [Providers -> Statuses]
  PROVE  HealthInv'
<1>1. requests[r] \in RequestType
  BY DEF HealthInv
<1> DEFINE new == [requests[r] EXCEPT !.pc = "ended"]
<1>2. new \in RequestType /\ new.pc = "ended"
  BY <1>1 DEF RequestType
<1>3. requests' = [requests EXCEPT ![r] = new]
  OBVIOUS
<1> HIDE DEF new
<1>4. /\ requests' \in [Requests -> RequestType] /\ requests'[r] = new
      /\ \A q \in Requests : q # r => requests'[q] = requests[q]
  BY <1>2, <1>3 DEF HealthInv
<1>5. /\ usage' \in [Requests -> Seq({"ok", "error"})] /\ usage'[r] = entries
      /\ \A q \in Requests : q # r => usage'[q] = usage[q]
  BY DEF HealthInv
<1>6. UsageOnce'
  BY <1>2, <1>4, <1>5 DEF HealthInv, UsageOnce
<1> QED BY <1>4, <1>5, <1>6 DEF HealthInv

LEMMA RequestsKeep ==
  ASSUME HealthInv, NEW r \in Requests,
         (\E p \in Providers : Arrives(r, p)) \/ Streams(r) \/ Stalls(r) \/ Ends(r) \/ Raises(r),
         runtimes \in Seq(RuntimeType), installed \in DOMAIN runtimes
  PROVE  HealthInv'
<1>1. /\ requests[r] \in RequestType /\ usage[r] \in Seq({"ok", "error"})
      /\ health \in [Providers -> Statuses]
      /\ requests[r].pc # "ended" => Len(usage[r]) = 0
  BY DEF HealthInv, UsageOnce
<1>2. \A p, s : s \in Statuses => [health EXCEPT ![p] = s] \in [Providers -> Statuses]
  BY <1>1
<1>3. "healthy" \in Statuses /\ "unhealthy" \in Statuses
  BY DEF Statuses
<1>4. CASE \E p \in Providers : Arrives(r, p)
  <2>1. PICK p \in Providers : Arrives(r, p)
    BY <1>4
  <2> DEFINE instance == Instance(installed, p)
             new == [pc |-> "streaming", provider |-> p, chunks |-> FALSE, uses |-> instance]
  <2>2. instance \in InstanceType
    BY InstanceTyped
  <2>3. requests' = [requests EXCEPT ![r] = new] /\ UNCHANGED <<probe, usage>>
        /\ requests[r].pc # "ended" /\ health' = health
    BY <2>1 DEF Arrives
  <2> HIDE DEF instance
  <2>4. new \in RequestType /\ new.pc # "ended"
    BY <2>2 DEF RequestType
  <2> HIDE DEF new
  <2> QED BY <1>1, <2>3, <2>4, RequestGoesOn
<1>5. CASE Streams(r)
  <2> DEFINE new == [requests[r] EXCEPT !.chunks = TRUE]
  <2>1. new \in RequestType /\ new.pc = requests[r].pc
    BY <1>1 DEF RequestType
  <2>2. requests' = [requests EXCEPT ![r] = new] /\ UNCHANGED <<probe, usage>>
        /\ requests[r].pc # "ended"
    BY <1>5 DEF Streams
  <2>3. health' \in [Providers -> Statuses]
    BY <1>2, <1>3, <1>5 DEF Streams, Mark
  <2> HIDE DEF new
  <2> QED BY <2>1, <2>2, <2>3, RequestGoesOn
<1>6. CASE Stalls(r)
  <2> DEFINE new == [requests[r] EXCEPT !.pc = "stalled"]
  <2>1. new \in RequestType /\ new.pc # "ended"
    BY <1>1 DEF RequestType
  <2>2. requests' = [requests EXCEPT ![r] = new] /\ UNCHANGED <<probe, usage>>
        /\ requests[r].pc # "ended"
    BY <1>6 DEF Stalls
  <2>3. health' \in [Providers -> Statuses]
    BY <1>2, <1>3, <1>6 DEF Stalls, Mark
  <2> HIDE DEF new
  <2> QED BY <2>1, <2>2, <2>3, RequestGoesOn
<1>7. CASE Ends(r)
  <2> DEFINE status == IF requests[r].pc = "stalled" THEN "error" ELSE "ok"
             entries == Append(usage[r], status)
  <2>1. status \in {"ok", "error"} /\ Len(usage[r]) = 0
    BY <1>1, <1>7 DEF Ends
  <2>2. usage' = [usage EXCEPT ![r] = entries]
    BY <1>7 DEF Ends, Recorded
  <2> HIDE DEF status
  <2>3. entries \in Seq({"ok", "error"}) /\ Len(entries) = 1
    BY <1>1, <2>1, AppendProperties
  <2>4. requests' = [requests EXCEPT ![r].pc = "ended"] /\ probe' = probe
        /\ health' \in [Providers -> Statuses]
    BY <1>1, <1>7 DEF Ends
  <2> HIDE DEF entries
  <2> QED BY <2>2, <2>3, <2>4, RequestOver
<1>8. CASE Raises(r)
  <2> DEFINE entries == usage[r] \o <<"error">>
             all == entries \o <<>>
  <2>1. Len(usage[r]) = 0
    BY <1>1, <1>8 DEF Raises
  <2>2. usage' = [usage EXCEPT ![r] = all]
    BY <1>8 DEF Raises, FinallyRecords
  <2>3. <<"error">> \in Seq({"ok", "error"}) /\ Len(<<"error">>) = 1
        /\ <<>> \in Seq({"ok", "error"}) /\ Len(<<>>) = 0
    OBVIOUS
  <2>4. entries \in Seq({"ok", "error"}) /\ Len(entries) = 1
    BY <1>1, <2>1, <2>3, ConcatProperties
  <2> HIDE DEF entries
  <2>5. all \in Seq({"ok", "error"}) /\ Len(all) = 1
    BY <2>3, <2>4, ConcatProperties
  <2>6. requests' = [requests EXCEPT ![r].pc = "ended"] /\ probe' = probe
    BY <1>8 DEF Raises
  <2>7. health' \in [Providers -> Statuses]
    BY <1>2, <1>3, <1>8 DEF Raises, Mark
  <2> HIDE DEF all
  <2> QED BY <2>2, <2>5, <2>6, <2>7, RequestOver
<1> QED BY <1>4, <1>5, <1>6, <1>7, <1>8

\* The sweep uses the instances of the first runtime, and lists what it has listed.
LEMMA SweepKeeps ==
  ASSUME RuntimesInv, HealthInv, SweepMoves
  PROVE  RuntimesInv' /\ HealthInv'
<1>1. /\ First \in DOMAIN runtimes /\ runtimes \in Seq(RuntimeType)
      /\ runtimes[First] \in RuntimeType /\ RuntimeSound(First)
  BY RuntimeTyped DEF RuntimesInv, RuntimesType
<1>2. probe \in ProbeType /\ health \in [Providers -> Statuses]
  BY DEF HealthInv
<1>3. UNCHANGED provider_vars => RuntimesInv'
  BY DEF provider_vars, RuntimesInv, RuntimesType, RuntimeSound, CleanupSound, Made, ClosedSound,
         RefreshSound, CacheSound, SettingsCurrent
<1>4. CASE SweepBegins
  <2> DEFINE missing == Providers \ runtimes[First].models
  <2>1. UNCHANGED <<env, installed, closed, cleanups>> /\ missing \in SUBSET Providers
        /\ runtimes' = Resolving(First, missing)
    BY <1>4 DEF SweepBegins
  <2> HIDE DEF missing
  <2>2. RuntimesInv'
    BY <1>1, <2>1, ResolvingKeeps
  <2>3. probe' \in ProbeType
    BY <1>2, <1>4 DEF SweepBegins, ProbeType
  <2>4. health' \in [Providers -> Statuses] /\ UNCHANGED <<requests, usage>>
    BY <1>2, <1>4 DEF SweepBegins
  <2> QED BY <2>2, <2>3, <2>4, ProbeGoesOn
<1>5. CASE SweepLists
  <2>1. PICK answered \in SUBSET {i[2] : i \in Cached(First) \ closed} :
          /\ runtimes' = [runtimes EXCEPT ![First].models = runtimes[First].models \cup answered]
          /\ probe' = [probe EXCEPT !.pc = "probing",
                                    !.left = runtimes[First].models \cup answered]
    BY <1>5 DEF SweepLists
  <2> DEFINE models == runtimes[First].models \cup answered
             refresh == runtimes[First].refresh
  <2>2. models \in SUBSET Providers
    <3>1. runtimes[First].models \in SUBSET Providers
      BY <1>1 DEF RuntimeType
    <3>2. \A i \in Cached(First) : i[2] \in Providers
      BY DEF Cached
    <3> QED BY <3>1, <3>2
  <2>3. UNCHANGED <<env, installed, closed, cleanups>> /\ UNCHANGED <<health, requests, usage>>
    BY <1>5 DEF SweepLists
  <2> HIDE DEF models
  <2>4. probe' \in ProbeType
    <3>1. probe' = [probe EXCEPT !.pc = "probing", !.left = models]
      BY <2>1 DEF models
    <3> QED BY <1>2, <2>2, <3>1 DEF ProbeType
  <2>5. runtimes' = [runtimes EXCEPT ![First] = [runtimes[First] EXCEPT !.models = models,
                                                                       !.refresh = refresh]]
    <3>1. runtimes' = [runtimes EXCEPT ![First] = [runtimes[First] EXCEPT !.models = models]]
      BY <2>1 DEF models
    <3>2. [runtimes[First] EXCEPT !.models = models]
            = [runtimes[First] EXCEPT !.models = models, !.refresh = refresh]
      BY <1>1 DEF RuntimeType
    <3> HIDE DEF refresh
    <3> QED BY <3>1, <3>2
  <2>6. refresh = runtimes[First].refresh \/ refresh = [phase |-> "done", uses |-> {}]
    OBVIOUS
  <2>7. UNCHANGED <<env, installed, closed, cleanups>>
    BY <2>3
  <2> HIDE DEF refresh
  <2>8. RuntimesInv'
    BY <1>1, <2>2, <2>5, <2>6, <2>7, ListsKeep
  <2>9. health' \in [Providers -> Statuses] /\ UNCHANGED <<requests, usage>>
    BY <1>2, <2>3
  <2> QED BY <2>4, <2>8, <2>9, ProbeGoesOn
<1>6. CASE \E p \in Providers : ProbeBegins(p)
  <2>1. PICK p \in Providers : ProbeBegins(p)
    BY <1>6
  <2> DEFINE instance == Instance(First, p)
  <2>2. UNCHANGED <<env, installed, closed, cleanups>> /\ {p} \in SUBSET Providers
        /\ runtimes' = Resolving(First, {p})
    BY <2>1 DEF ProbeBegins
  <2>3. RuntimesInv'
    BY <1>1, <2>2, ResolvingKeeps
  <2>4. instance \in InstanceType
    BY <1>1, InstanceTyped
  <2>5. probe' = [probe EXCEPT !.uses = instance] /\ UNCHANGED <<health, requests, usage>>
    BY <2>1 DEF ProbeBegins
  <2> HIDE DEF instance
  <2>6. probe' \in ProbeType
    BY <1>2, <2>4, <2>5 DEF ProbeType
  <2>7. health' \in [Providers -> Statuses] /\ UNCHANGED <<requests, usage>>
    BY <1>2, <2>5
  <2> QED BY <2>3, <2>6, <2>7, ProbeGoesOn
<1>7. CASE ProbeEnds
  <2> DEFINE left == probe.left \ {probe.uses[2]}
  <2>1. left \in SUBSET Providers /\ probe' = [probe EXCEPT !.left = left, !.uses = NoInstance]
    BY <1>2, <1>7 DEF ProbeEnds, ProbeType
  <2> HIDE DEF left
  <2>2. probe' \in ProbeType
    BY <1>2, <2>1 DEF ProbeType
  <2>3. health' \in [Providers -> Statuses]
    BY <1>2, <1>7 DEF ProbeEnds, Mark, Statuses
  <2>4. UNCHANGED <<requests, usage>> /\ UNCHANGED provider_vars
    BY <1>7 DEF ProbeEnds
  <2> QED BY <1>3, <2>2, <2>3, <2>4, ProbeGoesOn
<1>8. CASE SweepEnds
  <2>1. probe' \in ProbeType
    BY <1>2, <1>8 DEF SweepEnds, ProbeType
  <2>2. health' \in [Providers -> Statuses] /\ UNCHANGED <<requests, usage>>
        /\ UNCHANGED provider_vars
    BY <1>2, <1>8 DEF SweepEnds
  <2> QED BY <1>3, <2>1, <2>2, ProbeGoesOn
<1> QED BY <1>4, <1>5, <1>6, <1>7, <1>8 DEF SweepMoves

-----------------------------------------------------------------------------
(* Startup and shutdown.                                                    *)

\* The first runtime resolves every provider, and refreshes the lists that are missing.
LEMMA StartupKeeps ==
  ASSUME RuntimesInv, HealthInv, Startup, part \in {"providers", "health"},
         \A c \in Calls : cleanups[c].phase = "idle"
  PROVE  RuntimesInv' /\ HealthInv'
<1>1. /\ First \in DOMAIN runtimes /\ runtimes \in Seq(RuntimeType)
      /\ runtimes[First] \in RuntimeType /\ RuntimeSound(First)
  BY RuntimeTyped DEF RuntimesInv, RuntimesType
<1>2. probe \in ProbeType /\ health \in [Providers -> Statuses]
  BY DEF HealthInv
<1>3. /\ UNCHANGED <<env, installed, closed, cleanups>> /\ UNCHANGED <<health, requests, usage>>
      /\ probe' = [probe EXCEPT !.pc = IF part = "health" THEN "sleeping" ELSE probe.pc]
  BY DEF Startup
<1>4. probe' \in ProbeType
  BY <1>2, <1>3 DEF ProbeType
<1>5. HealthInv'
  BY <1>2, <1>3, <1>4, ProbeGoesOn
<1> DEFINE base == Resolved(First, Providers)
<1>6. PICK answered \in SUBSET Providers :
        runtimes' =
          LET listed == [Resolving(First, Providers) EXCEPT ![First].models = answered]
          IN  IF answered = Providers THEN listed
              ELSE [listed EXCEPT ![First].refresh =
                      [phase |-> "running",
                       uses |-> {Instance(First, p) : p \in Providers \ answered}]]
  BY DEF Startup
<1> DEFINE running == [phase |-> "running",
                       uses |-> {Instance(First, p) : p \in Providers \ answered}]
           refresh == IF answered = Providers THEN base.refresh ELSE running
           new == [base EXCEPT !.models = answered, !.refresh = refresh]
<1>7. /\ Resolving(First, Providers) = [runtimes EXCEPT ![First] = base]
      /\ base \in RuntimeType /\ base.settings = runtimes[First].settings
      /\ base.refresh = runtimes[First].refresh
      /\ \A p \in Providers :
           /\ base.made[p] >= runtimes[First].made[p] /\ base.cache[p] <= base.made[p]
           /\ \/ base.cache[p] = runtimes[First].cache[p]
              \/ base.cache[p] > runtimes[First].made[p]
  BY <1>1, ResolvedSound
<1>8. \A i \in running.uses : i \in InstanceType /\ i[1] = First
  BY <1>1, InstanceTyped
<1>9. /\ refresh \in [phase : {"none", "running", "cancelled", "done"}, uses : SUBSET InstanceType]
      /\ \A i \in refresh.uses : i[1] = First
  <2>1. CASE answered = Providers
    <3>1. refresh = runtimes[First].refresh
      BY <1>7, <2>1
    <3> HIDE DEF refresh
    <3> QED BY <1>1, <3>1 DEF RuntimeType, RuntimeSound
  <2>2. CASE answered # Providers
    BY <1>8, <2>2
  <2> QED BY <2>1, <2>2
<1> HIDE DEF base
<1>10. runtimes' = [runtimes EXCEPT ![First] = new]
  <2>1. CASE answered = Providers
    <3>1. runtimes' = [[runtimes EXCEPT ![First] = base] EXCEPT ![First].models = answered]
      BY <1>6, <1>7, <2>1
    <3>2. new = [base EXCEPT !.models = answered]
      BY <1>7, <2>1 DEF RuntimeType
    <3> HIDE DEF new
    <3> QED BY <1>1, <3>1, <3>2
  <2>2. CASE answered # Providers
    <3>1. runtimes' = [[[runtimes EXCEPT ![First] = base] EXCEPT ![First].models = answered]
                         EXCEPT ![First].refresh = running]
      BY <1>6, <1>7, <2>2
    <3>2. new = [[base EXCEPT !.models = answered] EXCEPT !.refresh = running]
      BY <2>2
    <3> HIDE DEF new, running
    <3> QED BY <1>1, <3>1, <3>2
  <2> QED BY <2>1, <2>2
<1> HIDE DEF refresh, running
<1>11. /\ new \in RuntimeType /\ new.settings = base.settings /\ new.made = base.made
       /\ new.cache = base.cache /\ new.refresh = refresh
  BY <1>7, <1>9 DEF RuntimeType
<1> HIDE DEF new
<1>12. \A p \in Providers :
         /\ new.made[p] >= runtimes[First].made[p] /\ new.cache[p] <= new.made[p]
         /\ \/ new.cache[p] = runtimes[First].cache[p]
            \/ new.cache[p] > runtimes[First].made[p]
  BY <1>7, <1>11
<1>13. /\ \A i \in new.refresh.uses : i[1] = First
       /\ new.settings = runtimes[First].settings
       /\ new.refresh.phase = "running" =>
            \/ runtimes[First].refresh.phase = "running"
            \/ \A c \in Calls : cleanups[c].phase = "idle"
  BY <1>7, <1>9, <1>11
<1>14. UNCHANGED <<env, installed, closed, cleanups>>
  BY <1>3
<1>15. RuntimesInv'
  BY <1>1, <1>10, <1>11, <1>12, <1>13, <1>14, RuntimesGoOn
<1> QED BY <1>5, <1>15

\* The shutdown stops the probe and begins to clean the first runtime.
LEMMA StopProbeKeeps ==
  ASSUME RuntimesInv, HealthInv, StopProbe, cleanups[Shutdown].phase = "idle"
  PROVE  RuntimesInv' /\ HealthInv'
<1>1. Shutdown \in Calls /\ First \in DOMAIN runtimes
  BY ShutdownApart DEF RuntimesInv, RuntimesType
<1>2. BeginCleanup(Shutdown, First) /\ UNCHANGED <<installed, closed>>
      /\ (env' = env \/ (Shutdown \in Applies /\ env' = env + 1))
  BY DEF StopProbe
<1>3. RuntimesInv'
  BY <1>1, <1>2, CleanupBegins
<1>4. probe \in ProbeType /\ health \in [Providers -> Statuses]
  BY DEF HealthInv
<1>5. /\ probe' = [probe EXCEPT !.pc = "stopped", !.uses = NoInstance, !.left = {}]
      /\ UNCHANGED <<health, requests, usage>>
  BY DEF StopProbe
<1>6. probe' \in ProbeType
  BY <1>4, <1>5 DEF ProbeType
<1>7. HealthInv'
  BY <1>4, <1>5, <1>6, ProbeGoesOn
<1> QED BY <1>3, <1>7

-----------------------------------------------------------------------------
(* Every step.                                                              *)

LEMMA ProvidersMoveKeeps ==
  ASSUME RuntimesInv, HealthInv, ProvidersMove
  PROVE  RuntimesInv' /\ HealthInv'
<1>1. /\ runtimes \in Seq(RuntimeType) /\ installed \in DOMAIN runtimes
      /\ cleanups \in [Calls -> CleanupType]
  BY DEF RuntimesInv, RuntimesType
<1>2. UNCHANGED health_vars => HealthInv'
  BY DEF health_vars, HealthInv, UsageOnce
<1>3. UNCHANGED provider_vars => RuntimesInv'
  BY DEF provider_vars, RuntimesInv, RuntimesType, RuntimeSound, CleanupSound, Made, ClosedSound,
         RefreshSound, CacheSound, SettingsCurrent
<1>4. CASE RuntimesMove /\ UNCHANGED health_vars
  BY <1>2, <1>4, RuntimesMoveKeeps
<1>5. CASE (\E c \in Applies : Apply(c)) /\ UNCHANGED health_vars
  BY <1>2, <1>5, ApplyKeeps
<1>6. CASE SweepMoves
  BY <1>6, SweepKeeps
<1>7. CASE \E r \in Requests : RequestMoves(r) \/ StreamMoves(r)
  <2>1. PICK r \in Requests :
          (\E p \in Providers : Arrives(r, p)) \/ Streams(r) \/ Stalls(r) \/ Ends(r) \/ Raises(r)
    BY <1>7 DEF RequestMoves, StreamMoves
  <2>2. HealthInv'
    BY <1>1, <2>1, RequestsKeep
  <2>3. CASE \E p \in Providers : Arrives(r, p)
    <3>1. PICK p \in Providers : Arrives(r, p)
      BY <2>3
    <3>2. UNCHANGED <<env, installed, closed, cleanups>> /\ {p} \in SUBSET Providers
          /\ runtimes' = Resolving(installed, {p})
      BY <3>1 DEF Arrives
    <3>3. RuntimesInv'
      BY <1>1, <3>2, ResolvingKeeps
    <3> QED BY <2>2, <3>3
  <2>4. CASE Streams(r) \/ Stalls(r) \/ Ends(r) \/ Raises(r)
    <3>1. UNCHANGED provider_vars
      BY <2>4 DEF Streams, Stalls, Ends, Raises
    <3> QED BY <1>3, <2>2, <3>1
  <2> QED BY <2>1, <2>3, <2>4
<1>8. CASE \E p \in Providers : CooldownEnds(p)
  <2>1. PICK p \in Providers : CooldownEnds(p)
    BY <1>8
  <2>2. probe' \in ProbeType /\ health' \in [Providers -> Statuses]
        /\ UNCHANGED <<requests, usage>>
    BY <2>1 DEF CooldownEnds, HealthInv, Statuses
  <2>3. UNCHANGED provider_vars
    BY <2>1 DEF CooldownEnds
  <2> QED BY <1>3, <2>2, <2>3, ProbeGoesOn
<1> QED BY <1>4, <1>5, <1>6, <1>7, <1>8 DEF ProvidersMove

\* Only the shutdown begins its cleanup.
LEMMA ShutdownRests ==
  ASSUME RuntimesInv, ProvidersMove, cleanups[Shutdown].phase = "idle"
  PROVE  cleanups'[Shutdown].phase = "idle"
<1>1. cleanups \in [Calls -> CleanupType] /\ Shutdown \in Calls
  BY ShutdownApart DEF RuntimesInv, RuntimesType
<1>2. CASE UNCHANGED cleanups
  BY <1>2
<1>3. CASE \E c \in Calls : BeginClosing(c) \/ (\E i \in cleanups[c].todo : Close(c, i)) \/ EndCleanup(c)
  <2>1. PICK c \in Calls : BeginClosing(c) \/ (\E i \in cleanups[c].todo : Close(c, i)) \/ EndCleanup(c)
    BY <1>3
  <2>2. cleanups[c].phase # "idle"
    BY <2>1 DEF BeginClosing, Close, EndCleanup
  <2>3. cleanups'[Shutdown] = cleanups[Shutdown]
    BY <1>1, <2>1, <2>2 DEF BeginClosing, Close, EndCleanup
  <2> QED BY <2>3
<1>4. CASE \E c \in Applies : Apply(c)
  BY <1>1, <1>4, ShutdownApart DEF Apply, BeginCleanup
<1>5. CASE CleanupTimesOut
  BY <1>5 DEF CleanupTimesOut
<1> QED
  BY <1>2, <1>3, <1>4, <1>5
  DEF ProvidersMove, RuntimesMove, EndRefresh, RefreshCancelled, CleanupMoves, Calls, SweepMoves,
      SweepBegins, SweepLists, ProbeBegins, ProbeEnds, SweepEnds, RequestMoves, StreamMoves,
      Arrives, Streams, Stalls, Ends, Raises, CooldownEnds, provider_vars

LEMMA ProvidersStepKeeps ==
  ASSUME ProvidersInv, [Next]_app_vars
  PROVE  ProvidersInv'
<1>1. RuntimesInv /\ HealthInv /\ PhaseSound
  BY DEF ProvidersInv
<1>2. CASE part' = part /\ PhaseMoves /\ UNCHANGED <<provider_vars, health_vars>>
  <2>1. RuntimesInv'
    BY <1>1, <1>2
    DEF provider_vars, RuntimesInv, RuntimesType, RuntimeSound, CleanupSound, Made, ClosedSound,
        RefreshSound, CacheSound, SettingsCurrent
  <2>2. HealthInv'
    BY <1>1, <1>2 DEF health_vars, HealthInv, UsageOnce
  <2>3. PhaseSound'
    BY <1>1, <1>2 DEF PhaseMoves, PhaseSound, provider_vars
  <2> QED BY <2>1, <2>2, <2>3 DEF ProvidersInv
<1>3. CASE part' = part /\ part \in {"providers", "health"} /\ phase = "validating"
           /\ phase' = "running" /\ Startup
  <2>1. \A c \in Calls : cleanups[c].phase = "idle"
    BY <1>1, <1>3 DEF PhaseSound
  <2>2. cleanups' = cleanups
    BY <1>3 DEF Startup
  <2>3. PhaseSound'
    BY <1>3, <2>1, <2>2, ShutdownApart DEF PhaseSound
  <2>4. RuntimesInv' /\ HealthInv'
    BY <1>1, <1>3, <2>1, StartupKeeps
  <2> QED BY <2>3, <2>4 DEF ProvidersInv
<1>4. CASE part' = part /\ phase = "stopping_probe" /\ phase' = "cleaning_providers" /\ StopProbe
  <2>1. part \in {"providers", "health"} /\ cleanups[Shutdown].phase = "idle"
    BY <1>1, <1>4 DEF PhaseSound
  <2>2. PhaseSound'
    BY <1>4, <2>1 DEF PhaseSound
  <2>3. RuntimesInv' /\ HealthInv'
    BY <1>1, <1>4, <2>1, StopProbeKeeps
  <2> QED BY <2>2, <2>3 DEF ProvidersInv
<1>5. CASE /\ UNCHANGED <<part, phase>> /\ part \in {"providers", "health"}
           /\ phase \notin {"validating", "exited"} /\ ProvidersMove
  <2>1. PhaseSound'
    BY <1>1, <1>5, ShutdownRests DEF PhaseSound
  <2>2. RuntimesInv' /\ HealthInv'
    BY <1>1, <1>5, ProvidersMoveKeeps
  <2> QED BY <2>1, <2>2 DEF ProvidersInv
<1> QED BY <1>2, <1>3, <1>4, <1>5, ProvidersFrame

-----------------------------------------------------------------------------
(* The theorem.                                                             *)

LEMMA ProvidersInitSound == AppInit => ProvidersInv
<1> SUFFICES ASSUME AppInit PROVE ProvidersInv
  OBVIOUS
<1>1. Runtime(0) \in RuntimeType
  BY NewRuntimeTyped
<1>2. /\ runtimes = <<Runtime(0)>> /\ env = 0 /\ installed = First /\ closed = {}
      /\ cleanups = [c \in Calls |-> [phase |-> "idle", runtime |-> First, todo |-> {},
                                      errors |-> FALSE]]
  BY DEF AppInit, ProvidersInit, Calls
<1> HIDE DEF First
<1>3. /\ runtimes \in Seq(RuntimeType) /\ DOMAIN runtimes = {1} /\ runtimes[1] = Runtime(0)
  BY <1>1, <1>2
<1>4. First = 1
  BY DEF First
<1>5. \A c \in Calls : cleanups[c] = [phase |-> "idle", runtime |-> First, todo |-> {},
                                      errors |-> FALSE]
  BY <1>2
<1>6. cleanups \in [Calls -> CleanupType]
  BY <1>2, <1>4 DEF CleanupType, Phases
<1>7. RuntimesType
  BY <1>2, <1>3, <1>4, <1>6 DEF RuntimesType
<1>8. RuntimeSound(1)
  BY <1>2, <1>3 DEF RuntimeSound, Runtime, NoRefresh
<1>9. \A c \in Calls : CleanupSound(c)
  BY <1>3, <1>4, <1>5 DEF CleanupSound
<1>10. ClosedSound /\ RefreshSound /\ CacheSound
  BY <1>2, <1>5 DEF ClosedSound, RefreshSound, CacheSound
<1>11. SettingsCurrent
  BY <1>2, <1>3, <1>4 DEF SettingsCurrent, Runtime
<1>12. RuntimesInv
  BY <1>3, <1>7, <1>8, <1>9, <1>10, <1>11 DEF RuntimesInv
<1>13. HealthInv
  <2>1. health \in [Providers -> Statuses]
    BY DEF AppInit, HealthInit, Statuses
  <2>2. probe \in ProbeType
    BY DEF AppInit, HealthInit, ProbeType
  <2>3. NoRequest \in RequestType /\ NoRequest.pc = "new"
    BY DEF NoRequest, RequestType
  <2>4. requests = [r \in Requests |-> NoRequest] /\ usage = [r \in Requests |-> <<>>]
    BY DEF AppInit, HealthInit
  <2>5. <<>> \in Seq({"ok", "error"}) /\ Len(<<>>) = 0
    OBVIOUS
  <2>6. UsageOnce
    BY <2>3, <2>4, <2>5 DEF UsageOnce
  <2> QED BY <2>1, <2>2, <2>3, <2>4, <2>5, <2>6 DEF HealthInv
<1>14. PhaseSound
  BY <1>5 DEF PhaseSound, AppInit, Calls
<1> QED BY <1>12, <1>13, <1>14 DEF ProvidersInv

LEMMA ProvidersInvSound == ProvidersInv => RuntimesSound
<1> SUFFICES ASSUME ProvidersInv PROVE RuntimesSound
  OBVIOUS
<1>1. RuntimesInv /\ HealthInv
  BY DEF ProvidersInv
<1>2. \A k \in DOMAIN runtimes : runtimes[k] \in RuntimeType /\ RuntimeSound(k)
  BY <1>1, RuntimeTyped DEF RuntimesInv, RuntimesType
<1>3. /\ env \in Nat /\ installed \in DOMAIN runtimes /\ cleanups \in [Calls -> CleanupType]
      /\ ClosedSound /\ RefreshSound /\ CacheSound /\ SettingsCurrent
  BY <1>1 DEF RuntimesInv, RuntimesType
<1>4. RuntimesTypeOK
  <2>1. ASSUME NEW k \in DOMAIN runtimes
        PROVE  /\ runtimes[k].settings \in 0 .. env /\ runtimes[k].models \subseteq Providers
               /\ \A p \in Providers : runtimes[k].cache[p] \in 0 .. runtimes[k].made[p]
               /\ runtimes[k].refresh.phase \in {"none", "running", "cancelled", "done"}
    BY <1>2, <1>3 DEF RuntimeType, RuntimeSound
  <2>2. \A c \in Applies \cup {Shutdown} : cleanups[c].phase \in Phases
    BY <1>3 DEF Calls, CleanupType
  <2> QED BY <1>3, <2>1, <2>2 DEF RuntimesTypeOK
<1>5. HealthTypeOK /\ UsageOnce
  BY <1>1 DEF HealthInv, HealthTypeOK, ProbeType, RequestType, Statuses
<1>6. InstalledUsable
  <2> SUFFICES ASSUME ~ Cleaning(installed), NEW p \in Providers, runtimes[installed].cache[p] # 0,
                      <<installed, p, runtimes[installed].cache[p]>> \in closed
               PROVE  FALSE
    BY DEF InstalledUsable, Cached
  <2> QED BY <1>3 DEF CacheSound, Cleaning, Calls
<1>7. RefreshUsesOpen
  <2> SUFFICES ASSUME NEW k \in DOMAIN runtimes, runtimes[k].refresh.phase = "running",
                      NEW i \in runtimes[k].refresh.uses, i \in closed
               PROVE  FALSE
    BY DEF RefreshUsesOpen
  <2>1. i[1] = k
    BY <1>2 DEF RuntimeSound
  <2>2. PICK c \in Calls : cleanups[c].phase # "idle" /\ cleanups[c].runtime = k
    BY <1>3, <2>1 DEF ClosedSound
  <2> QED BY <1>3, <2>2 DEF RefreshSound
<1> QED BY <1>3, <1>4, <1>5, <1>6, <1>7 DEF RuntimesSound

\* However the applies and the shutdown overlap, fail or time out (admin_routes.py,
\* runtime.py, cache.py), the runtime in use hands out open instances and has the settings
\* written last, no refresh queries an instance that is closed, and a request has its one
\* entry in the usage (provider_execution.py).
THEOREM RuntimesCorrect == Spec => []RuntimesSound
<1>1. AppInit => ProvidersInv
  BY ProvidersInitSound
<1>2. ProvidersInv /\ [Next]_app_vars => ProvidersInv'
  BY ProvidersStepKeeps
<1>3. ProvidersInv => RuntimesSound
  BY ProvidersInvSound
<1> QED BY <1>1, <1>2, <1>3, PTL DEF Spec
=============================================================================
