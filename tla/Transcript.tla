----------------------------- MODULE Transcript -----------------------------
(***************************************************************************)
(* The transcript of a turn in the chat: Claude Code's events              *)
(* (messaging/event_parser.py) become segments (messaging/transcript.py),  *)
(* and the segments, cut to what a message can hold, are shown by editing  *)
(* one message at most once a second (messaging/ui_updates.py).            *)
(*                                                                         *)
(* Claude Code hands work to subagents with the tool Task. Only what they  *)
(* do is shown, not what they say; the transcript knows them by a stack of *)
(* the Tasks that have no result yet.                                      *)
(***************************************************************************)
EXTENDS Integers, Sequences, FiniteSets, SequencesExt

CONSTANTS
  MaxEvents,     \* events of a turn
  MaxTasks,      \* Tasks of a turn
  Limit,         \* what a message holds, in parts, with its marker and its status
  TailMax        \* parts shown of a text

ASSUME TranscriptAssumption == {MaxEvents, MaxTasks, TailMax} \subseteq Nat /\ Limit \in Nat \ {0, 1, 2}

VARIABLES
  turn,          \* what Claude Code does
  transcript,    \* TranscriptBuffer
  editor,        \* ThrottledTranscriptEditor
  message        \* what the chat shows

transcript_vars == <<turn, transcript, editor, message>>

\* An id is a sequence: a result may come with a longer or a shorter one.
Omitted == <<>>
Synthetic(depth) == <<"__task", depth>>
IsSynthetic(id) == id # <<>> /\ id[1] = "__task"
RoughlyMatch(id, result) == IsPrefix(id, result) \/ IsPrefix(result, id)

Segment(kind, parts) == [kind |-> kind, parts |-> parts]
TextKinds == {"text", "thinking"}
NoIndex == -1
Bystander == 0     \* what a subagent says
None == "none"

-----------------------------------------------------------------------------
(* TranscriptBuffer.apply. open: block index -> segment.                    *)

Closed(tr, index) == [tr EXCEPT !.open = [i \in DOMAIN @ \ {index} |-> @[i]]]
Opened(tr, index) ==
  IF index = NoIndex THEN tr
  ELSE [tr EXCEPT !.open = [i \in DOMAIN @ \cup {index} |->
                              IF i = index THEN Len(tr.segments) ELSE @[i]]]
Added(tr, segment) == [tr EXCEPT !.segments = Append(@, segment)]

\* thinking_start, text_start.
TextStarts(tr, kind, index) ==
  IF tr.stack # <<>> THEN tr
  ELSE Opened(Added(Closed(tr, index), Segment(kind, <<>>)), index)

\* Deltas, and chunks, which have no index.
TextGrows(tr, kind, index, part) ==
  IF tr.stack # <<>> THEN tr
  ELSE LET there == IF index \in DOMAIN tr.open THEN tr
                    ELSE Opened(Added(tr, Segment(kind, <<>>)), index)
           at == IF index \in DOMAIN there.open THEN there.open[index] ELSE Len(there.segments)
       IN  [there EXCEPT !.segments[at].parts = Append(@, part)]

\* tool_use_start and tool_use; a subagent's tools show in its own segment.
ToolUsed(tr, task, index, id) ==
  LET here == Closed(tr, index)
      depth == Len(tr.stack)
  IN  CASE task -> [Added(here, Segment("subagent", <<>>)) EXCEPT
                      !.stack = Append(@, IF id = Omitted THEN Synthetic(depth + 1) ELSE id),
                      !.agents = Append(@, Len(here.segments) + 1)]
        [] ~ task /\ depth > 0 -> [here EXCEPT !.segments[Last(tr.agents)].parts = <<"a tool">>]
        [] OTHER -> Opened(Added(here, Segment("tool_call", <<"a tool">>)), index)

Popped(tr, depth) ==
  [tr EXCEPT !.stack = SubSeq(@, 1, depth), !.agents = SubSeq(@, 1, depth)]

\* Slip: only the last Task may end.
ToolResultTop(tr, id, called) ==
  IF tr.stack # <<>> /\ RoughlyMatch(Last(tr.stack), id) THEN Popped(tr, Len(tr.stack) - 1) ELSE tr

\* tool_result and _subagent_pop: the Task that matches ends, and all that came after
\* it; a Task that came without an id ends with a result that looks like a Task's.
\* called: the tool that had the id, if any had. Results themselves are not shown.
ToolResult(tr, id, called) ==
  LET depth == Len(tr.stack)
      matching == {i \in 1 .. depth : RoughlyMatch(tr.stack[i], id)}
  IN  IF matching # {}
      THEN Popped(tr, (CHOOSE i \in matching : \A j \in matching : j <= i) - 1)
      ELSE IF depth > 0 /\ IsSynthetic(tr.stack[depth]) /\ called \in {None, "Task"} /\ id[1] = "task"
      THEN Popped(tr, depth - 1)
      ELSE tr

-----------------------------------------------------------------------------
(* Rendering: the newest segments that fit, or the end of the last one.     *)

\* What a segment takes. A text without parts is left out.
Shown(segment) ==
  IF segment.kind = "text" THEN IF Len(segment.parts) < TailMax THEN Len(segment.parts) ELSE TailMax
  ELSE 1

Rendered(tr) == {i \in DOMAIN tr.segments : Shown(tr.segments[i]) > 0}

Takes(tr, places) == MapThenSumSet(LAMBDA i : Shown(tr.segments[i]), places)

NothingShown == [places |-> {}, cut |-> 0, takes |-> 0, status |-> None]

\* cut: the parts that are left of a last segment that is too long by itself.
Render(tr, status) ==
  LET all == Rendered(tr)
      from(k) == {i \in all : i >= k}
      whole == Takes(tr, all) + 1 <= Limit
      fitting == {k \in all : Takes(tr, from(k)) + 2 <= Limit}
      first == Min(fitting)
  IN  CASE whole -> [places |-> all, cut |-> 0, takes |-> Takes(tr, all) + 1, status |-> status]
        [] ~ whole /\ fitting # {} ->
             [places |-> from(first), cut |-> 0, takes |-> Takes(tr, from(first)) + 2,
              status |-> status]
        [] OTHER -> [places |-> {Max(all)}, cut |-> Limit - 2, takes |-> Limit,
                     status |-> status]

-----------------------------------------------------------------------------
(* ThrottledTranscriptEditor.update. recent: less than a second ago; lost:  *)
(* the last edit did not reach the chat.                                    *)

\* process_parsed_cli_event: the end of a block, of the turn, and an error.
Forced(status) == status \in {"block", "complete", "error"}

\* The status of a block's end is the one before it.
Update(tr, status) ==
  LET line == IF status = "block" THEN editor.status ELSE status
      display == Render(tr, line)
  IN  IF ~ Forced(status) /\ editor.recent
      THEN editor' = [editor EXCEPT !.status = status] /\ UNCHANGED message
      ELSE IF display = editor.displayed
      THEN editor' = [editor EXCEPT !.recent = TRUE, !.status = line] /\ UNCHANGED message
      ELSE \E lost \in BOOLEAN :
             /\ editor' = [recent |-> TRUE, displayed |-> display, status |-> line, lost |-> lost]
             /\ message' = IF lost THEN message ELSE display

Hears(tr, status) == transcript' = tr /\ Update(tr, status)

SecondPasses ==
  /\ editor.recent /\ editor' = [editor EXCEPT !.recent = FALSE]
  /\ UNCHANGED <<turn, transcript, message>>

-----------------------------------------------------------------------------
(* Claude Code: whole messages, or their blocks piece by piece; with ids    *)
(* for its Tasks, or without. One speaks at a time.                         *)

NoBlock == [kind |-> None, index |-> NoIndex]

\* heard: what the main agent said; early: a Task ended before one that started later.
Begins(pieces, ids) ==
  /\ turn = [pieces |-> pieces, ids |-> ids, events |-> 0, tasks |-> <<>>, started |-> 0,
             stopped |-> FALSE, block |-> NoBlock, tool |-> FALSE, heard |-> <<>>,
             early |-> FALSE, ended |-> FALSE]
  /\ transcript = [segments |-> <<>>, open |-> <<>>, stack |-> <<>>, agents |-> <<>>]
  /\ editor = [recent |-> FALSE, displayed |-> NothingShown, status |-> None, lost |-> FALSE]
  /\ message = NothingShown

TranscriptInit == \E pieces, ids \in BOOLEAN : Begins(pieces, ids)
TranscriptRests == Begins(FALSE, FALSE)

Goes == [turn EXCEPT !.events = @ + 1, !.stopped = FALSE]

May == ~ turn.ended /\ turn.events < MaxEvents
Between == May /\ turn.block = NoBlock
IsMain == turn.tasks = <<>>
Part == IF IsMain THEN Len(turn.heard) + 1 ELSE Bystander
Heard(t) == IF IsMain THEN [t EXCEPT !.heard = Append(@, Part)] ELSE t
NextIndex == IF turn.stopped THEN 1 ELSE 0

\* text_chunk, thinking_chunk.
Chunk(kind) ==
  /\ Between /\ ~ turn.pieces /\ turn' = Heard(Goes)
  /\ Hears(TextGrows(transcript, kind, NoIndex, Part), kind)

BlockStarts(kind) ==
  /\ Between /\ turn.pieces
  /\ turn' = [Goes EXCEPT !.block = [kind |-> kind, index |-> NextIndex]]
  /\ Hears(TextStarts(transcript, kind, NextIndex), kind)

BlockGrows ==
  /\ May /\ turn.block.kind \in TextKinds /\ turn' = Heard(Goes)
  /\ Hears(TextGrows(transcript, turn.block.kind, turn.block.index, Part), turn.block.kind)

BlockStops ==
  /\ ~ turn.ended /\ turn.block # NoBlock
  /\ turn' = [turn EXCEPT !.stopped = TRUE, !.block = NoBlock]
  /\ Hears(Closed(transcript, turn.block.index), "block")

InBlock(t, kind) ==
  IF turn.pieces THEN [t EXCEPT !.block = [kind |-> kind, index |-> NextIndex]] ELSE t
Index == IF turn.pieces THEN NextIndex ELSE NoIndex

UsesTool ==
  /\ Between /\ ~ turn.tool
  /\ turn' = [InBlock(Goes, "tool") EXCEPT !.tool = TRUE]
  /\ Hears(ToolUsed(transcript, FALSE, Index, <<"tool">>), "executing")

\* The main agent, or the subagent that came last, starts a Task, or several at once.
StartsTask ==
  LET id == <<"task", turn.started + 1>>
  IN  /\ Between /\ turn.started < MaxTasks
      /\ turn' = [InBlock(Goes, "task") EXCEPT
                    !.started = @ + 1, !.tasks = Append(@, id)]
      /\ Hears(ToolUsed(transcript, TRUE, Index, IF turn.ids THEN id ELSE Omitted), "task")

ToolEnds ==
  /\ Between /\ turn.tool /\ turn' = [Goes EXCEPT !.tool = FALSE]
  /\ Hears(ToolResult(transcript, <<"tool">>, "a tool"), "executing")

\* The result of the i-th Task; its id may have a suffix.
TaskEnds(i, suffix) ==
  /\ Between /\ i \in DOMAIN turn.tasks
  /\ turn' = [Goes EXCEPT !.tasks = RemoveAt(@, i),
                                    !.early = @ \/ i < Len(turn.tasks)]
  /\ Hears(ToolResult(transcript, turn.tasks[i] \o suffix, IF turn.ids THEN "Task" ELSE None),
           "executing")

\* The process exits: an error is a segment of its own, and a turn without any event
\* says "Done.".
Ends(failed) ==
  LET with == IF failed THEN Added(transcript, Segment("error", <<>>)) ELSE transcript
      empty == turn.events = 0 /\ ~ failed
  IN  /\ ~ turn.ended /\ turn.block = NoBlock /\ turn.tasks = <<>>
      /\ turn' = [turn EXCEPT !.ended = TRUE, !.heard = IF empty THEN <<1>> ELSE @]
      /\ Hears(IF empty THEN TextGrows(with, "text", NoIndex, 1) ELSE with, "complete")

TranscriptNext ==
  \/ SecondPasses
  \/ \E kind \in TextKinds : Chunk(kind) \/ BlockStarts(kind)
  \/ BlockGrows \/ BlockStops \/ UsesTool \/ StartsTask \/ ToolEnds
  \/ \E i \in 1 .. MaxTasks, suffix \in {<<>>, <<"more">>} : TaskEnds(i, suffix)
  \/ \E failed \in BOOLEAN : Ends(failed)

-----------------------------------------------------------------------------
(* Properties.                                                              *)

Told ==
  FoldLeft(LAMBDA parts, s : IF s.kind \in TextKinds THEN parts \o s.parts ELSE parts,
           <<>>, transcript.segments)

\* What the main agent says is in the transcript, once and in order; what a subagent
\* says is not, unless a Task that started before its own has ended by then.
MainTold ==
  /\ SelectSeq(Told, LAMBDA part : part # Bystander) = turn.heard
  /\ ~ turn.early => Told = turn.heard

\* The stack is empty when no Task runs: the main agent is heard again.
StackFollows ==
  /\ turn.tasks = <<>> => transcript.stack = <<>>
  /\ ~ turn.early => Len(transcript.stack) = Len(turn.tasks)
  /\ Len(transcript.stack) = Len(transcript.agents)

\* The display fits; it has the newest of what there is to show, and when the turn is
\* over it is in the chat with its status, unless that edit was lost.
DisplayCurrent ==
  LET d == editor.displayed
      newest == Rendered(transcript)
  IN  /\ d.takes <= Limit /\ message.takes <= Limit
      /\ turn.ended \/ turn.stopped =>
           /\ newest # {} => d.places # {} /\ Max(d.places) = Max(newest)
           /\ editor.lost \/ message = d
      /\ turn.ended => d = Render(transcript, "complete")

\* The subagents' stack follows the Tasks, and the chat shows the newest of the turn.
TurnShown == StackFollows /\ DisplayCurrent
=============================================================================
