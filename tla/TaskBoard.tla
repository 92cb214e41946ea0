------------------------------ MODULE TaskBoard -----------------------------
(***************************************************************************)
(* vault-operations/task-mutations.ts: creating a task in a note and       *)
(* updating one, with everything an update may do at once: complete it,    *)
(* write the next occurrence, delete the completed lines, move the block   *)
(* to another lane or reorder it, append a checklist.  The result reports  *)
(* file lines that the code computes by arithmetic over these splices.     *)
(*                                                                         *)
(* A note's body is a sequence of lines; a line keeps what placement can   *)
(* tell apart: its kind, heading level and name, indent, whether a fence   *)
(* or a comment hides it, and a task's status, rule, completion action and *)
(* block id.  The text of a task line is module TaskLine.  Indices are     *)
(* 1-based, an insertion at i goes before the line now at i.  A call the   *)
(* code refuses writes nothing, so refusals are the guards.                *)
(***************************************************************************)
EXTENDS Naturals, Integers, Sequences, SequencesExt, FiniteSetsExt

CONSTANTS
  Notes,            \* the notes to start from: [lines, kanban, prepend,
                    \* onNextLine], the last a setting of the vault
  UpdateCalls,      \* what update calls may ask for
  CreateCalls,      \* what create calls may ask for
  ReadOffset,       \* file lines above the body of the note as read
  WrittenOffset     \* and of the note as written: its properties are rewritten

VARIABLES
  note,             \* the note on disk
  outcome           \* the call that wrote it, the note before, its result

vars == <<note, outcome>>

None == "none"
NoLine == 0

-----------------------------------------------------------------------------
(* Reading lines. *)

Splice(lines, at, count, new) ==
  SubSeq(lines, 1, at - 1) \o new \o SubSeq(lines, at + count, Len(lines))

IsBlank(line) == line.kind = "blank"
NonBlank(lines, first, end) == {i \in first .. end - 1 : ~IsBlank(lines[i])}
LeastOr(set, default) == IF set = {} THEN default ELSE Min(set)
GreatestOr(set, default) == IF set = {} THEN default ELSE Max(set)

(* Lines the task grammar matches; a hidden one or a NON_TASK box is none   *)
(* of the tasks the index lists.                                            *)
IsTaskLine(line) == line.kind = "task"
Actionable(line) == IsTaskLine(line) /\ ~line.hidden /\ line.status # "non_task"

(* parseHeadings: a body runs to the next heading of the same or a higher   *)
(* level; the last ones stop before a trailing comment block and the blank  *)
(* lines above it.                                                          *)
TrailingCommentStart(lines) ==
  LET last == GreatestOr(NonBlank(lines, 1, Len(lines) + 1), 0)
      opens == {i \in 1 .. last : \A j \in i .. last : lines[j].kind = "comment"}
  IN  IF opens = {} THEN Len(lines) + 1
      ELSE GreatestOr(NonBlank(lines, 1, Min(opens)), 0) + 1

Headings(lines) == {i \in DOMAIN lines : lines[i].kind = "heading" /\ ~lines[i].hidden}
Named(lines, name) == {h \in Headings(lines) : lines[h].name = name}
HeadingAbove(lines, i) == GreatestOr({h \in Headings(lines) : h < i}, NoLine)

BodyStart(h) == h + 1
BodyEnd(lines, h) ==
  LET closing == {g \in Headings(lines) : g > h /\ lines[g].indent <= lines[h].indent}
  IN  LeastOr(closing, Max({BodyStart(h), TrailingCommentStart(lines)}))
ChildHeadings(lines, h) ==
  {g \in Headings(lines) : BodyStart(h) <= g /\ g < BodyEnd(lines, h)}
OwnEnd(lines, h) == LeastOr(ChildHeadings(lines, h), BodyEnd(lines, h))

(* A heading line has indent 0 on disk; its record's indent is its level.   *)
Indent(line) == IF line.kind = "heading" THEN 0 ELSE line.indent

(* findTaskBlockEnd: the deeper lines below, without trailing blanks.       *)
BlockEnd(lines, i) ==
  LET stops == {j \in i + 1 .. Len(lines) :
                  ~IsBlank(lines[j]) /\ Indent(lines[j]) <= Indent(lines[i])}
  IN  Max(NonBlank(lines, i, LeastOr(stops, Len(lines) + 1))) + 1

(* scanBodyLinesForTasks: the open tasks on the indent stack above line i.  *)
IsListItem(line) == line.kind \in {"task", "bullet"} /\ ~line.hidden
Ancestors(lines, i) ==
  {j \in 1 .. i - 1 :
     /\ Actionable(lines[j])
     /\ HeadingAbove(lines, i) < j
     /\ \A q \in j + 1 .. i : IsListItem(lines[q]) => lines[q].indent > lines[j].indent}

(* findTaskLineByBlockId: the one actionable line with the id. *)
Locate(lines, block) == {i \in DOMAIN lines : Actionable(lines[i]) /\ lines[i].block = block}

(* validateBlockId: any visible line ending in the id takes it. *)
BlockIdFree(lines, block, except) ==
  \A i \in DOMAIN lines : i # except /\ ~lines[i].hidden => lines[i].block # block

-----------------------------------------------------------------------------
(* Places in a lane. *)

(* The walk of headingInsertIndexAtPosition and positionOfTaskInLane: the   *)
(* task lines of the lane's own part that no earlier task's block holds.    *)
Cards(lines, h) ==
  {i \in BodyStart(h) .. OwnEnd(lines, h) - 1 :
     /\ Actionable(lines[i])
     /\ \A j \in BodyStart(h) .. i - 1 : IsTaskLine(lines[j]) => BlockEnd(lines, j) <= i}

PositionInLane(lines, h, i) == Cardinality({c \in Cards(lines, h) : c <= i})

(* taskInsertIndexUnderHeading: below a **Complete** marker that comes first. *)
BelowMarker(lines, h, first) ==
  IF first # NoLine /\ lines[first].kind = "marker" THEN first + 1 ELSE BodyStart(h)
TopSlot(lines, h) ==
  BelowMarker(lines, h, LeastOr(NonBlank(lines, BodyStart(h), BodyEnd(lines, h)), NoLine))

(* headingInsertIndex "bottom": after the last line of the lane's own part. *)
BottomSlot(lines, h) ==
  GreatestOr(NonBlank(lines, BodyStart(h), OwnEnd(lines, h)), h) + 1

(* headingInsertIndexAtPosition: before the n-th card, below the last one,   *)
(* or where the lane's cards would start.                                   *)
SlotAmong(lines, h, n, cards) ==
  CASE n <= Cardinality(cards) -> CHOOSE c \in cards : Cardinality({d \in cards : d <= c}) = n
    [] n > Cardinality(cards) /\ cards # {} -> BlockEnd(lines, Max(cards))
    [] OTHER -> LeastOr(ChildHeadings(lines, h), TopSlot(lines, h))
NthSlot(lines, h, n) == SlotAmong(lines, h, n, Cards(lines, h))

(* The position parameter of a call. *)
NoPosition == <<>>
Top == <<"top">>
Bottom == <<"bottom">>
Nth(n) == <<"at", n>>
Numeric(position) == Len(position) = 2

Slot(lines, h, position) ==
  CASE position = Top    -> TopSlot(lines, h)
    [] position = Bottom -> BottomSlot(lines, h)
    [] OTHER             -> NthSlot(lines, h, position[2])

(* detectDoneLane: the one lane with the marker, else one named Done. *)
MarkedLanes(lines) == {h \in Headings(lines) : TopSlot(lines, h) # BodyStart(h)}
DoneAmong(lines, marked) ==
  CASE Cardinality(marked) = 1 -> lines[Min(marked)].name
    [] marked = {} /\ Named(lines, "Done") # {} -> "Done"
    [] OTHER -> None
DoneLane(lines) == DoneAmong(lines, MarkedLanes(lines))

-----------------------------------------------------------------------------
(* moveTaskBlock: [ok, lines, at, length], length 0 when nothing moved. *)
Unmoved(lines, at) == [ok |-> TRUE, lines |-> lines, at |-> at, length |-> 0]
RefusedMove(lines, at) == [Unmoved(lines, at) EXCEPT !.ok = FALSE]

(* The block in its slot.  Where positions count, the lines it leaves and    *)
(* takes must be cards (positionOfTaskInLane throws).                       *)
Placed(lines, at, position, from, sameLane, placed, slot, to) ==
  CASE \/ sameLane /\ at \notin Cards(lines, from)
       \/ Numeric(position) /\ from # NoLine /\ at \notin Cards(lines, from)
       \/ (sameLane \/ Numeric(position)) /\ slot \notin Cards(placed, to)
         -> RefusedMove(lines, at)
    [] OTHER ->
         IF sameLane /\ PositionInLane(lines, from, at) = PositionInLane(placed, to, slot)
         THEN Unmoved(lines, at)
         ELSE [ok |-> TRUE, lines |-> placed, at |-> slot, length |-> BlockEnd(lines, at) - at]

PlacedAt(lines, at, position, from, sameLane, rest, slot) ==
  LET placed == Splice(rest, slot, 0, SubSeq(lines, at, BlockEnd(lines, at) - 1))
  IN  IF sameLane /\ slot = at THEN Unmoved(lines, at)
      ELSE Placed(lines, at, position, from, sameLane, placed, slot, HeadingAbove(placed, slot))

Moved(lines, at, lane, position, from, sameLane, rest) ==
  CASE Named(lines, lane) = {} -> RefusedMove(lines, at)
    [] Named(lines, lane) # {} /\ sameLane /\ position = NoPosition -> Unmoved(lines, at)
    [] OTHER ->
         IF Cardinality(Named(rest, lane)) > 1 /\ (sameLane \/ Numeric(position))
         THEN RefusedMove(lines, at)
         ELSE PlacedAt(lines, at, position, from, sameLane, rest,
                       Slot(rest, Min(Named(rest, lane)), IF position = NoPosition THEN Top ELSE position))

Move(lines, at, lane, position) ==
  LET from == HeadingAbove(lines, at)
  IN  Moved(lines, at, lane, position, from, from # NoLine /\ lines[from].name = lane,
            Splice(lines, at, BlockEnd(lines, at) - at, <<>>))

(* Mutant: the lines a move takes away above the occurrence are not counted. *)
SpawnAfterInsertions(spawn, moveStart, move, checklistAt, checklistLength) ==
  IF checklistLength # 0 /\ checklistAt <= spawn THEN spawn + checklistLength ELSE spawn

(* spawnIndexAfterSplices, by arithmetic. *)
SpawnAfterSplices(spawn, moveStart, move, checklistAt, checklistLength) ==
  LET removed == IF move.length = 0 \/ spawn < moveStart THEN spawn
                 ELSE spawn - move.length
      moved == IF move.length # 0 /\ move.at <= removed THEN removed + move.length
               ELSE removed
  IN  IF checklistLength # 0 /\ checklistAt <= moved THEN moved + checklistLength ELSE moved

NewLine(uid, indent) ==
  [uid |-> uid, kind |-> "task", indent |-> indent, name |-> None, hidden |-> FALSE,
   status |-> "todo", rule |-> None, onDone |-> None, block |-> None]

CreatedUid == 100
SpawnUid == 101
ItemUid(k) == 101 + k
Checklist(indent, count) == [k \in 1 .. count |-> NewLine(ItemUid(k), indent)]

(* subtaskIndentUnder: the first child's prefix, else the parent's and two. *)
ChildIndent(lines, i) ==
  IF i + 1 < BlockEnd(lines, i) /\ ~IsBlank(lines[i + 1])
  THEN lines[i + 1].indent ELSE lines[i].indent + 1

Positions(offset, first, count) == [k \in 1 .. count |-> offset + first + k - 1]

-----------------------------------------------------------------------------
Init ==
  /\ note \in Notes
  /\ outcome = [op |-> None]

(* One call on each note bounds the instance; what a call may do does not   *)
(* depend on earlier ones except through the note.                          *)
Fresh == outcome.op = None

Write(lines, result) ==
  /\ note' = [note EXCEPT !.lines = lines]
  /\ outcome' = result @@ [before |-> note.lines]

(* findParentLineIndex, resolveNewTaskPlacement: under the parent's block,   *)
(* in a lane, or at the body's end.                                        *)
ParentOf(call) == IF call.parent = None THEN {} ELSE Locate(note.lines, call.parent)

CreatePosition(call) ==
  IF call.position # NoPosition THEN call.position
  ELSE IF note.kanban /\ note.prepend THEN Top ELSE Bottom

Placement(call) ==
  LET lines == note.lines
      parent == Min(ParentOf(call))
  IN  CASE ParentOf(call) # {}  -> [at |-> BlockEnd(lines, parent),
                                    indent |-> ChildIndent(lines, parent)]
        [] call.heading # None  -> [at |-> Slot(lines, Min(Named(lines, call.heading)),
                                                CreatePosition(call)),
                                    indent |-> 0]
        [] OTHER                -> [at |-> Len(lines) + 1, indent |-> 0]

(* The calls createTask does not refuse. *)
CreateAllowed(call) ==
  LET lanes == Named(note.lines, call.heading)
  IN  /\ call.parent # None => Cardinality(ParentOf(call)) = 1 /\ call.heading = None
      /\ call.block = None <=> note.kanban /\ call.parent # None
      /\ call.block # None => BlockIdFree(note.lines, call.block, NoLine)
      /\ call.heading # None =>
           lanes # {} /\ (Numeric(CreatePosition(call)) => Cardinality(lanes) = 1)
      /\ note.kanban => call.heading # None \/ call.parent # None

CreateAt(call, place) ==
  Write(Splice(note.lines, place.at, 0,
               <<[NewLine(CreatedUid, place.indent) EXCEPT !.block = call.block]>>
                 \o Checklist(place.indent + 1, call.checklist)),
        [op |-> "create", call |-> call, task |-> CreatedUid,
         line |-> WrittenOffset + place.at, next |-> NoLine,
         items |-> Positions(WrittenOffset, place.at + 1, call.checklist)])

Create ==
  \E call \in CreateCalls : Fresh /\ CreateAllowed(call) /\ CreateAt(call, Placement(call))

(* updateTask refuses a call that asks for nothing. *)
Asks(call) ==
  \/ call.status # None \/ call.onDone # None \/ call.heading # None
  \/ call.position # NoPosition \/ call.checklist > 0 \/ call.block # None

(* The line edits of updateTask that placement depends on. *)
Edited(line, call) ==
  [line EXCEPT !.status = IF call.status = None THEN @ ELSE call.status,
               !.onDone = IF call.onDone = None THEN @ ELSE call.onDone,
               !.block = IF call.block = None THEN @ ELSE call.block]

Completes(line, call) == call.status = "done" /\ line.status # "done"
Spawns(line, call) == Completes(line, call) /\ line.rule = "readable"
Deletes(line, call) == Completes(line, call) /\ Edited(line, call).onDone = "delete"

(* The note with the edited line and, next to it, the next occurrence.      *)
SpawnAt(i) == IF note.onNextLine THEN i + 1 ELSE i
Occurrence(line) ==
  [line EXCEPT !.uid = SpawnUid, !.status = "todo", !.block = None]
WithSpawn(lines, i, call) ==
  LET edited == [lines EXCEPT ![i] = Edited(@, call)]
  IN  IF Spawns(lines[i], call)
      THEN Splice(edited, SpawnAt(i), 0, <<Occurrence(edited[i])>>)
      ELSE edited
CompletedAt(lines, i, call) ==
  IF Spawns(lines[i], call) /\ ~note.onNextLine THEN i + 1 ELSE i

Allowed(lines, i, call) ==
  LET subtask == Ancestors(lines, i) # {}
  IN  /\ Asks(call)
      /\ subtask => call.heading = None /\ call.position = NoPosition
      /\ call.block # None =>
           ~(note.kanban /\ lines[i].indent > 0) /\ BlockIdFree(lines, call.block, i)

(* updateTask, the completion that deletes the task's block.                *)
CompleteAndDelete ==
  \E i \in DOMAIN note.lines, call \in UpdateCalls :
    LET lines == WithSpawn(note.lines, i, call)
        at == CompletedAt(note.lines, i, call)
        count == BlockEnd(lines, at) - at
    IN  /\ Fresh /\ Actionable(note.lines[i]) /\ Allowed(note.lines, i, call)
        /\ Deletes(note.lines[i], call)
        /\ Write(Splice(lines, at, count, <<>>),
                 [op |-> "delete", call |-> call, task |-> note.lines[i].uid,
                  line |-> ReadOffset + at, items |-> <<>>,
                  next |-> IF ~Spawns(note.lines[i], call) THEN NoLine
                           ELSE WrittenOffset + SpawnAt(i) - (IF note.onNextLine THEN count ELSE 0)])

(* The lane updateTask moves the block to, None for no move: a card that is  *)
(* completed on a board goes to the done lane.                             *)
ToDone(i, call) ==
  /\ call.heading = None /\ call.status = "done" /\ note.kanban
  /\ Ancestors(note.lines, i) = {}
Reorders(i, call) == call.heading = None /\ ~ToDone(i, call) /\ call.position # NoPosition
Lane(lines, i, at, call) ==
  CASE ToDone(i, call) -> DoneLane(lines)
    [] Reorders(i, call) /\ HeadingAbove(lines, at) # NoLine -> lines[HeadingAbove(lines, at)].name
    [] OTHER -> call.heading

(* The checklist below the moved block, the write and the result. *)
UpdateWith(i, call, at, move, itemsAt) ==
  /\ move.ok
  /\ Write(Splice(move.lines, itemsAt, 0, Checklist(ChildIndent(move.lines, move.at), call.checklist)),
           [op |-> "update", call |-> call, task |-> note.lines[i].uid,
            line |-> WrittenOffset + move.at,
            items |-> Positions(WrittenOffset, itemsAt, call.checklist),
            next |-> IF ~Spawns(note.lines[i], call) THEN NoLine
                     ELSE WrittenOffset + SpawnAfterSplices(SpawnAt(i), at, move, itemsAt, call.checklist)])
UpdateMoved(i, call, at, move) == UpdateWith(i, call, at, move, BlockEnd(move.lines, move.at))
UpdateIn(i, call, lines, at, lane) ==
  /\ ToDone(i, call) => lane # None                         \* no done lane detected
  /\ Reorders(i, call) => HeadingAbove(lines, at) # NoLine  \* above the first heading
  /\ UpdateMoved(i, call, at, IF lane = None THEN Unmoved(lines, at) ELSE Move(lines, at, lane, call.position))

(* updateTask otherwise: edits, spawn, move or reorder, checklist, write.   *)
Update ==
  \E i \in DOMAIN note.lines, call \in UpdateCalls :
    LET lines == WithSpawn(note.lines, i, call)
        at == CompletedAt(note.lines, i, call)
        origin == HeadingAbove(note.lines, i)
    IN  /\ Fresh /\ Actionable(note.lines[i]) /\ Allowed(note.lines, i, call)
        /\ ~Deletes(note.lines[i], call)
        /\ Spawns(note.lines[i], call) /\ call.position # NoPosition /\ origin # NoLine =>
             i \in Cards(note.lines, origin)            \* positionOfTaskInLane throws
        /\ UpdateIn(i, call, lines, at, Lane(lines, i, at, call))

Next == Create \/ CompleteAndDelete \/ Update

Spec == Init /\ [][Next]_vars
-----------------------------------------------------------------------------
IndexOf(lines, uid) == CHOOSE i \in DOMAIN lines : lines[i].uid = uid
Uids(lines) == [i \in DOMAIN lines |-> lines[i].uid]
New(uid) == uid >= CreatedUid

(* The lines that belong to the task of the call: its block, or the task    *)
(* line alone when the next occurrence, written below it, takes the rest.   *)
OwnUids ==
  IF outcome.op = "create" THEN {}
  ELSE IF outcome.next # NoLine /\ note.onNextLine THEN {outcome.task}
  ELSE LET i == IndexOf(outcome.before, outcome.task)
       IN  {outcome.before[j].uid : j \in i .. BlockEnd(outcome.before, i) - 1}

(* Whatever a call splices, every line of the note that is not the task's   *)
(* own is still there, once, and in the order it was in; the task's own     *)
(* lines are kept in order too, unless the call deletes them.               *)
OtherLinesKept ==
  outcome.op # None =>
    LET other(uid) == uid \notin OwnUids /\ ~New(uid)
        own(uid) == uid \in OwnUids
        before == Uids(outcome.before)
        after == Uids(note.lines)
    IN  /\ SelectSeq(after, other) = SelectSeq(before, other)
        /\ outcome.op # "delete" => SelectSeq(after, own) = SelectSeq(before, own)
        /\ Cardinality(Range(after)) = Len(after)

(* The file lines a result reports are the lines a reader finds the task,   *)
(* its next occurrence and its new checklist items on, although they are    *)
(* computed by arithmetic and never looked up; a deleted task's line is the *)
(* one it last had.                                                         *)
ReportedLinesAreRight ==
  outcome.op # None =>
    /\ outcome.op # "delete" =>
         note.lines[outcome.line - WrittenOffset].uid = outcome.task
    /\ outcome.next # NoLine => note.lines[outcome.next - WrittenOffset].uid = SpawnUid
    /\ \A k \in DOMAIN outcome.items :
         note.lines[outcome.items[k] - WrittenOffset].uid = ItemUid(k)

(* Completing an open task with a readable rule leaves exactly one open     *)
(* occurrence, in the lane it was in and at its depth, that shares no block *)
(* id; nothing else writes one.                                             *)
OneOpenOccurrence ==
  outcome.op \in {"update", "delete"} =>
    LET old == outcome.before[IndexOf(outcome.before, outcome.task)]
        spawns == {i \in DOMAIN note.lines : note.lines[i].uid = SpawnUid}
        laneOf(lines, i) == IF HeadingAbove(lines, i) = NoLine THEN 0
                            ELSE lines[HeadingAbove(lines, i)].uid
    IN  IF outcome.call.status = "done" /\ old.status # "done" /\ old.rule = "readable"
        THEN /\ Cardinality(spawns) = 1
             /\ LET spawn == Min(spawns)
                IN  /\ note.lines[spawn].status = "todo" /\ note.lines[spawn].block = None
                    /\ laneOf(note.lines, spawn)
                         = laneOf(outcome.before, IndexOf(outcome.before, outcome.task))
                    /\ Ancestors(note.lines, spawn) = {}
                         <=> Ancestors(outcome.before,
                                       IndexOf(outcome.before, outcome.task)) = {}
        ELSE spawns = {}

(* A card sent to a place is there: under the lane it was sent to, at the   *)
(* position asked for or behind the last card, never inside another card,   *)
(* and above the board's settings block; a card completed on a board is in  *)
(* its done lane; checklist items belong to the card they were asked for.   *)
CardsLandWhereSent ==
  outcome.op \in {"create", "update"} =>
    LET i == IndexOf(note.lines, outcome.task)
        h == HeadingAbove(note.lines, i)
        call == outcome.call
        completes == /\ outcome.op = "update" /\ note.kanban /\ call.status = "done"
                     /\ Ancestors(note.lines, i) = {}
    IN  /\ call.heading = None /\ completes =>
             /\ h # NoLine
             /\ \/ note.lines[h].name = "Done" \/ h \in MarkedLanes(note.lines)
        /\ call.heading # None /\ note.lines[i].indent = 0 =>
             /\ h # NoLine /\ note.lines[h].name = call.heading
             /\ i \in Cards(note.lines, h)
             /\ i < TrailingCommentStart(note.lines)
             /\ Numeric(call.position) =>
                  PositionInLane(note.lines, h, i)
                    = Min({call.position[2], Cardinality(Cards(note.lines, h))})
        /\ \A k \in DOMAIN outcome.items :
             i \in Ancestors(note.lines, IndexOf(note.lines, ItemUid(k)))
=============================================================================
