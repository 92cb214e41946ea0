------------------------------ MODULE TaskLine ------------------------------
(***************************************************************************)
(* The line editor of obsidian-markdown/tasks.ts: one task line, the       *)
(* fields the Obsidian Tasks plugin reads off its end, and the edits that  *)
(* set, clear, replace and copy them.                                      *)
(*                                                                         *)
(* A line is its checkbox character and a sequence of tokens.  A token is  *)
(* a word, a #tag, a ^block link or one metadata field with its value, in  *)
(* the emoji or the Dataview format.  Two facts of the regular expressions *)
(* survive the abstraction, because they decide what an edit may break:    *)
(* fields are only read at the END of the line, and the value of an emoji  *)
(* recurrence rule takes the words that follow it.                         *)
(***************************************************************************)
EXTENDS Naturals, Sequences, SequencesExt, FiniteSetsExt, TLC

CONSTANTS
  Format,       \* taskFormat: "emoji" or "dataview", how fields are written
  Registry,     \* the status registry: a sequence of <<character, status>>
  SetDoneDate, SetCancelledDate, SetCreatedDate,     \* the plugin's switches
  InitialLines, \* the lines a note may hold
  Descriptions, \* token sequences a caller may submit as a description
  Values,       \* field values a caller may submit, dates included
  Today,        \* the value of today's date
  EditFields    \* the fields this instance edits

VARIABLES
  line,         \* the task line
  edit          \* the edit that made it, with the line it was applied to

vars == <<line, edit>>

-----------------------------------------------------------------------------
(* The grammar of a line. *)

DateFields == <<"created", "start", "scheduled", "due", "done", "cancelled">>
Fields == Range(DateFields) \union
            {"priority", "recurrence", "onCompletion", "id", "dependsOn"}

NoDate == "2026-99-99"     \* a date no calendar has: read as no date at all
Absent == "absent"         \* the null a caller submits to clear a field

Statuses == {"todo", "in_progress", "done", "cancelled"}
DefaultChar == [todo |-> " ", in_progress |-> "/", done |-> "x", cancelled |-> "-"]

Field(kind, value) == [kind |-> kind, value |-> value, format |-> Format]
OpensRule(token) == token.kind = "recurrence" /\ token.format = "emoji"

(* splitTrailingBlockLink: a block link counts only as the last token. *)
HasBlock(tokens) == tokens # <<>> /\ Last(tokens).kind = "block"
Body(tokens) == IF HasBlock(tokens) THEN Front(tokens) ELSE tokens
BlockLink(tokens) == IF HasBlock(tokens) THEN <<Last(tokens)>> ELSE <<>>

(* The tokens the rule at p takes into its value: itself and, in the emoji *)
(* format, every word directly after it.                                   *)
Extent(tokens, p) ==
  {p} \union {q \in p + 1 .. Len(tokens) :
                /\ OpensRule(tokens[p])
                /\ \A r \in p + 1 .. q : tokens[r].kind = "word"}

(* parseTaskMetadata strips fields and tags off the end until nothing      *)
(* matches: everything from i on goes when each token is a field, a tag or *)
(* a word of a rule that itself lies at or after i.                        *)
StripsFrom(tokens, i) ==
  \A j \in i .. Len(tokens) :
    \/ tokens[j].kind \in Fields \union {"tag"}
    \/ \E p \in i .. j - 1 : OpensRule(tokens[p]) /\ j \in Extent(tokens, p)

TailStart(tokens) ==
  CHOOSE i \in 1 .. Len(tokens) + 1 :
    /\ StripsFrom(tokens, i)
    /\ \A j \in 1 .. i - 1 : ~StripsFrom(tokens, j)

IsTag(token) == token.kind = "tag"
ReadDescription(tokens) ==
  LET start == TailStart(tokens)
  IN  SubSeq(tokens, 1, start - 1)
        \o SelectSeq(SubSeq(tokens, start, Len(tokens)), IsTag)

(* The field's leftmost copy in the tail wins, since it is stripped last;  *)
(* <<>> is a field the line does not have.                                 *)
ReadAt(tokens, kind, first) ==
  IF kind \in Range(DateFields) /\ tokens[first].value = NoDate
  THEN <<>>
  ELSE <<tokens[first].value>> \o
         SubSeq(tokens, first + 1, first + Cardinality(Extent(tokens, first)) - 1)
ReadCopies(tokens, kind, copies) ==
  IF copies = {} THEN <<>> ELSE ReadAt(tokens, kind, Min(copies))
ReadField(tokens, kind) ==
  ReadCopies(tokens, kind, {p \in TailStart(tokens) .. Len(tokens) : tokens[p].kind = kind})

Copies(tokens, kind) ==
  Cardinality({p \in TailStart(tokens) .. Len(tokens) : tokens[p].kind = kind})

(* statusForChar and charForStatus: the first character the registry maps  *)
(* to the status, or the default when the registry reads it back the same. *)
StatusForChar(char) ==
  LET entries == {i \in DOMAIN Registry : Registry[i][1] = char}
  IN  IF entries = {} THEN "todo" ELSE Registry[CHOOSE i \in entries : TRUE][2]

CharForStatus(status) ==
  LET entries == {i \in DOMAIN Registry : Registry[i][2] = status}
  IN  IF entries # {}
      THEN Registry[CHOOSE i \in entries : \A j \in entries : i <= j][1]
      ELSE IF StatusForChar(DefaultChar[status]) = status
      THEN DefaultChar[status]
      ELSE Absent

-----------------------------------------------------------------------------
(* Edits of the metadata tail. *)

(* findMetadataStart, splitTaskLine: the tail opens at the first field     *)
(* after which everything parses as metadata.                              *)
MetadataStart(tokens) ==
  Min({i \in 1 .. Len(tokens) : tokens[i].kind \in Fields /\ StripsFrom(tokens, i)}
        \union {Len(tokens) + 1})

SplitAt(body, start, block) ==
  [description |-> SubSeq(body, 1, start - 1),
   metadata |-> SubSeq(body, start, Len(body)),
   block |-> block]
SplitBody(body, block) == SplitAt(body, MetadataStart(body), block)
Split(tokens) == SplitBody(Body(tokens), BlockLink(tokens))

Join(parts) == parts.description \o parts.metadata \o parts.block
WithMetadata(parts, metadata) == Join([parts EXCEPT !.metadata = metadata])

Without(tokens, gone) ==
  LET stays(p) == p \notin gone
      kept == SelectSeq([p \in DOMAIN tokens |-> p], stays)
  IN  [i \in DOMAIN kept |-> tokens[kept[i]]]

Positions(metadata, kind) == {p \in DOMAIN metadata : metadata[p].kind = kind}

RemoveLast(metadata, kind) ==
  IF Positions(metadata, kind) = {} THEN metadata
  ELSE Without(metadata, Extent(metadata, Max(Positions(metadata, kind))))

RemoveAll(metadata, kind) ==
  Without(metadata, UNION {Extent(metadata, p) : p \in Positions(metadata, kind)})

(* insertFieldAtPosition: before the first copy of the first later field   *)
(* that is present, else at the end.                                       *)
InsertedAt(metadata, field, at) ==
  SubSeq(metadata, 1, at - 1) \o <<field>> \o SubSeq(metadata, at, Len(metadata))
InsertBefore(metadata, field, laterFields, present) ==
  IF present = {} THEN Append(metadata, field)
  ELSE InsertedAt(metadata, field, Min(Positions(metadata, laterFields[Min(present)])))
InsertField(metadata, field, laterFields) ==
  InsertBefore(metadata, field, laterFields,
               {i \in DOMAIN laterFields : Positions(metadata, laterFields[i]) # {}})

Identity == <<"id", "dependsOn">>
LaterFields(kind) ==
  CASE kind = "recurrence"   -> <<"onCompletion">> \o DateFields \o Identity
    [] kind = "onCompletion" -> DateFields \o Identity
    [] kind = "id"           -> <<"dependsOn">>
    [] kind = "dependsOn"    -> <<>>
    [] OTHER -> LET at == CHOOSE i \in DOMAIN DateFields : DateFields[i] = kind
                IN  SubSeq(DateFields, at + 1, Len(DateFields)) \o Identity

(* updateTaskLineDate, -TaskId, -Recurrence, -DependsOn: clearing removes  *)
(* every copy, setting replaces the last one.                              *)
FieldSet(metadata, kind, value) ==
  IF value = Absent THEN RemoveAll(metadata, kind)
  ELSE InsertField(RemoveLast(metadata, kind), Field(kind, value), LaterFields(kind))
SetFieldIn(parts, kind, value) == WithMetadata(parts, FieldSet(parts.metadata, kind, value))
SetField(tokens, kind, value) == SetFieldIn(Split(tokens), kind, value)

(* updateTaskLineOnCompletion: setting, too, removes every copy. *)
OnCompletionSet(cleared, value) ==
  IF value = Absent THEN cleared
  ELSE InsertField(cleared, Field("onCompletion", value), LaterFields("onCompletion"))
SetOnCompletionIn(parts, value) ==
  WithMetadata(parts, OnCompletionSet(RemoveAll(parts.metadata, "onCompletion"), value))
SetOnCompletionField(tokens, value) == SetOnCompletionIn(Split(tokens), value)

(* updateTaskLinePriority: a new priority leads the tail. *)
SetPriorityIn(parts, value) ==
  WithMetadata(parts, IF value = Absent THEN RemoveAll(parts.metadata, "priority")
                      ELSE <<Field("priority", value)>> \o RemoveLast(parts.metadata, "priority"))
SetPriorityField(tokens, value) == SetPriorityIn(Split(tokens), value)

(* updateTaskLineStatus: the dates of the other statuses go, the stamp of  *)
(* this one is renewed at the end, or dropped when stamping is off.        *)
Stamps(status) ==
  \/ status = "done" /\ SetDoneDate
  \/ status = "cancelled" /\ SetCancelledDate
StatusIn(parts, status) ==
  WithMetadata(parts,
    RemoveAll(RemoveAll(parts.metadata, "done"), "cancelled")
      \o (IF Stamps(status) THEN <<Field(status, Today)>> ELSE <<>>))
StatusTokens(tokens, status) == StatusIn(Split(tokens), status)

(* deduplicateDescriptionTags: a tag that ends the description and is also *)
(* in the tail goes from the tail, once for each such tag.                 *)
TrailingTags(description) ==
  SubSeq(description,
         Min({i \in 1 .. Len(description) + 1 :
                \A j \in i .. Len(description) : IsTag(description[j])}),
         Len(description))

RemoveFirstTag(metadata, tag) ==
  LET copies == {p \in DOMAIN metadata : metadata[p] = tag}
  IN  IF copies = {} THEN metadata ELSE Without(metadata, {Min(copies)})

Deduplicated(parts) ==
  WithMetadata(parts, FoldLeft(RemoveFirstTag, parts.metadata, TrailingTags(parts.description)))

(* buildNextOccurrenceLine: an open copy with no identity and new dates. *)
NextOccurrence(tokens, dates) ==
  LET values == [kind \in {"id", "dependsOn"} |-> Absent]
                  @@ [kind \in {"created"} |-> IF SetCreatedDate THEN Today ELSE Absent] @@ dates
      Put(so_far, kind) == SetField(so_far, kind, values[kind])
  IN  FoldLeft(Put, StatusTokens(Body(tokens), "todo"),
               <<"id", "dependsOn", "created", "start", "scheduled", "due">>)

(* buildTaskLine: the fields of a new line in the order the plugin writes,  *)
(* and its block id, if it is given one, at the end.                        *)
LineOrder == <<"priority", "recurrence", "onCompletion">> \o DateFields \o Identity
Built(description, submitted, block) ==
  LET given(kind) == kind \in DOMAIN submitted /\ submitted[kind] # Absent
      kinds == SelectSeq(LineOrder, given)
  IN  description \o [i \in DOMAIN kinds |-> Field(kinds[i], submitted[kinds[i]])] \o block

-----------------------------------------------------------------------------
(* diffTaskRoundTrip: what an edit submitted against what the written line  *)
(* reads as.  An edit is [submitted: field -> value, description: <<>> or   *)
(* <<tokens>>, block: the block link it leaves].                           *)

ImpliedDates(status) ==
  [kind \in {"done", "cancelled"} |->
     IF kind = status /\ (IF kind = "done" THEN SetDoneDate ELSE SetCancelledDate)
     THEN Today ELSE Absent]

Expected(submitted, prior, kind) ==
  IF kind \notin DOMAIN submitted THEN ReadField(prior, kind)
  ELSE IF submitted[kind] = Absent THEN <<>> ELSE <<submitted[kind]>>

DescriptionDiverges(tokens, prior, description) ==
  IF description = <<>> THEN ReadDescription(Body(tokens)) # ReadDescription(Body(prior))
  ELSE description[1] \notin {Split(tokens).description, ReadDescription(Body(tokens))}

FieldsDiverge(tokens, prior, submitted) ==
  {kind \in Fields : ReadField(tokens, kind) # Expected(submitted, prior, kind)}
Divergences(tokens, prior, submitted, description) ==
  FieldsDiverge(Body(tokens), Body(prior), submitted)
  \union (IF DescriptionDiverges(tokens, prior, description) THEN {"description"} ELSE {})

-----------------------------------------------------------------------------
NoEdit == [op |-> "none"]
Nothing == [kind \in {} |-> Absent]

Init ==
  /\ line \in InitialLines
  /\ edit = NoEdit

Record(op, submitted, description, block, tokens, box) ==
  /\ line' = [box |-> box, tokens |-> tokens]
  /\ edit' = [op |-> op, submitted |-> submitted, description |-> description,
              block |-> block, before |-> line,
              divergences |-> Divergences(tokens, line.tokens, submitted, description)]

(* createTask, whose line replaces none: only the empty line is built on.   *)
(* It demands a block id, except of a sub-task on a board, which has none.  *)
NewBlock == <<[kind |-> "block", value |-> "new"]>>
Build ==
  \E description \in Descriptions, kinds \in SUBSET EditFields, value \in Values,
     block \in {NewBlock, <<>>} :
    LET submitted == [kind \in kinds \union {"created"} |->
                        IF kind = "created" THEN Today ELSE value]
    IN  /\ line.tokens = <<>> /\ CharForStatus("todo") # Absent
        /\ Record("build", submitted, <<description>>, block,
                  Built(description, submitted, block), CharForStatus("todo"))

(* updateTask: every edited line loses its repeated tags before it is kept. *)
Update(op, submitted, description, block, tokens, box) ==
  /\ line.tokens # <<>>
  /\ Record(op, submitted, description, block, Deduplicated(Split(tokens)), box)

SetOrClearField ==
  \E kind \in EditFields, value \in Values \union {Absent} :
    Update("set", [k \in {kind} |-> value], <<>>, BlockLink(line.tokens),
           CASE kind = "priority"     -> SetPriorityField(line.tokens, value)
             [] kind = "onCompletion" -> SetOnCompletionField(line.tokens, value)
             [] OTHER                 -> SetField(line.tokens, kind, value),
           line.box)

SetStatus ==
  \E status \in Statuses :
    /\ CharForStatus(status) # Absent          \* else charForStatus throws
    /\ Update(status, ImpliedDates(status), <<>>, BlockLink(line.tokens),
              StatusTokens(line.tokens, status), CharForStatus(status))

(* replaceTaskLineDescription *)
ReplaceDescription ==
  \E description \in Descriptions :
    Update("description", Nothing, <<description>>, BlockLink(line.tokens),
           Join([Split(line.tokens) EXCEPT !.description = description]), line.box)

AssignBlockId ==
  Update("block", Nothing, <<>>, NewBlock, Body(line.tokens) \o NewBlock, line.box)

RemoveBlockId == Update("block", Nothing, <<>>, <<>>, Body(line.tokens), line.box)

(* resolveRecurrenceSpawn: the occurrence after an open task that updateTask *)
(* sets done, made from the line as edited.                                  *)
SpawnNext ==
  \E date \in Values \union {Absent} :
    LET completed == Deduplicated(Split(StatusTokens(line.tokens, "done")))
        dates == [kind \in {"start", "scheduled", "due"} |->
                    IF ReadField(Body(completed), kind) = <<>> THEN Absent ELSE date]
        renewed == [kind \in {"created"} |-> IF SetCreatedDate THEN Today ELSE Absent]
        dropped == [kind \in {"done", "cancelled", "id", "dependsOn"} |-> Absent]
    IN  /\ StatusForChar(line.box) # "done"
        /\ CharForStatus("done") # Absent /\ CharForStatus("todo") # Absent
        /\ ReadField(Body(completed), "recurrence") # <<>>
        /\ Record("spawn", dates @@ renewed @@ dropped, <<>>, <<>>,
                  NextOccurrence(completed, dates), CharForStatus("todo"))

Next ==
  /\ edit = NoEdit                     \* one edit of each line: bounds the runs
  /\ \/ Build \/ SetOrClearField \/ SetStatus \/ ReplaceDescription
     \/ AssignBlockId \/ RemoveBlockId \/ SpawnNext

Spec == Init /\ [][Next]_vars

-----------------------------------------------------------------------------
Clean(tokens) == \A token \in Range(tokens) : token.kind \notin Fields \union {"block"}

(* A description a caller submits reads as one when no word of it looks     *)
(* like a field and none can run on into a rule's text.                     *)
CleanEdit == \A k \in DOMAIN edit.description : Clean(edit.description[k])

(* A tag that ends the description and stands among the fields as well:     *)
(* updateTask drops the copy among the fields.                              *)
RepeatsTag(tokens) ==
  LET parts == Split(tokens)
  IN  Range(TrailingTags(parts.description)) \intersect Range(parts.metadata) # {}

(* A text with each tag where it first stands only. *)
TagsOnce(tokens) ==
  Without(tokens, {q \in DOMAIN tokens :
                     IsTag(tokens[q]) /\ \E p \in 1 .. q - 1 : tokens[p] = tokens[q]})

(* An edit reaches only what it is about: every field it does not submit,   *)
(* the description and the block link read afterwards as they read before, *)
(* although the edits work on raw text where a field, a rule's words and   *)
(* prose that looks like a field lie side by side.  Of a line that repeats *)
(* a tag, the repeats may be gone from the description, and only they; a   *)
(* new description stands before the tags that stood among the fields.     *)
EditsKeepTheRest ==
  edit # NoEdit /\ CleanEdit /\ edit.op # "build" =>
    LET old == Body(edit.before.tokens)
        new == Body(line.tokens)
        tags == SelectSeq(Split(old).metadata, IsTag)
    IN  /\ \A kind \in Fields \ DOMAIN edit.submitted :
             ReadField(new, kind) = ReadField(old, kind)
        /\ edit.description = <<>> =>
             \/ ReadDescription(new) = ReadDescription(old)
             \/ RepeatsTag(old) /\ TagsOnce(ReadDescription(new)) = TagsOnce(ReadDescription(old))
        /\ \A k \in DOMAIN edit.description :
             TagsOnce(ReadDescription(new)) = TagsOnce(edit.description[k] \o tags)
        /\ BlockLink(line.tokens) = edit.block

(* What an edit writes is what the next reader sees: each submitted value,  *)
(* the status the checkbox is read back as, every word of the description,  *)
(* the block id.  A line that already held the field twice, or a            *)
(* description that looks like metadata, may read otherwise: then, and only *)
(* then, the result of the call reports the divergence.  It reports, too,   *)
(* that the description of a line which repeats a tag now reads shorter.    *)
EditsReadBack ==
  edit # NoEdit =>
    LET once == \A kind \in DOMAIN edit.submitted :
                  edit.submitted[kind] = Absent \/ Copies(Body(edit.before.tokens), kind) <= 1
        reads == /\ \A kind \in DOMAIN edit.submitted :
                      ReadField(Body(line.tokens), kind) =
                        (IF edit.submitted[kind] = Absent THEN <<>>
                         ELSE <<edit.submitted[kind]>>)
                 /\ \A k \in DOMAIN edit.description :
                      \A token \in Range(edit.description[k]) :
                        token \in Range(ReadDescription(Body(line.tokens)))
        shorter == RepeatsTag(edit.before.tokens) /\ edit.description = <<>>
                     /\ ReadDescription(Body(line.tokens))
                           # ReadDescription(Body(edit.before.tokens))
    IN  /\ once /\ CleanEdit =>
             reads /\ edit.divergences = (IF shorter THEN {"description"} ELSE {})
        /\ ~reads => edit.divergences # {}
        /\ edit.op \in Statuses => StatusForChar(line.box) = edit.op
        /\ edit.op \in {"spawn", "build"} =>
             StatusForChar(line.box) = "todo" /\ BlockLink(line.tokens) = edit.block
=============================================================================
