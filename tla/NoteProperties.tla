--------------------------- MODULE NoteProperties ---------------------------
(* Where a note's properties end and its body begins, and the writes that    *)
(* move that boundary (obsidian-markdown/frontmatter.ts and the writes of    *)
(* vault-filesystem.ts).  A text is the sequence of its lines, a final line  *)
(* break leaving a last line Blank; a line is a tuple:                       *)
(*   <<"---">>  <<"---", "more">> (a line that goes on after the dashes)     *)
(*   <<"entry", key, value>>  (value 0 is empty)   <<"tag", key>> (a value   *)
(*   with an explicit tag)   <<"text">>  <<"bad">> (no YAML)  <<"">>.        *)
(* Line breaks are LF and there is no BOM.  The YAML reader and writer are   *)
(* the package the code calls, as far as a line's kind goes.                 *)
EXTENDS Naturals, Sequences

CONSTANTS
  Notes,      \* the texts a note starts with
  Bodies,     \* the bodies a caller passes
  Properties, \* the properties a caller passes: sequences of entries
  MaxCalls    \* bound: calls made

VARIABLES
  note,  \* the file's text, Absent when there is none
  last,  \* the last call: what it was, on which text, what it wrote
  calls
vars == <<note, last, calls>>

Absent == <<>>
Fence == <<"---">>
Blank == <<"">>

(* splitPropertiesBlock: a bare fence first, then any line that starts with  *)
(* the dashes; what follows the dashes on that line belongs to the body.     *)
Closers(text) == {i \in 2..Len(text) : text[i][1] = "---"}
HasBlock(text) == text[1] = Fence /\ Closers(text) # {}
Closer(text) == CHOOSE i \in Closers(text) : \A j \in Closers(text) : i <= j
Block(text) == IF HasBlock(text) THEN SubSeq(text, 2, Closer(text) - 1) ELSE <<>>
Body(text) ==
  IF ~HasBlock(text) THEN text
  ELSE LET c == Closer(text) rest == SubSeq(text, c + 1, Len(text))
       IN  IF text[c] # Fence THEN <<Tail(text[c])>> \o rest
           ELSE IF rest = <<>> THEN <<Blank>> ELSE rest

(* readPropertiesBlock: keys are unique, and text beside keys is no YAML.    *)
Kinds(block) == {block[i][1] : i \in DOMAIN block}
Twice(block) == \E i, j \in DOMAIN block : /\ i < j
                                           /\ {block[i][1], block[j][1]} \subseteq {"entry", "tag"}
                                           /\ block[i][2] = block[j][2]
Reading(block) ==
  CASE \/ "bad" \in Kinds(block) \/ Twice(block)
       \/ /\ "text" \in Kinds(block)
          /\ Kinds(block) \cap {"entry", "tag"} # {} -> "unreadable"
    [] Kinds(block) \cap {"text", "tag"} # {} -> "unkeepable"
    [] OTHER -> "keepable"
Keepable(text) == Reading(Block(text)) = "keepable"
Data(text) == SelectSeq(Block(text), LAMBDA line : line[1] = "entry")

(* A key of the updates replaces its entry or goes to the end; one the       *)
(* caller set to null (value 0) is removed.                                  *)
Merge(data, updates) ==
  LET given(k) == {i \in DOMAIN updates : updates[i][2] = k}
      updated == [i \in DOMAIN data |->
        IF given(data[i][2]) = {} THEN data[i] ELSE updates[CHOOSE u \in given(data[i][2]) : TRUE]]
      deleted(line) == \E i \in given(line[2]) : updates[i][3] = 0
      added == SelectSeq(updates, LAMBDA u : \A i \in DOMAIN data : data[i][2] # u[2])
  IN  SelectSeq(updated \o added, LAMBDA line : ~deleted(line))

Serialized(data) == IF data = <<>> THEN <<>> ELSE <<Fence>> \o data \o <<Fence>>
EndingInBreak(body) ==
  IF Len(body) > 1 /\ body[Len(body)] = Blank THEN body ELSE Append(body, Blank)
Stringified(body, data) == Serialized(data) \o EndingInBreak(body)
ReplacedBlock(text, data) == Serialized(data) \o Body(text)

(* joinNoteKeepingBlock(splitNoteKeepingBlock): the block as written, its    *)
(* closer on a line of its own, and the edited body.                         *)
Rejoined(text, body) ==
  (IF HasBlock(text) THEN SubSeq(text, 1, Closer(text) - 1) \o <<Fence>> ELSE <<>>)
  \o EndingInBreak(body)

(* Every write is refused when its result would open with a block that the   *)
(* server cannot keep (assertOpeningBlockIsKeepable).                        *)
Written(kind, data, body, text) ==
  /\ note' = text
  /\ last' = [kind |-> kind, before |-> note, data |-> data, body |-> body]
Writes(kind, data, body, text) == Keepable(text) /\ Written(kind, data, body, text)

WriteNote(body, properties, overwrite) ==
  /\ note # Absent => overwrite /\ Keepable(note)
  /\ LET merged == Merge(IF note = Absent THEN <<>> ELSE Data(note), properties)
     IN  Writes("write", merged, EndingInBreak(body), Stringified(body, merged))
UpdateProperties(updates) ==
  /\ note # Absent /\ Keepable(note)
  /\ LET merged == Merge(Data(note), updates)
     IN  Writes("update", merged, EndingInBreak(Body(note)), Stringified(Body(note), merged))
ReplaceProperties(properties) ==
  /\ note # Absent
  /\ Writes("replace", properties, Body(note), ReplacedBlock(note, properties))
(* Any edit of the body: a patch, a task or a memory write (see SectionEdits,*)
(* TaskBoard and MemoryStore for what they do to it).                        *)
EditBody(body) ==
  /\ note # Absent
  /\ ~HasBlock(note) => Keepable(EndingInBreak(body))
  /\ Written("edit", Data(note), EndingInBreak(body), Rejoined(note, body))

Init == note \in Notes \cup {Absent} /\ last = [kind |-> "none"] /\ calls = 0
Next ==
  /\ calls < MaxCalls /\ calls' = calls + 1
  /\ \/ \E b \in Bodies, p \in Properties, o \in BOOLEAN : WriteNote(b, p, o)
     \/ \E p \in Properties : UpdateProperties(p) \/ ReplaceProperties(p)
     \/ \E b \in Bodies : EditBody(b)
Spec == Init /\ [][Next]_vars
-----------------------------------------------------------------------------
(* What a write asked for is what the next read finds: the merged or replaced*)
(* properties, and the body line for line.  Not when no property is left and *)
(* the body itself opens with lines between dashes: those become the         *)
(* properties (the text stays), and they must then be readable.              *)
WritesReadBack ==
  last.kind # "none" =>
    \/ Data(note) = last.data /\ Body(note) = last.body
    \/ last.data = <<>> /\ HasBlock(last.body) /\ note = last.body

(* No call leaves a block that the next one refuses: what is unreadable, or  *)
(* would not survive a rewrite, was so before, and only an edit of the body, *)
(* which keeps the block's lines, goes past it.  And a broken block can      *)
(* always be replaced, or no call could ever repair the note.                *)
BlocksStayUsable ==
  /\ last.kind # "none" /\ ~Keepable(note) =>
       last.kind = "edit" /\ Block(note) = Block(last.before)
  /\ note # Absent =>
       \A p \in Properties : p # <<>> =>
         LET repaired == ReplacedBlock(note, p)
         IN  Keepable(repaired) /\ Data(repaired) = p /\ Body(repaired) = Body(note)
=============================================================================
