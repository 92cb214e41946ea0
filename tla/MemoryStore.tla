----------------------------- MODULE MemoryStore ----------------------------
(***************************************************************************)
(* vault-operations/memory-store.ts and obsidian-markdown/memory-entries.ts: *)
(* the memory files, dated bullets under H2 sections.  Adding an entry may  *)
(* make the file or the section; a retry of a call that landed must add     *)
(* nothing; deleting takes one entry with the lines that continue it.       *)
(* Writers of one file take turns (module FileWriteLock), so a call is one  *)
(* step; seeding the folder at boot writes file by file and may be cut off. *)
(* A bullet is the line <<"-", date, words>>; module NoteLines reads lines. *)
(***************************************************************************)
EXTENDS Integers, NoteLines

CONSTANTS
  Names,            \* what the code makes of a section name or a heading's text:
                    \* a function name -> [heading, fold, form]
  Files,            \* the files at the start: a function file -> lines or NoFile
  Templates,        \* the template files: a function file -> lines
  Dates,            \* the dates of entries
  Calls,            \* what calls ask for: <<section, date, words>>
  ShrinkFloor,      \* the size from which the guard against shrinking holds
  MaxCalls          \* bound: calls in a behaviour

VARIABLES
  memory,           \* the files: a function file -> lines or NoFile
  folder,           \* does the folder exist?
  seeding,          \* the templates that a boot has yet to write
  call              \* the last call, with the file before it and its outcome

vars == <<memory, folder, seeding, call>>

None == "none"
NoFile == <<<<"no file">>>>
NoCall == [number |-> 0, op |-> None, file |-> None, before |-> NoFile, section |-> None,
           date |-> None, text |-> <<>>, outcome |-> None]

-----------------------------------------------------------------------------
(* Section names. *)

(* headingWithNewestFirstSuffix; sectionComparisonForm, decodeBasicHtmlEntities *)
HeadingText(name) == Names[name].heading
Form(name) == Names[name].form
HeadingLine(text) == CHOOSE w \in DOMAIN Atx : Atx[w] = [level |-> 2, text |-> text]

(* parseSections and findSection: the first H2 with the name, case aside. *)
Topics(lines) == SelectSeq(Sections(lines), LAMBDA h : h.level = 2)
Found(lines, name) ==
  LET topics == Topics(lines)
      same == {k \in DOMAIN topics : Names[topics[k].text].fold = Names[HeadingText(name)].fold}
  IN  {topics[k] : k \in {x \in same : \A y \in same : x <= y}}

(* levenshteinDistance *)
Distance(a, b) ==
  LET d[i \in 0 .. Len(a), j \in 0 .. Len(b)] ==
        IF i = 0 THEN j
        ELSE IF j = 0 THEN i
        ELSE Min({d[i - 1, j] + 1, d[i, j - 1] + 1,
                  d[i - 1, j - 1] + (IF a[i] = b[j] THEN 0 ELSE 1)})
  IN  d[Len(a), Len(b)]
(* nearMissEditBudget *)
EditBudget(length) == IF length <= 3 THEN 0 ELSE IF length <= 7 THEN 1 ELSE 2

(* findNearMissSection *)
Digits == {"1", "2"}
WithoutDigits(form) == SelectSeq(form, LAMBDA c : c \notin Digits)
Near(a, b) ==
  \/ a = b
  \/ /\ WithoutDigits(a) # WithoutDigits(b)
     /\ EditBudget(Min({Len(a), Len(b)})) > 0
     /\ Distance(a, b) <= EditBudget(Min({Len(a), Len(b)}))
NearMiss(lines, name) == \E h \in ToSet(Topics(lines)) : Near(Form(h.text), Form(name))

-----------------------------------------------------------------------------
(* Entries. *)

Bullet(date, text) == <<"-", date>> \o text
IsEntry(line) == Len(line) > 1 /\ line[1] = "-" /\ line[2] \in Dates

(* scanGenuineEntryOffsets: the entry lines no fence or comment hides. *)
Genuine(lines, h) ==
  LET hidden == Parsed(lines).hidden
  IN  {i \in h.body .. h.end - 1 : IsEntry(lines[i]) /\ i \notin hidden}

(* Where an entry ends: at the next entry, a subheading or the section's    *)
(* end, without the blank lines above it.                                  *)
Stops(lines, h) == Genuine(lines, h) \cup {g.first : g \in ToSet(Sections(lines))} \cup {h.end}
SpanEnd(lines, h, i) ==
  LET stops == Stops(lines, h)
      end == Min({j \in stops : j > i})
  IN  Max(TextLines(lines, i, end)) + 1

(* parseMemoryEntries: the entries as getMemoryEntries lists them. *)
Entries(lines) ==
  IF lines = NoFile THEN <<>>
  ELSE FoldLeft(LAMBDA listed, h :
                  LET starts == SetToSortSeq(Genuine(lines, h), <)
                  IN  listed \o [n \in DOMAIN starts |->
                        [section |-> h.text,
                         text |-> SubSeq(lines, starts[n], SpanEnd(lines, h, starts[n]) - 1)]],
                <<>>, Topics(lines))

-----------------------------------------------------------------------------
(* Calls. *)

Size(lines) == FoldLeft(LAMBDA n, line : n + Len(line) + 1, 0, lines)
(* guardAgainstShrink *)
Shrinks(before, after) == Size(before) > ShrinkFloor /\ 2 * Size(after) < Size(before)

Idle == folder /\ seeding = {} /\ call.number < MaxCalls
Writes(file, section, date, text, op, lines, outcome) ==
  /\ memory' = [memory EXCEPT ![file] = lines]
  /\ call' = [number |-> call.number + 1, op |-> op, file |-> file, before |-> memory[file], section |-> section,
              date |-> date, text |-> text, outcome |-> outcome]
  /\ UNCHANGED <<folder, seeding>>

(* buildNewMemoryFile *)
NewFile(section, bullet) ==
  <<<<>>, <<"title">>, <<>>, <<Quote, "scope">>, <<>>,
    <<HeadingLine(HeadingText(section))>>, bullet, <<>>>>

(* updateMemory: a new file, a new section, or an entry of a section.       *)
CreateFile(file, section, date, text) ==
  /\ Idle /\ memory[file] = NoFile
  /\ Writes(file, section, date, text, "update", NewFile(section, Bullet(date, text)),
            "created-file")

CreateSection(file, section, date, text) ==
  /\ Idle /\ memory[file] # NoFile
  /\ Found(memory[file], section) = {} /\ ~NearMiss(memory[file], section)
  /\ Writes(file, section, date, text, "update",
            memory[file] \o <<<<HeadingLine(HeadingText(section))>>, Bullet(date, text)>>,
            "created-section")

Duplicate(lines, h, bullet) == \E i \in Genuine(lines, h) : lines[i] = bullet

InsertionPoint(lines, h, position) ==
  IF position = "top" THEN LeastOr(Genuine(lines, h), h.end) ELSE h.end

AddEntry(file, section, date, text, position) ==
  /\ Idle /\ memory[file] # NoFile
  /\ \E h \in Found(memory[file], section) :
       LET lines == memory[file]
           at == InsertionPoint(lines, h, position)
           written == SubSeq(lines, 1, at - 1) \o <<Bullet(date, text)>> \o SubSeq(lines, at, Len(lines))
       IN  /\ ~Duplicate(lines, h, Bullet(date, text))
           /\ ~Shrinks(lines, written)
           /\ Writes(file, section, date, text, "update", written, "appended")

Retry(file, section, date, text) ==
  /\ Idle /\ memory[file] # NoFile
  /\ \E h \in Found(memory[file], section) : Duplicate(memory[file], h, Bullet(date, text))
  /\ Writes(file, section, date, text, "update", memory[file], "unchanged")

(* deleteMemory: the one entry of the section with this date and text. *)
Delete(file, section, date, text) ==
  /\ Idle /\ memory[file] # NoFile
  /\ \E h \in Found(memory[file], section) :
       LET lines == memory[file]
           matches == {i \in Genuine(lines, h) : lines[i] = Bullet(date, text)}
       IN  \E i \in matches :
             LET written == SubSeq(lines, 1, i - 1) \o SubSeq(lines, SpanEnd(lines, h, i), Len(lines))
             IN  /\ Cardinality(matches) = 1
                 /\ ~Shrinks(lines, written)
                 /\ Writes(file, section, date, text, "delete", written, "deleted")

-----------------------------------------------------------------------------
(* bootstrapMemoryDir: a folder that is there is left alone. *)
Boot ==
  /\ ~folder
  /\ folder' = TRUE /\ seeding' = DOMAIN Templates
  /\ call' = NoCall /\ UNCHANGED memory
Seed(file) ==
  /\ file \in seeding
  /\ memory' = [memory EXCEPT ![file] = Templates[file]]
  /\ seeding' = seeding \ {file}
  /\ call' = NoCall /\ UNCHANGED folder
(* The server stops; the next boot finds the folder. *)
Crash == seeding # {} /\ seeding' = {} /\ call' = NoCall /\ UNCHANGED <<memory, folder>>

Init ==
  /\ memory \in {Files, [f \in DOMAIN Files |-> NoFile]}
  /\ folder = (memory = Files)
  /\ seeding = {} /\ call = NoCall

Next ==
  \/ Boot
  \/ \E file \in DOMAIN Templates : Seed(file)
  \/ Crash
  \/ \E file \in DOMAIN Files, c \in Calls :
       \/ CreateFile(file, c[1], c[2], c[3])
       \/ CreateSection(file, c[1], c[2], c[3])
       \/ \E position \in {"top", "bottom"} : AddEntry(file, c[1], c[2], c[3], position)
       \/ Retry(file, c[1], c[2], c[3])
       \/ Delete(file, c[1], c[2], c[3])

Spec == Init /\ [][Next]_vars

-----------------------------------------------------------------------------
Copies(entries, entry) == Cardinality({k \in DOMAIN entries : entries[k] = entry})

(* No entry ends in the comment delimiter.  One that does reads as a        *)
(* comment line, and hides the entries and headings below it: what a call   *)
(* then does to the entries is left to the run about RetriesAreSafe.        *)
EntriesAreShown(lines) == \A i \in DOMAIN lines : IsEntry(lines[i]) => Toggles(lines[i]) = 0
AllShown ==
  call.op # None => EntriesAreShown(call.before) /\ EntriesAreShown(memory[call.file])

(* A section made below the comment block that ended the file: the lines of *)
(* the block now continue the entry above them.                             *)
Block(lines) ==
  SubSeq(lines, CommentBlockStart(lines), GreatestOr(TextLines(lines, 1, Len(lines) + 1), 0))
AboveBlock(entry) ==
  LET block == Block(call.before)
  IN  IF call.outcome = "created-section" /\ block # <<>> /\ IsSuffix(block, entry.text)
      THEN [entry EXCEPT !.text = SubSeq(@, 1, Len(@) - Len(block))] ELSE entry

(* A call changes one entry: what the file lists afterwards is what it      *)
(* listed before, with the same text, but for the entry that was added or   *)
(* deleted, and the entry that was added is listed in the section asked for. *)
(* Only the comment block above a new section is added to an entry's text.  *)
EntriesAreKept ==
  call.op # None /\ AllShown =>
    LET before == Entries(call.before)
        listed == Entries(memory[call.file])
        after == [k \in DOMAIN listed |-> AboveBlock(listed[k])]
        bullet == Bullet(call.date, call.text)
        all == ToSet(before) \cup ToSet(after)
        others == {e \in all : ~(e.text[1] = bullet /\ Names[e.section].fold = Names[HeadingText(call.section)].fold)}
    IN  /\ \A e \in others : Copies(before, e) = Copies(after, e)
        /\ Len(after) = Len(before) + (CASE call.outcome = "unchanged" -> 0
                                         [] call.outcome = "deleted" -> -1
                                         [] OTHER -> 1)

(* A deletion takes the bullet with all the lines that continue it and no   *)
(* more: the lines that go hold no heading and no other entry, and the next *)
(* text that stays is a heading, an entry, or the comment block that ends   *)
(* the file.                                                               *)
DeletionsTakeOneEntry ==
  call.op = "delete" =>
    LET before == call.before
        after == memory[call.file]
        lost == Len(before) - Len(after)
        entries == UNION {Genuine(before, h) : h \in ToSet(Topics(before))}
        marks == entries \cup {h.first : h \in ToSet(Sections(before))}
    IN  \E i \in entries :
          LET next == i + lost
          IN  /\ before[i] = Bullet(call.date, call.text)
              /\ after = SubSeq(before, 1, i - 1) \o SubSeq(before, next, Len(before))
              /\ marks \cap i .. next - 1 = {i}
              /\ LET text == TextLines(before, next, Len(before) + 1)
                 IN  text # {} => Min(text) \in marks \/ Min(text) >= CommentBlockStart(before)

(* memory-tools.ts: an exact duplicate is a no-op, so retrying a call that  *)
(* timed out is safe: after a call that added an entry, the same call finds *)
(* the entry and writes nothing.                                           *)
RetriesAreSafe ==
  call.op = "update" =>
    \E h \in Found(memory[call.file], call.section) :
      Duplicate(memory[call.file], h, Bullet(call.date, call.text))

(* A retried call adds nothing, as long as every entry reads as one.        *)
RetriesOfShownEntriesAreSafe == AllShown => RetriesAreSafe
=============================================================================
