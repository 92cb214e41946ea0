---------------------------- MODULE SectionEdits ----------------------------
(***************************************************************************)
(* vault-operations/vault-patcher.ts: the five ways to edit the body of a  *)
(* note.  One works on the section below a heading, one on every match of  *)
(* a text, three on lines named by an anchor that occurs in them.  Each    *)
(* reads the body, edits its lines and writes them back under the file's   *)
(* lock (module FileWriteLock); a refused call writes nothing, so refusals  *)
(* are guards.  The properties block is carried over untouched and is left *)
(* out; breaks are LF, as the code's reading makes them.                   *)
(***************************************************************************)
EXTENDS NoteLines

CONSTANTS
  Bodies,           \* the bodies of notes to edit
  Contents,         \* lines a call may write, never only one empty line
  OldTexts,         \* texts to replace: words and Breaks, never empty
  NewTexts,
  Anchors           \* words

VARIABLES
  note,             \* the body on disk
  edit              \* the call that wrote it, with the body before

vars == <<note, edit>>

None == "none"
Break == "\n"
Lines(from, first, end) == SubSeq(from, first, end - 1)
Spliced(lines, first, end, new) ==
  Lines(lines, 1, first) \o new \o Lines(lines, end, Len(lines) + 1)
Least(set) == Min(set)

Written(call, lines) ==
  /\ note' = lines
  /\ edit' = [call EXCEPT !.before = note]
NoEdit == [op |-> None, before |-> <<>>, content |-> <<>>, place |-> None, at |-> 0,
           end |-> 0, old |-> <<>>, all |-> FALSE, displaced |-> FALSE]

-----------------------------------------------------------------------------
(* patchNote *)

(* leadingHeadingOfContent *)
LeadingHeading(content) ==
  LET first == LeastOr(TextLines(content, 1, Len(content) + 1), 0)
  IN  {h \in ToSet(Sections(content)) : h.first = first}

(* appendToBody: above the empty element that a final break leaves. *)
AppendAt(lines, end) ==
  IF end = Len(lines) + 1 /\ lines # <<>> /\ lines[Len(lines)] = <<>> THEN end - 1 ELSE end

(* A call without a heading; it reports the text a new heading takes in. *)
PatchBody(place, content) ==
  LET at == IF place = "append" THEN AppendAt(note, Len(note) + 1) ELSE 1
  IN  /\ place \in {"append", "prepend"}
      /\ Written([NoEdit EXCEPT !.op = "body", !.content = content, !.place = place, !.at = at,
                    !.displaced = /\ place = "prepend" /\ LeadingHeading(content) # {}
                                  /\ TextLines(note, 1, LeadEnd(note)) # {}],
                 Spliced(note, at, at, content))

(* findHeading wants one match; content must not repeat its heading, and a  *)
(* replace that takes children out must say so.                            *)
Children(lines, h) == {g \in ToSet(Sections(lines)) : h.body <= g.first /\ g.first < h.end}
Target(lines, text, level) ==
  {k \in DOMAIN Sections(lines) :
     Sections(lines)[k].text = text /\ level \in {0, Sections(lines)[k].level}}

(* applySectionOperation: the lines the content takes the place of. *)
Place(lines, h, place) ==
  CASE place = "append"        -> [first |-> AppendAt(lines, h.end), end |-> AppendAt(lines, h.end)]
    [] place = "prepend"       -> [first |-> h.body, end |-> h.body]
    [] place = "replace"       -> [first |-> h.body, end |-> h.end]
    [] place = "insert_before" -> [first |-> h.first, end |-> h.first]

PatchSection(text, level, place, content, includeChildren) ==
  \E k \in Target(note, text, level) :
    LET h == Sections(note)[k]
        span == Place(note, h, place)
    IN  /\ Target(note, text, level) = {k}
        /\ \A g \in LeadingHeading(content) : g.text # h.text \/ g.level # h.level
        /\ place = "replace" /\ ~includeChildren => Children(note, h) = {}
        /\ Written([NoEdit EXCEPT !.op = "section", !.content = content, !.place = place, !.at = k],
                   Spliced(note, span.first, span.end, content))

-----------------------------------------------------------------------------
(* replaceInNote works on the text the lines make. *)

Joined(lines) ==
  FoldLeftDomain(LAMBDA text, i : text \o (IF i = 1 THEN <<>> ELSE <<Break>>) \o lines[i], <<>>, lines)
Split(text) ==
  FoldLeft(LAMBDA lines, word : IF word = Break THEN Append(lines, <<>>)
                                ELSE [lines EXCEPT ![Len(lines)] = Append(@, word)],
           <<<<>>>>, text)

(* Where the matches start, from the left and without overlap. *)
MatchesAt(text, old, i) ==
  i + Len(old) <= Len(text) + 1 /\ SubSeq(text, i, i + Len(old) - 1) = old
Matches(text, old, all) ==
  FoldLeftDomain(LAMBDA found, i :
                   IF /\ MatchesAt(text, old, i)
                      /\ found = <<>> \/ (all /\ i >= Last(found) + Len(old))
                   THEN Append(found, i) ELSE found,
                 <<>>, text)

(* The text with every match replaced, and the offsets they end up at. *)
ReplacedAt(starts, text, old, new) ==
  LET part(m) == SubSeq(text, IF m = 1 THEN 1 ELSE starts[m - 1] + Len(old), starts[m] - 1)
      before[m \in DOMAIN starts] == (IF m = 1 THEN <<>> ELSE before[m - 1] \o new) \o part(m)
  IN  [text |-> before[Len(starts)] \o new \o SubSeq(text, Last(starts) + Len(old), Len(text)),
       offsets |-> [m \in DOMAIN starts |-> Len(before[m])]]
Replaced(text, old, new, all) == ReplacedAt(Matches(text, old, all), text, old, new)

(* Breaks of a text in a row that end before an index, or start at it. *)
BreaksBefore(text, i) ==
  Cardinality({k \in 1 .. i - 1 : \A q \in k .. i - 1 : text[q] = Break})
BreaksFrom(text, i) ==
  Cardinality({k \in i .. Len(text) : \A q \in i .. k : text[q] = Break})

(* Mutant: the break that ends the text beyond counts as an empty line. *)
AllBreaks(breaks, textBeyond) == breaks
(* countEmptyLinesInBreaks *)
EmptyIn(breaks, textBeyond) == IF textBeyond /\ breaks > 0 THEN breaks - 1 ELSE breaks

(* listTextDeletionEdits: the matches whose removal leaves an empty line. *)
LeavesEmptyLine(text, offset) ==
  /\ offset = 0 \/ text[offset] = Break
  /\ offset = Len(text) \/ text[offset + 1] = Break
EditAt(text, old, first, above, below, at) ==
  [at |-> at,
   above |-> EmptyIn(above + BreaksFrom(old, 1), above < first - 1),
   below |-> EmptyIn(below + BreaksBefore(old, Len(old) + 1), first + Len(old) + below <= Len(text))]
DeletionEditsAt(starts, after, text, old) ==
  {EditAt(text, old, starts[m], BreaksBefore(text, starts[m]), BreaksFrom(text, starts[m] + Len(old)),
          Len(Split(SubSeq(after.text, 1, after.offsets[m])))) :
     m \in {x \in DOMAIN starts : LeavesEmptyLine(after.text, after.offsets[x])}}
DeletionEdits(text, old, all) ==
  DeletionEditsAt(Matches(text, old, all), Replaced(text, old, <<>>, all), text, old)

ReplaceText(old, new, all) ==
  LET text == Joined(note)
      lines == Split(Replaced(text, old, new, all).text)
  IN  /\ Matches(text, old, all) # <<>>
      /\ Written([NoEdit EXCEPT !.op = "text", !.old = old, !.content = new, !.all = all],
                 IF new = <<>> THEN Collapse(lines, DeletionEdits(text, old, all)) ELSE lines)

-----------------------------------------------------------------------------
(* Edits of whole lines found by an anchor. *)

(* resolveAnchorLine: the one line at or below the first that holds it. *)
Resolved(anchor, from, firstMatch) ==
  LET found == {i \in from .. Len(note) : anchor \in ToSet(note[i])}
  IN  IF Cardinality(found) = 1 \/ (found # {} /\ firstMatch) THEN {Least(found)} ELSE {}
(* resolveSpanLines *)
Spans(start, end, firstMatch) ==
  UNION {{<<i, j>> : j \in IF end = None THEN {i} ELSE Resolved(end, i, firstMatch)}
           : i \in Resolved(start, 1, firstMatch)}

(* countLeadingEmptyLines, countTrailingEmptyLines *)
EmptyAbove(lines) == Cardinality({i \in DOMAIN lines : \A j \in 1 .. i : lines[j] = <<>>})
EmptyBelow(lines) == Cardinality({i \in DOMAIN lines : \A j \in i .. Len(lines) : lines[j] = <<>>})

DeleteSpan(start, end, firstMatch) ==
  \E span \in Spans(start, end, firstMatch) :
    LET above == Lines(note, 1, span[1])
        below == Lines(note, span[2] + 1, Len(note) + 1)
        meet == [at |-> span[1], above |-> EmptyBelow(above), below |-> EmptyAbove(below)]
    IN  Written([NoEdit EXCEPT !.op = "span", !.at = span[1], !.end = span[2] + 1],
                Collapse(above \o below, {meet}))

ReplaceSpan(start, end, content, firstMatch) ==
  \E span \in Spans(start, end, firstMatch) :
    LET above == Lines(note, 1, span[1])
        below == Lines(note, span[2] + 1, Len(note) + 1)
        first == [at |-> span[1], above |-> EmptyBelow(above), below |-> EmptyAbove(content)]
        second == [at |-> span[1] + Len(content), above |-> EmptyBelow(content), below |-> EmptyAbove(below)]
    IN  Written([NoEdit EXCEPT !.op = "span", !.at = span[1], !.end = span[2] + 1, !.content = content],
                Collapse(above \o content \o below, {first, second}))

InsertAtAnchor(anchor, place, content, firstMatch) ==
  \E i \in Resolved(anchor, 1, firstMatch) :
    LET at == IF place = "before" THEN i ELSE i + 1
    IN  Written([NoEdit EXCEPT !.op = "insert", !.content = content, !.at = at],
                Spliced(note, at, at, content))

-----------------------------------------------------------------------------
Init == note \in Bodies /\ edit = NoEdit

Unedited == edit.op = None
Texts == {h.text : h \in UNION {ToSet(Sections(b)) : b \in Bodies}}
Places == {"append", "prepend", "replace", "insert_before"}

SectionStep ==
  /\ Unedited
  /\ \E place \in Places, content \in Contents :
       \/ PatchBody(place, content)
       \/ \E text \in Texts, level \in {0, 2}, includeChildren \in BOOLEAN :
            PatchSection(text, level, place, content, includeChildren)
TextStep == Unedited /\ \E old \in OldTexts, new \in NewTexts, all \in BOOLEAN : ReplaceText(old, new, all)
SpanStep ==
  /\ Unedited
  /\ \E anchor \in Anchors, end \in Anchors \cup {None}, firstMatch \in BOOLEAN :
       \/ DeleteSpan(anchor, end, firstMatch)
       \/ \E content \in Contents : ReplaceSpan(anchor, end, content, firstMatch)
InsertStep ==
  /\ Unedited
  /\ \E anchor \in Anchors, place \in {"before", "after"}, content \in Contents, firstMatch \in BOOLEAN :
       InsertAtAnchor(anchor, place, content, firstMatch)

Next == SectionStep \/ TextStep \/ SpanStep \/ InsertStep
Spec == Init /\ [][Next]_vars

-----------------------------------------------------------------------------
OwnText(lines, k) ==
  LET hs == Sections(lines) IN Lines(lines, hs[k].body, OwnEnd(lines, hs[k]))
Text(lines) == SelectSeq(lines, LAMBDA line : line # <<>>)
Plain(content) ==
  \A i \in DOMAIN content : ToSet(content[i]) \cap (DOMAIN Atx \cup DOMAIN Fences \cup DOMAIN Underlines) = {}
ClosesItsComments(content) == ~Parsed(content).comment
Names(lines) == [k \in DOMAIN Sections(lines) |-> <<Sections(lines)[k].text, Sections(lines)[k].level>>]
CommentBlock(lines) == SelectSeq(Lines(lines, CommentBlockStart(lines), Len(lines) + 1), LAMBDA line : line # <<>>)

(* Below the content is no underline that would make a heading of it. *)
NotUnderlined(lines, h) ==
  h.body > Len(lines) \/ lines[h.body] = <<>> \/ lines[h.body][1] \notin DOMAIN Underlines

(* The content ends in a comment that no text of the note follows: from now *)
(* on it is the note's comment block, and no longer part of the section.    *)
BecomesCommentBlock ==
  /\ CommentBlock(edit.before) = <<>> /\ CommentBlock(note) # <<>>
  /\ IsSuffix(CommentBlock(note), Text(edit.content))

(* A patch of a section leaves every other section as it was: read back,   *)
(* the note has the same headings in the same order (but the children a    *)
(* replace took out), every other one has its own text, the comment block  *)
(* at the end (a board's settings) is the same and still last, and the     *)
(* content is the part of the section where the operation puts it.  Of     *)
(* content that leaves a comment open nothing is said: it hides what is     *)
(* below it, headings included.  A comment that content ends with may       *)
(* become the comment block of a note that had none.                        *)
OtherSectionsAreKept ==
  /\ edit.op = "section" /\ Plain(edit.content) /\ ClosesItsComments(edit.content)
  /\ NotUnderlined(edit.before, Sections(edit.before)[edit.at])
  =>
    LET old == edit.before
        h == Sections(old)[edit.at]
        inside == {k \in DOMAIN Sections(old) : Sections(old)[k].first \in h.body .. h.end - 1}
        gone == IF edit.place = "replace" THEN Cardinality(inside) ELSE 0
        written == CASE edit.place = "append" -> GreatestOr(inside, edit.at)
                     [] edit.place = "insert_before" -> edit.at - 1
                     [] OTHER -> edit.at
        kept == SelectSeq([k \in DOMAIN Sections(old) |-> k], LAMBDA k : k \notin inside \/ gone = 0)
        now == Text(OwnText(note, written)) \o (IF BecomesCommentBlock THEN CommentBlock(note) ELSE <<>>)
    IN  /\ Names(note) = [n \in DOMAIN kept |-> Names(old)[kept[n]]]
        /\ CommentBlock(note) = CommentBlock(old) \/ BecomesCommentBlock
        /\ \A n \in DOMAIN kept : kept[n] # written => OwnText(note, n) = OwnText(old, kept[n])
        /\ edit.place = "replace" => now = Text(edit.content)
        /\ edit.place = "prepend" =>
             IsPrefix(edit.content, OwnText(note, written)) \/ (BecomesCommentBlock /\ now = Text(edit.content))
        /\ edit.place = "append" => now = Text(OwnText(old, written)) \o Text(edit.content)

(* A prepend that reports no displaced content put no heading above text   *)
(* that was there: read back, the last heading of the content holds none   *)
(* of the note's earlier lines.  One that reports it did.                  *)
DisplacementIsReported ==
  edit.op = "body" /\ edit.place = "prepend" /\ LeadingHeading(edit.content) # {} =>
    LET size == Len(edit.content)
        last == Max({k \in DOMAIN Sections(note) : Sections(note)[k].first <= size})
        taken == TextLines(note, size + 1, OwnEnd(note, Sections(note)[last]))
    IN  edit.displaced <=> taken # {}

(* After a deletion the lines that are left stand in their order, as far   *)
(* apart as before, and where lines went the gap is the widest of those     *)
(* that met: paragraphs never run together and no gap grows.               *)
Emptied(n) == [i \in 1 .. n |-> <<>>]
Core(lines) == SubSeq(lines, EmptyAbove(lines) + 1, Len(lines) - EmptyBelow(lines))
Above(lines) == SubSeq(lines, 1, Len(lines) - EmptyBelow(lines))
Below(lines) == SubSeq(lines, EmptyAbove(lines) + 1, Len(lines))
WidestOf(gaps) == Emptied(Max(gaps \cup {0}))

SpanGaps ==
  LET above == Lines(edit.before, 1, edit.at)
      below == Lines(edit.before, edit.end, Len(edit.before) + 1)
  IN  note = IF Text(edit.content) = <<>>
             THEN Above(above) \o WidestOf({EmptyBelow(above), Len(edit.content), EmptyAbove(below)}) \o Below(below)
             ELSE Above(above) \o WidestOf({EmptyBelow(above), EmptyAbove(edit.content)}) \o Core(edit.content)
                    \o WidestOf({EmptyBelow(edit.content), EmptyAbove(below)}) \o Below(below)

(* The lines after a deletion of text, before any collapse.                 *)
Deleted == Split(Replaced(Joined(edit.before), edit.old, <<>>, edit.all).text)
EmptyRuns(first, last) ==
  {p[2] - p[1] + 1 : p \in {p \in (first .. last) \X (first .. last) :
                               \A k \in p[1] .. p[2] : p[1] <= p[2] /\ edit.before[k] = <<>>}}
Gap(i, next) ==
  IF \A k \in i + 1 .. next - 1 : edit.before[k] = <<>> THEN Emptied(next - i - 1)
  ELSE WidestOf(EmptyRuns(i + 1, next - 1) \cup {1})
GapsIn(left, standing) ==
  LET gap(i) == Gap(i, Least({j \in standing : j > i}))
  IN  note = FoldLeftDomain(LAMBDA lines, i : lines \o (IF i \in standing THEN <<left[i]>> \o gap(i) ELSE <<>>),
                            gap(0), left)
TextGaps(left) == GapsIn(left, {0, Len(left) + 1} \cup {i \in DOMAIN left : left[i] # <<>>})

GapsKeepTheWiderSide ==
  /\ edit.op = "span" => SpanGaps
  /\ edit.op = "text" /\ edit.content = <<>> =>
       IF Break \in ToSet(edit.old)
       THEN Text(note) = Text(Deleted)
       ELSE TextGaps(Deleted)
=============================================================================
