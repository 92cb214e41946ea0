------------------------------ MODULE NoteLines -----------------------------
(***************************************************************************)
(* obsidian-markdown/lines.ts and headings.ts: what the lines of a note's   *)
(* body are.  A line is a sequence of words; the words that decide         *)
(* something are the fence and comment delimiters, the block quote marker, *)
(* the headings and the two setext underlines.  <<>> is an empty line, one *)
(* of only Spaces is blank without being empty.  Lines count from 1; a     *)
(* section is [first, end), a missing comment block starts below the note. *)
(***************************************************************************)
EXTENDS Naturals, Sequences, SequencesExt, FiniteSetsExt

CONSTANT Atx        \* the ATX headings: a function word -> [level, text]

Space   == "sp"
Quote   == ">"
Comment == "%%"
Fences  == [word \in {"ticks", "longer ticks", "tildes"} |->
              [char |-> IF word = "tildes" THEN "tilde" ELSE "tick",
               length |-> IF word = "longer ticks" THEN 4 ELSE 3]]
Underlines == [word \in {"===", "---"} |-> IF word = "===" THEN 1 ELSE 2]
Openers == {"-", Quote}        \* a list item or a quote is no heading text

IsBlank(line) == \A k \in DOMAIN line : line[k] = Space
TextLines(lines, first, end) == {i \in first .. end - 1 : ~IsBlank(lines[i])}
LeastOr(set, default) == IF set = {} THEN default ELSE Min(set)
GreatestOr(set, default) == IF set = {} THEN default ELSE Max(set)

-----------------------------------------------------------------------------
(* One pass over the lines carries the open fence, the open comment and the *)
(* line that may become a setext heading.                                  *)

(* stripBlockquotePrefix *)
Depth(line) == Len(line) - Len(SelectSeq(line, LAMBDA w : w # Quote))
Inner(line) == SubSeq(line, Depth(line) + 1, Len(line))
FenceWord(line) ==
  LET inner == Inner(line)
  IN  IF inner # <<>> /\ inner[1] \in DOMAIN Fences THEN inner[1] ELSE "none"

NoFence == [word |-> "none", depth |-> 0]

(* advanceFence: the fence open after the line. *)
FenceAfter(line, open) ==
  LET here == FenceWord(line)
      opened == IF here = "none" THEN NoFence ELSE [word |-> here, depth |-> Depth(line)]
      closes == /\ Fences[here].char = Fences[open.word].char
                /\ Fences[here].length >= Fences[open.word].length
                /\ Len(Inner(line)) = 1
  IN  CASE open = NoFence \/ Depth(line) < open.depth  -> opened
        [] open # NoFence /\ Depth(line) > open.depth  -> open
        [] OTHER -> IF here # "none" /\ closes THEN NoFence ELSE open
IsCode(line, open) ==
  \/ FenceWord(line) # "none" /\ (open = NoFence \/ Depth(line) <= open.depth)
  \/ open # NoFence /\ Depth(line) >= open.depth

(* countCommentToggles, advanceComment *)
Toggles(line) ==
  IF line = <<>> THEN 0
  ELSE IF line = <<Comment>> THEN 1
  ELSE Cardinality({k \in {1, Len(line)} : line[k] = Comment})
CommentAfter(line, open) == IF Toggles(line) % 2 = 0 THEN open ELSE ~open

IsParagraph(line) ==
  ~IsBlank(line) /\ line[1] \notin Openers /\ line # <<"---">>

Start == [fence |-> NoFence, comment |-> FALSE, opened |-> 0, block |-> <<0, 0>>,
          candidate |-> 0, text |-> "none", at |-> 1, headings |-> <<>>, hidden |-> {}]

IsAtx(line) == line # <<>> /\ line[1] \in DOMAIN Atx
IsSetext(line, st) == st.candidate # 0 /\ Len(line) = 1 /\ line[1] \in DOMAIN Underlines

(* What every line does: it counts, and may open or close a fence. *)
Counted(st, line, hides) ==
  [st EXCEPT !.at = @ + 1, !.candidate = 0,
             !.hidden = IF hides THEN @ \cup {st.at} ELSE @,
             !.fence = IF st.comment THEN @ ELSE FenceAfter(line, @)]
WithHeading(st, text, level, first) ==
  [st EXCEPT !.headings = Append(@, [text |-> text, level |-> level, first |-> first, body |-> st.at])]

(* A line that opens, closes or stays in a comment; `next` has counted it.  *)
Commented(st, line, next, after) ==
  [next EXCEPT
     !.comment = after,
     !.opened = IF after /\ ~st.comment THEN st.at ELSE @,
     !.block = IF after THEN @
               ELSE IF line[Len(line)] = Comment THEN <<IF st.comment THEN st.opened ELSE st.at, st.at>>
               ELSE <<0, 0>>]

(* A line of text: a heading, an underline, or text to be underlined.       *)
Shown(st, line, next) ==
  CASE IsAtx(line) -> WithHeading(next, Atx[line[1]].text, Atx[line[1]].level, st.at)
    [] ~IsAtx(line) /\ IsSetext(line, st) -> WithHeading(next, st.text, Underlines[line[1]], st.candidate)
    [] OTHER -> IF IsParagraph(line) THEN [next EXCEPT !.candidate = st.at, !.text = line[1]] ELSE next

(* The body of the loops of parseHeadings and findTrailingCommentBlockStart. *)
AdvanceAs(st, line, code, hidden, next) ==
  CASE code -> next
    [] ~code /\ hidden -> Commented(st, line, next, CommentAfter(line, st.comment))
    [] OTHER -> Shown(st, line, next)
AdvanceOn(st, line, code, hidden) == AdvanceAs(st, line, code, hidden, Counted(st, line, code \/ hidden))
Advance(st, line) ==
  AdvanceOn(st, line, ~st.comment /\ IsCode(line, st.fence), st.comment \/ Toggles(line) > 0)

Parsed(lines) == FoldLeft(Advance, Start, lines)

(* findTrailingCommentBlockStart *)
BlockAt(lines, st, first) ==
  IF /\ first # 0 /\ lines[first][1] = Comment
     /\ st.comment \/ TextLines(lines, st.block[2] + 1, Len(lines) + 1) = {}
  THEN GreatestOr(TextLines(lines, 1, first), 0) + 1
  ELSE Len(lines) + 1
BlockStart(lines, st) == BlockAt(lines, st, IF st.comment THEN st.opened ELSE st.block[1])
CommentBlockStart(lines) == BlockStart(lines, Parsed(lines))

(* parseHeadings: with the end of each body. *)
SectionsOf(headings, block) ==
  [k \in DOMAIN headings |->
     LET h == headings[k]
         closing == {g.first : g \in {x \in ToSet(headings) : x.first > h.first /\ x.level <= h.level}}
     IN  h @@ [end |-> LeastOr(closing, Max({h.body, block}))]]
SectionsIn(lines, st) == SectionsOf(st.headings, BlockStart(lines, st))
Sections(lines) == SectionsIn(lines, Parsed(lines))

(* linesBeforeFirstHeading ends here. *)
LeadIn(lines, st) == IF st.headings # <<>> THEN st.headings[1].first ELSE BlockStart(lines, st)
LeadEnd(lines) == LeadIn(lines, Parsed(lines))

(* The part of a section above its first child. *)
OwnEnd(lines, h) ==
  LeastOr({g.first : g \in {x \in ToSet(Sections(lines)) : x.first > h.first /\ x.first < h.end}}, h.end)

-----------------------------------------------------------------------------
(* collapseEmptyLineRunsAtEdits: edits are records [at, above, below], at   *)
(* the line the lower side starts on.                                      *)

EmptyRun(lines, at) ==
  {i \in DOMAIN lines :
     \A j \in DOMAIN lines : (i <= j /\ j < at) \/ (at <= j /\ j <= i) => lines[j] = <<>>}
Excess(lines, edits) ==
  LET dropped(e) ==
        LET run == EmptyRun(lines, e.at)
            gaps == UNION {{f.above, f.below} : f \in {x \in edits : EmptyRun(lines, x.at) = run}}
        IN  {i \in run : i - Min(run) >= Max(gaps \cup {1})}
  IN  UNION {dropped(e) : e \in edits}
Collapse(lines, edits) ==
  LET excess == Excess(lines, edits)
  IN  FoldLeftDomain(LAMBDA kept, i : IF i \in excess THEN kept ELSE Append(kept, lines[i]),
                     <<>>, lines)
=============================================================================
