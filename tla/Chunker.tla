------------------------------- MODULE Chunker -------------------------------
(* How a note's body is cut into the chunks that are embedded                *)
(* (search/chunker.ts).  A body is a sequence of blocks, parted by blank     *)
(* lines: a heading (level 1..6) or a paragraph (level 0), each with the     *)
(* number of words that its markup-free text keeps; the k-th word of block i *)
(* is <<i, k>>.  A token is a word, as in approximateTokenCount.             *)
EXTENDS Integers, Sequences, SequencesExt

CONSTANTS
  Notes,          \* the bodies: sequences of [level, size]
  Metadata,       \* sizes of the metadata line, 0 where the note has neither type nor tags
  TitleTokens,    \* tokens of the note's title
  TocTitleTokens, \* tokens of the table of contents' first line: folders and title
  Threshold,      \* CHUNK_THRESHOLD_TOKENS
  MaxTokens,      \* MAX_CHUNK_TOKENS
  MinTokens       \* MIN_CHUNK_TOKENS

VARIABLES note, metadata, phase, chunks
vars == <<note, metadata, phase, chunks>>

(* A chunk: the headings its Section line names, its metadata line's size,   *)
(* and the words after the prefix; toc marks the table of contents.          *)
ChunkOf(path, meta, words, toc) == [path |-> path, meta |-> meta, words |-> words, toc |-> toc]

Larger(a, b) == IF a > b THEN a ELSE b
WordsOf(i) == [k \in 1..note[i].size |-> <<i, k>>]

(* The paragraphs of the blocks from..to that keep any words.                *)
Paragraphs(from, to) ==
  SelectSeq([j \in 1..(to - from + 1) |-> WordsOf(from + j - 1)], LAMBDA p : p # <<>>)

(* splitLargeText's accumulation: the last fragment takes the next paragraph *)
(* unless the two exceed the budget together.                                *)
Packed(paragraphs, budget) ==
  LET upTo[n \in 0..Len(paragraphs)] ==
        IF n = 0 THEN <<>>
        ELSE LET before == upTo[n - 1] next == paragraphs[n]
             IN  IF before = <<>> THEN <<next>>
                 ELSE IF Len(Last(before)) + Len(next) > budget THEN Append(before, next)
                 ELSE Append(Front(before), Last(before) \o next)
  IN  upTo[Len(paragraphs)]

(* splitOversizedParagraph                                                   *)
WordRuns(words, budget) ==
  [r \in 1..((Len(words) + budget - 1) \div budget) |->
     SubSeq(words, (r - 1) * budget + 1, IF r * budget < Len(words) THEN r * budget ELSE Len(words))]

SplitOversized(fragments, budget) ==
  FlattenSeq([f \in DOMAIN fragments |->
    IF Len(fragments[f]) > budget THEN WordRuns(fragments[f], budget) ELSE <<fragments[f]>>])
SplitLargeText(paragraphs, budget) == SplitOversized(Packed(paragraphs, budget), budget)

(* A trailing fragment below the minimum joins its predecessor.              *)
WithTrailingMerge(fragments) ==
  LET n == Len(fragments)
  IN  IF n < 2 \/ Len(fragments[n]) >= MinTokens THEN fragments
      ELSE Append(SubSeq(fragments, 1, n - 2), fragments[n - 1] \o fragments[n])
SplitWithTrailingMerge(paragraphs, budget) == WithTrailingMerge(SplitLargeText(paragraphs, budget))

Headings == SelectSeq([i \in DOMAIN note |-> i], LAMBDA i : note[i].level > 0)

(* "Section: A > B > C": the label and each separator are tokens too.        *)
SectionTokens(path) ==
  IF path = <<>> THEN 0
  ELSE LET sum[n \in 0..Len(path)] == IF n = 0 THEN 0 ELSE sum[n - 1] + note[path[n]].size
       IN  Len(path) + sum[Len(path)]
PrefixTokens(path, meta) == TitleTokens + meta + SectionTokens(path)
BudgetAfterPrefix(prefix) == Larger(MaxTokens - prefix, MinTokens)
SectionLineBudget == Larger(MaxTokens - MinTokens - TitleTokens - metadata, 0)

(* The outermost ancestors go first; the deepest segment always stays unless *)
(* the budget cannot hold the label.                                         *)
CapHeadingPath(path) ==
  LET n == Len(path)
      fits(k) == SectionTokens(SubSeq(path, k, n)) <= SectionLineBudget
      kept == {k \in 1..n : fits(k) \/ k = n}
  IN  IF SectionLineBudget < 1 \/ n = 0 THEN <<>>
      ELSE SubSeq(path, CHOOSE k \in kept : \A l \in kept : k <= l, n)

Top == CHOOSE l \in 1..6 : (\E h \in Range(Headings) : note[h].level = l)
                           /\ \A h \in Range(Headings) : note[h].level >= l
HasPreamble == \E i \in 1..(Headings[1] - 1) : note[i].size > 0
(* A lone top-level heading that opens the note: the "# Title" wrapper.      *)
HasSingletonWrapper ==
  /\ note[Headings[1]].level = Top
  /\ \A h \in Range(Headings) : note[h].level = Top => h = Headings[1]
  /\ ~HasPreamble

(* The named headings above h, outermost first, and h itself.                *)
HeadingPath(h) ==
  SelectSeq(Headings, LAMBDA a :
    /\ note[a].size > 0
    /\ \/ a = h
       \/ /\ a < h /\ note[a].level < note[h].level
          /\ \A b \in Range(Headings) : a < b /\ b < h => note[b].level > note[a].level)

SubtreeEnd(h) ==
  LET later == {b \in Range(Headings) : b > h /\ note[b].level <= note[h].level}
  IN  IF later = {} THEN Len(note) ELSE (CHOOSE b \in later : \A c \in later : b <= c) - 1
OwnEnd(h) ==
  LET later == {b \in Range(Headings) : b > h}
  IN  IF later = {} THEN Len(note) ELSE (CHOOSE b \in later : \A c \in later : b <= c) - 1

(* A top-level heading owns its whole subtree, a deeper one its own lines.   *)
ChunksOf(fragments, path) == [f \in DOMAIN fragments |-> ChunkOf(path, metadata, fragments[f], FALSE)]
SectionUnder(path, text) ==
  ChunksOf(SplitWithTrailingMerge(text, BudgetAfterPrefix(PrefixTokens(path, metadata))), path)
SectionChunks(h) ==
  LET isTop == note[h].level = Top
  IN  SectionUnder(IF isTop /\ HasSingletonWrapper THEN <<>> ELSE CapHeadingPath(HeadingPath(h)),
                   Paragraphs(h + 1, IF isTop THEN SubtreeEnd(h) ELSE OwnEnd(h)))

(* buildTableOfContentsText: names in order, one that does not fit skipped.  *)
TocNames ==
  LET upTo[n \in 0..Len(Headings)] ==
        IF n = 0 THEN <<>>
        ELSE IF note[Headings[n]].size = 0
                \/ Len(upTo[n - 1]) + note[Headings[n]].size > MaxTokens - TocTitleTokens
             THEN upTo[n - 1]
             ELSE upTo[n - 1] \o WordsOf(Headings[n])
  IN  upTo[Len(Headings)]
TableOfContents == IF TocNames = <<>> THEN <<>> ELSE <<ChunkOf(<<>>, 0, TocNames, TRUE)>>

PlainChunks(fragments) == ChunksOf(fragments, <<>>)
WholeBody == PlainChunks(<<FlattenSeq(Paragraphs(1, Len(note)))>>)
BaseBudget == BudgetAfterPrefix(PrefixTokens(<<>>, metadata))
BodyTokens == Len(FlattenSeq(Paragraphs(1, Len(note))))
SplitBody(to) == PlainChunks(SplitWithTrailingMerge(Paragraphs(1, to), BaseBudget))

AllChunks ==
  SplitBody(Headings[1] - 1)
    \o FlattenSeq([n \in DOMAIN Headings |-> SectionChunks(Headings[n])]) \o TableOfContents
OrWholeBody(all) == IF all = <<>> THEN WholeBody ELSE all

ChunkContent ==
  IF BodyTokens < Threshold
  THEN IF metadata > 0 /\ BodyTokens > BaseBudget THEN SplitBody(Len(note)) ELSE WholeBody
  ELSE IF Headings = <<>> THEN SplitBody(Len(note)) ELSE OrWholeBody(AllChunks)

Init == note \in Notes /\ metadata \in Metadata /\ phase = "read" /\ chunks = <<>>
Split == phase = "read" /\ phase' = "split" /\ chunks' = ChunkContent /\ UNCHANGED <<note, metadata>>
Next == Split
Spec == Init /\ [][Next]_vars
-----------------------------------------------------------------------------
BodyChunks == SelectSeq(chunks, LAMBDA c : ~c.toc)
HasText(i) == note[i].level = 0 /\ note[i].size > 0
BySections == Headings # <<>> /\ BodyTokens >= Threshold
WordsIn(of) == FlattenSeq([c \in DOMAIN of |-> of[c].words])

(* Whatever the note's shape - headings that skip levels, a deeper heading   *)
(* before the first top-level one, empty sections, paragraphs over the       *)
(* budget - no paragraph leaves the vector index: each of its words is in a  *)
(* body chunk; the chunks whose Section line ends in a deeper heading are    *)
(* that heading's own lines in order, before those of its nameless children  *)
(* (two views: see collectSectionSpans); the first chunk, which the reranker *)
(* reads as title and intro, is the table of contents only where the note    *)
(* has no text to open with.                                                 *)
SectionsAreEmbedded ==
  phase = "split" =>
    /\ chunks # <<>>
    /\ \A i \in DOMAIN note : HasText(i) =>
         \A k \in 1..note[i].size : \E c \in Range(BodyChunks) : <<i, k>> \in Range(c.words)
    /\ (\E i \in DOMAIN note : HasText(i)) => ~chunks[1].toc
    /\ BySections /\ SectionLineBudget > 0 =>
         \A h \in Range(Headings) : note[h].level > Top /\ note[h].size > 0 =>
           IsPrefix(FlattenSeq(Paragraphs(h + 1, OwnEnd(h))),
                    WordsIn(SelectSeq(BodyChunks, LAMBDA c : c.path # <<>> /\ Last(c.path) = h)))

(* The embedder and the reranker cut what exceeds their window, so a chunk's *)
(* tail must not be pushed out of it by its own prefix: a chunk exceeds the  *)
(* budget by less than the trailing merge can add, except where the title,   *)
(* the metadata or one heading alone is already too long, or the note is     *)
(* short and has no metadata: those stay one chunk.                          *)
ChunksFitTheWindow ==
  phase = "split" => \A n \in DOMAIN chunks :
    LET c == chunks[n] prefix == PrefixTokens(c.path, c.meta) IN
    IF c.toc THEN n = Len(chunks) /\ TocTitleTokens + Len(c.words) <= MaxTokens
    ELSE /\ Len(c.path) > 1 => prefix <= MaxTokens - MinTokens
         /\ \/ prefix + Len(c.words) < Larger(MaxTokens, prefix + MinTokens) + MinTokens
            \/ Len(chunks) = 1 /\ metadata = 0 /\ Len(c.words) < Threshold
            \/ Len(chunks) = 1 /\ (\A i \in DOMAIN note : ~HasText(i))
=============================================================================
