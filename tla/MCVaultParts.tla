---------------------------- MODULE MCVaultParts ----------------------------
(***************************************************************************)
(* Instances of the parts of VaultParts, each small enough to explore in   *)
(* full.                                                                   *)
(***************************************************************************)
EXTENDS VaultParts

CONSTANTS
  n1, n2,       \* notes the parser serves
  a, b, pdf,    \* two notes and a file that searches find
  r1, r2,       \* forms of the sign-in page
  NoFileThere, AnyFile, NoForm

Word(x) == <<x>>
Path(dir, name) == [dir |-> dir, name |-> name]
UpTo(set, n) == UNION {[1..m -> set] : m \in 0..n}

-----------------------------------------------------------------------------
(* Task lines: descriptions that hold a date between words, fields in either *)
(* format, a block id, and lines of no field at all.                         *)
AWord == [kind |-> "word"]
ATag == [kind |-> "tag", value |-> "t"]
Field(kind, value, format) == [kind |-> kind, value |-> value, format |-> format]
ADate == Field("due", "1", "emoji")
ARule == Field("recurrence", "1", "emoji")
MCFields == {ADate, Field("due", "none", "emoji"), ARule, Field("recurrence", "1", "dataview"),
             Field("id", "1", "emoji"), Field("done", "1", "dataview"), ATag}
MCTaskLines ==
  {[box |-> " ", tokens |-> <<>>]}
  \cup {[box |-> k, tokens |-> d \o m \o e] :
          k \in {" ", "!"}, d \in {<<AWord>>, <<ADate, AWord>>, <<AWord, ATag>>}, m \in UpTo(MCFields, 2),
          e \in {<<>>, <<[kind |-> "block", value |-> "a"]>>}}
  \cup {[box |-> " ", tokens |-> <<AWord>> \o d] : d \in UpTo({AWord, ARule, ADate}, 3)}
MCDescriptions == {<<AWord, ATag>>, <<AWord, ADate>>, <<AWord>>}
MCRegistry == << <<" ", "todo">>, <<"!", "in_progress">>, <<"X", "done">>, <<"x", "cancelled">> >>
MCEditFields == {"due", "recurrence", "id", "onCompletion", "created", "dependsOn", "priority"}

-----------------------------------------------------------------------------
(* Boards: repeating cards with subtasks, hidden and nested ones, a Done     *)
(* lane before and after, a "**Complete**" marker, and settings in a comment.*)
ALine == [uid |-> 0, kind |-> "text", indent |-> 0, name |-> "none", hidden |-> FALSE,
          status |-> "none", rule |-> "none", onDone |-> "none", block |-> "none"]
Heading(name, level) == [ALine EXCEPT !.kind = "heading", !.indent = level, !.name = name]
Card(status, indent) == [ALine EXCEPT !.kind = "task", !.status = status, !.indent = indent]
Repeating(status, indent) == [Card(status, indent) EXCEPT !.rule = "readable"]
Of(kind) == [ALine EXCEPT !.kind = kind]
Numbered(lines) == [i \in DOMAIN lines |-> [lines[i] EXCEPT !.uid = i]]
MCBoardLines == {
  <<Heading("Todo", 2), [Repeating("todo", 0) EXCEPT !.block = "a"], Card("todo", 1), Of("blank"),
    Card("todo", 0), Heading("Done", 2), Of("marker"), Card("done", 0),
    [Of("comment") EXCEPT !.hidden = TRUE]>>,
  <<Heading("Done", 2), Of("marker"), Heading("Todo", 2), ALine,
    [Card("todo", 0) EXCEPT !.hidden = TRUE], [Repeating("in_progress", 0) EXCEPT !.onDone = "delete"],
    Card("todo", 2), Heading("Sub", 3), Repeating("todo", 0)>>}
MCBoards == {[lines |-> Numbered(l), kanban |-> k, prepend |-> k, onNextLine |-> n] :
               l \in MCBoardLines, k \in BOOLEAN, n \in BOOLEAN}

-----------------------------------------------------------------------------
(* Repeating tasks around the ends of short months, a leap day, a year, and  *)
(* days on which the clock is set back and forward or that the zone skips.   *)
Rule(unit, interval, day, whenDone) ==
  [unit |-> unit, interval |-> interval, monthDay |-> day, whenDone |-> whenDone, count |-> 0]
EveryMonth == Rule("month", 1, 0, FALSE)
MCRules == {Rule("day", 3, 0, FALSE), EveryMonth, Rule("month", 1, 0, TRUE), Rule("month", 3, 0, FALSE),
            Rule("month", 1, 31, FALSE), Rule("year", 1, 0, FALSE)}
\* Day 0 is January 1, 2023: April 1, 28 and 30, December 28; January 15, 29 and 31,
\* February 28 and 29 and March 31 of the leap year 2024.
MCDueDays == {90, 117, 119, 361, 379, 393, 395, 423, 424, 455}
\* April 29, 2023; January 28 and February 27, 2024.
MCClockChanges == [day \in {118, 392, 422} |->
                     CASE day = 118 -> -60 [] day = 392 -> 24 * 60 [] day = 422 -> 60]
Repeated(rule, due, scheduled, start) ==
  [rule |-> rule, due |-> due, scheduled |-> scheduled, start |-> start]
MCRecurringTasks ==
  {Repeated(r, d, -1, -1) : r \in MCRules, d \in MCDueDays}
  \cup {Repeated(EveryMonth, -1, d, s) : d \in MCDueDays, s \in {-1, 360}}
  \cup {Repeated(EveryMonth, d, d - 1, d + k) : d \in MCDueDays, k \in {-3, 2}}

-----------------------------------------------------------------------------
(* Notes with fences, comments, underlined and repeated headings, and words  *)
(* that occur more than once.                                                *)
B == <<>>
MCAtx == [w \in {"#A", "##A", "##B", "###C"} |->
  [level |-> CASE w = "#A" -> 1 [] w = "###C" -> 3 [] OTHER -> 2,
   text |-> CASE w = "##B" -> "B" [] w = "###C" -> "C" [] OTHER -> "A"]]
MCBodies == {
  <<Word("x"), B, Word("##A"), Word("y"), B, B, Word("###C"), Word("z"), B, Word("##B"), B, Word("x"),
    B, <<"%%", "k">>, Word("##B"), Word("%%")>>,
  <<Word("#A"), Word("ticks"), Word("##B"), Word("ticks"), Word("y"), Word("---"), Word("x"), B>>,
  <<Word("sp"), Word("x"), Word("==="), B, Word("y"), B, Word("##B"), Word("y"), B, Word("##B"), Word("z")>>,
  <<B, Word("x"), B, B, <<"x", "y">>, B, Word("x"), Word("y"), B, B>>,
  <<<<">", "ticks">>, Word("#A"), Word("ticks"), Word("##A"), Word("longer ticks"), Word("##B"), Word("ticks")>>,
  <<<<"%%", "k", "%%">>>>,
  <<Word("##A"), Word("---"), Word("y"), B, <<"%%", "k", "%%">>, B>>}
MCContents == {<<Word("n")>>, <<B, Word("n"), B, B>>, <<Word("##B"), Word("n"), B>>, <<B, B>>, <<Word("#A")>>,
               <<Word("n"), <<"%%", "n", "%%">>>>, <<<<"%%", "n">>, Word("%%")>>, <<Word("%%")>>}
MCOldTexts == {Word("x"), Word("y"), <<"x", "\n">>, <<"\n", "x">>, <<"\n">>, <<"\n", "\n">>, <<"y", "\n", "\n">>}
MCNewTexts == {<<>>, Word("n"), <<"n", "\n">>}

-----------------------------------------------------------------------------
(* A memory file with a section twice, one in another case and one a letter  *)
(* off, entries of two lines and fences between them, and a comment block    *)
(* with an entry in it at the end.  One call's entry reads as a comment.     *)
MCHeads == {"Tools (n)", "tools (n)", "Toolz (n)", "Views", "Views (n)", "in 1 (n)", "in 2 (n)"}
MCMemoryAtx == [w \in {"#T", "###S"} \cup {"##" \o t : t \in MCHeads} |->
  [level |-> CASE w = "#T" -> 1 [] w = "###S" -> 3 [] OTHER -> 2,
   text |-> CASE w = "#T" -> "T" [] w = "###S" -> "S"
              [] OTHER -> CHOOSE t \in MCHeads : w = "##" \o t]]
Name(heading, fold, form) == [heading |-> heading, fold |-> fold, form |-> form]
Tools == <<"t", "o", "o", "l", "s">>
MCNames ==
  [n \in {"Tools", "tools", "tools (n)", "Toolz (n)", "Tools (n)", "Toolz", "Views", "Views (n)",
          "in 1", "in 1 (n)", "in 2", "in 2 (n)"} |->
    CASE n \in {"Tools", "Tools (n)"} -> Name("Tools (n)", "tools (n)", Tools)
      [] n \in {"tools", "tools (n)"} -> Name("tools (n)", "tools (n)", Tools)
      [] n \in {"Toolz", "Toolz (n)"} -> Name("Toolz (n)", "toolz (n)", [Tools EXCEPT ![5] = "z"])
      [] n = "Views" -> Name("Views (n)", "views", <<"v", "i", "e", "w", "s">>)
      [] n = "Views (n)" -> Name("Views (n)", "views (n)", <<"v", "i", "e", "w", "s">>)
      [] n \in {"in 1", "in 1 (n)"} -> Name("in 1 (n)", "in 1 (n)", <<"i", "n", "x", "y", "1">>)
      [] n \in {"in 2", "in 2 (n)"} -> Name("in 2 (n)", "in 2 (n)", <<"i", "n", "x", "y", "2">>)]
AnEntry(day, word) == <<"-", day, word>>
MCMemoryFile ==
  <<Word("#T"), B, Word("##Tools (n)"), Word("ticks"), AnEntry("d1", "p"), Word("ticks"), AnEntry("d1", "p"),
    Word("more"), B, AnEntry("d2", "p"), Word("ticks"), Word("##Tools (n)"), Word("ticks"), B, Word("###S"),
    Word("s"), B, Word("##Views"), Word("text"), B, Word("##in 1 (n)"), AnEntry("d1", "q"), Word("more"), B,
    <<"%%", "k">>, AnEntry("d1", "q"), Word("%%")>>
MCMemoryFiles == [n \in {"a", "b"} |-> IF n = "a" THEN MCMemoryFile ELSE <<Word("no file")>>]
MCTemplates == [n \in {"a"} |-> <<Word("#T"), B, Word("##Tools (n)"), B>>]
MCCalls == {<<"Tools", "d1", <<"p">>>>, <<"tools", "d2", <<"q">>>>, <<"Toolz", "d1", <<"p">>>>,
            <<"Views", "d1", <<"q">>>>, <<"in 1", "d1", <<"q">>>>, <<"in 2", "d1", <<"q">>>>,
            <<"Tools", "d1", <<"q", "%%">>>>}
MCCommentCalls == {<<"Tools", "d1", <<"q">>>>, <<"Tools", "d1", <<"q", "%%">>>>}

-----------------------------------------------------------------------------
(* Texts of every opening: fences that close, stay open or go on, blocks of  *)
(* properties, text, a tag, no YAML, and none.                               *)
Entry(key, value) == <<"entry", key, value>>
MCTexts == UpTo({<<"---">>, <<"---", "text">>, Entry("a", 1), Entry("b", 0), <<"tag", "a">>, <<"text">>,
                 <<"bad">>, <<"">>}, 3) \cup
  {<<<<"---">>, l, <<"---">>, k>> : l \in {Entry("a", 1), <<"text">>, <<"bad">>}, k \in {<<"">>, <<"---">>}}
MCNewBodies == {<<<<"">>>>, <<<<"text">>>>, <<<<"---">>, Entry("a", 1), <<"---">>, <<"text">>, <<"">>>>,
                <<<<"---">>, <<"text">>, <<"---">>>>, <<<<"---">>, <<"---">>>>, <<<<"---", "text">>, <<"---">>>>}
MCProperties == {<<>>, <<Entry("a", 0)>>, <<Entry("b", 2)>>, <<Entry("b", 1), Entry("a", 2)>>}

-----------------------------------------------------------------------------
(* Vaults in which notes and files share a name in several folders.          *)
X == <<"x">>
Xmd == <<"x", "md">>
Ymd == <<"y", "md">>
Xpng == <<"x", "png">>
MCRewriteOrder ==
  <<Path(<<>>, X), Path(<<>>, Xmd), Path(<<>>, Xpng), Path(<<"a">>, X), Path(<<"a">>, Xmd), Path(<<"b">>, Ymd),
    Path(<<"a">>, Xpng), Path(<<"b">>, Xpng), Path(<<"c", "a">>, Xmd)>>
MCRewriteNotes == {Path(<<>>, Xmd), Path(<<"b">>, Ymd), Path(<<"a">>, Xmd), Path(<<"c", "a">>, Xmd)}
MCRewriteAssets == {Path(<<"a">>, Xpng), Path(<<>>, Xpng)}
MCTargets == {Path(d, n) : d \in {<<>>, <<"a">>, <<"..">>, <<"..", "a">>}, n \in {X, Xmd, Xpng}}

MCIndexOrder ==
  <<Path(<<>>, X), Path(<<>>, Xmd), Path(<<"a">>, X), Path(<<"a">>, Xmd), Path(<<"b">>, Ymd),
    Path(<<"c", "a">>, Xmd), Path(<<"a">>, <<"x", "canvas">>)>>
MCIndexNotes == {Path(<<"a">>, Xmd), Path(<<"c", "a">>, Xmd), Path(<<"b">>, Ymd)}
MCIndexFiles == {Path(<<"a">>, <<"x", "canvas">>)}
MCWritten == {{}} \cup {{Path(d, X)} : d \in {<<>>, <<"..", "a">>}}

-----------------------------------------------------------------------------
(* Bodies of up to four blocks; index rows that match more or fewer terms,   *)
(* with no chunk, one, or as many as fill a leg, some of them equally near;   *)
(* memory files with an entry twice, and one that only the vectors find.     *)
Block(level, size) == [level |-> level, size |-> size]
MCBlocks == {Block(0, 1), Block(0, 4), Block(0, 11), Block(1, 1), Block(2, 2), Block(3, 1), Block(3, 0)}
MCBlockNotes == UpTo(MCBlocks, 4) \ {<<>>}
MCLongNote == <<2, 2, 3, 3, 4, 4>>
MCNoteRows ==
  {[terms |-> t, chunks |-> c, passes |-> TRUE] : t \in {0, 2}, c \in {<<>>, <<1>>}}
  \cup {[terms |-> 0, chunks |-> MCLongNote, passes |-> TRUE],
         [terms |-> 2, chunks |-> MCLongNote, passes |-> FALSE]}
MCFileRows == {[terms |-> 1, chunks |-> <<>>, passes |-> TRUE],
               [terms |-> 0, chunks |-> <<2, 2>>, passes |-> FALSE],
               [terms |-> 2, chunks |-> <<1>>, passes |-> TRUE]}
Fact(words, distance) == [words |-> words, distance |-> distance]
MCMemories == {<<Fact("all", 40), Fact("all", 40)>>, <<Fact("some", 20), Fact("all", 40)>>}

-----------------------------------------------------------------------------
(* What the calls of the board ask for. *)
MCUpdateCalls ==
  [status: {"none", "todo", "done"}, onDone: {"none", "delete"}, heading: {"none", "Todo", "Done"},
   position: {<<>>, <<"bottom">>, <<"at", 2>>}, checklist: {0}, block: {"none"}]
  \cup
  [status: {"none", "done"}, onDone: {"none"}, heading: {"none", "Done"},
   position: {<<>>, <<"at", 2>>}, checklist: {0, 2}, block: {"none", "n"}]
MCCreateCalls ==
  [heading: {"none", "Todo"}, position: {<<>>, <<"top">>, <<"bottom">>, <<"at", 3>>}, checklist: {0, 2},
   block: {"none", "a"}, parent: {"none", "a"}]

-----------------------------------------------------------------------------
(* The parts' constants. *)
MCTaskLineConstants ==
  [Format |-> "emoji", Registry |-> MCRegistry, SetDoneDate |-> TRUE,
   SetCancelledDate |-> FALSE, SetCreatedDate |-> TRUE, InitialLines |-> MCTaskLines,
   Descriptions |-> MCDescriptions, Values |-> {"1", "2"}, Today |-> "3",
   EditFields |-> MCEditFields]
MCBoardConstants ==
  [Notes |-> MCBoards, UpdateCalls |-> MCUpdateCalls, CreateCalls |-> MCCreateCalls,
   ReadOffset |-> 4, WrittenOffset |-> 6]
MCOccurrenceConstants ==
  [Tasks |-> MCRecurringTasks, FirstYear |-> 2023, ClockChanges |-> MCClockChanges,
   CompletionDelays |-> {0, 40}, MaxCompletions |-> 3]
MCSectionConstants ==
  [Atx |-> MCAtx, Bodies |-> MCBodies, Contents |-> MCContents, OldTexts |-> MCOldTexts,
   NewTexts |-> MCNewTexts, Anchors |-> {"x", "y", "##B", "k"}]
MemoryConstants(calls) ==
  [Atx |-> MCMemoryAtx, Names |-> MCNames, Files |-> MCMemoryFiles,
   Templates |-> MCTemplates, Dates |-> {"d1", "d2"}, Calls |-> calls,
   ShrinkFloor |-> 12, MaxCalls |-> 2]
MCMemoryConstants == MemoryConstants(MCCalls)
MCCommentConstants == MemoryConstants(MCCommentCalls)
MCPropertyConstants ==
  [Notes |-> MCTexts, Bodies |-> MCNewBodies, Properties |-> MCProperties, MaxCalls |-> 1]
MCRewriteConstants ==
  [PathOrder |-> MCRewriteOrder, NotePaths |-> MCRewriteNotes,
   AssetPaths |-> MCRewriteAssets, Targets |-> MCTargets]
MCIndexConstants ==
  [PathOrder |-> MCIndexOrder, NotePaths |-> MCIndexNotes, FilePaths |-> MCIndexFiles,
   Canvases |-> MCIndexFiles, Written |-> MCWritten]
MCTagConstants == [PassOrder |-> <<n1, n2>>, Tagless |-> {3}, MaxBodies |-> 3]
MCChunkConstants ==
  [Notes |-> MCBlockNotes, Metadata |-> {0, 2, 6}, TitleTokens |-> 1,
   TocTitleTokens |-> 3, Threshold |-> 10, MaxTokens |-> 9, MinTokens |-> 2]
MCSearchConstants ==
  [Notes |-> {a, b}, Files |-> {pdf}, Order |-> <<a, pdf, b>>, NoteRows |-> MCNoteRows,
   FileRows |-> MCFileRows, Limits |-> {1, 2}, MaxChanges |-> 1]
MCRecallConstants ==
  [Files |-> {1, 2}, Contents |-> MCMemories, Gone |-> NoFileThere, AnyFile |-> AnyFile,
   Limits |-> {1, 5}, Scores |-> {5, 9000}, VectorLimit |-> 3, RerankLimit |-> 2,
   MaxChanges |-> 2]
MCSignInConstants ==
  [Requests |-> {r1, r2}, None |-> NoForm, TTL |-> 1, MaxTime |-> 1, MaxForms |-> 2,
   MaxBoots |-> 2]
=============================================================================
