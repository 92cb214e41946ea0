----------------------------- MODULE VaultParts ------------------------------
(***************************************************************************)
(* The parts that share no state with the others.  A behaviour is one of   *)
(* one part: v1, v2, ... stand for that part's variables and the rest stay *)
(* 0.  A constant is a record of what one module's CONSTANTS are.          *)
(***************************************************************************)
EXTENDS Integers, Sequences

CONSTANTS
  Parts,  \* the parts a behaviour may be of
  TaskLines, Boards, Occurrences, Patches, Memory, Properties, \* edits of notes
  Rewrites, Index, Parses, Chunks, Searches, Recalls,           \* links, tags and search
  SignIns                                                       \* setup mode

-----------------------------------------------------------------------------
VARIABLES part, v1, v2, v3, v4, v5, v6, v7, v8, v9, v10, v11, v12, v13, v14
vars == <<part, v1, v2, v3, v4, v5, v6, v7, v8, v9, v10, v11, v12, v13, v14>>

TaskLinePart == INSTANCE TaskLine WITH
  line <- v1, edit <- v2, Format <- TaskLines.Format, Registry <- TaskLines.Registry,
  SetDoneDate <- TaskLines.SetDoneDate, SetCancelledDate <- TaskLines.SetCancelledDate,
  SetCreatedDate <- TaskLines.SetCreatedDate, InitialLines <- TaskLines.InitialLines,
  Descriptions <- TaskLines.Descriptions, Values <- TaskLines.Values,
  Today <- TaskLines.Today, EditFields <- TaskLines.EditFields
TaskBoardPart == INSTANCE TaskBoard WITH
  note <- v1, outcome <- v2, Notes <- Boards.Notes, UpdateCalls <- Boards.UpdateCalls,
  CreateCalls <- Boards.CreateCalls, ReadOffset <- Boards.ReadOffset,
  WrittenOffset <- Boards.WrittenOffset
RecurrencePart == INSTANCE Recurrence WITH
  task <- v1, previous <- v2, dropScheduled <- v3, completions <- v4,
  Tasks <- Occurrences.Tasks, FirstYear <- Occurrences.FirstYear,
  ClockChanges <- Occurrences.ClockChanges,
  CompletionDelays <- Occurrences.CompletionDelays,
  MaxCompletions <- Occurrences.MaxCompletions
SectionEditsPart == INSTANCE SectionEdits WITH
  note <- v1, edit <- v2, Atx <- Patches.Atx, Bodies <- Patches.Bodies,
  Contents <- Patches.Contents, OldTexts <- Patches.OldTexts,
  NewTexts <- Patches.NewTexts, Anchors <- Patches.Anchors
MemoryStorePart == INSTANCE MemoryStore WITH
  memory <- v1, folder <- v2, seeding <- v3, call <- v4, Atx <- Memory.Atx,
  Names <- Memory.Names, Files <- Memory.Files, Templates <- Memory.Templates,
  Dates <- Memory.Dates, Calls <- Memory.Calls, ShrinkFloor <- Memory.ShrinkFloor,
  MaxCalls <- Memory.MaxCalls
NotePropertiesPart == INSTANCE NoteProperties WITH
  note <- v1, last <- v2, calls <- v3, Notes <- Properties.Notes,
  Bodies <- Properties.Bodies, Properties <- Properties.Properties,
  MaxCalls <- Properties.MaxCalls
ChunkerPart == INSTANCE Chunker WITH
  note <- v1, metadata <- v2, phase <- v3, chunks <- v4,
  Notes <- Chunks.Notes, Metadata <- Chunks.Metadata, TitleTokens <- Chunks.TitleTokens,
  TocTitleTokens <- Chunks.TocTitleTokens, Threshold <- Chunks.Threshold,
  MaxTokens <- Chunks.MaxTokens, MinTokens <- Chunks.MinTokens
HybridSearchPart == INSTANCE HybridSearch WITH
  rows <- v1, changes <- v2, query <- v3, fts <- v4, hits <- v5, merged <- v6,
  results <- v7, seen <- v8, Notes <- Searches.Notes, Files <- Searches.Files,
  Order <- Searches.Order, NoteRows <- Searches.NoteRows, FileRows <- Searches.FileRows,
  Limits <- Searches.Limits, MaxChanges <- Searches.MaxChanges
\* LinkRewrites (Move), LinkIndex (Links), BodyTags (Tags), MemoryRecall (Recall) and
\* SetupMode (Setup).
Part == INSTANCE PartTheorems WITH
  vault <- v1, link <- v2, move <- v3, RewriteOrder <- Rewrites.PathOrder,
  RewriteNotes <- Rewrites.NotePaths, AssetPaths <- Rewrites.AssetPaths,
  Targets <- Rewrites.Targets,
  notes <- v1, files <- v2, written <- v3, links <- v4, canvasNotes <- v5,
  PathOrder <- Index.PathOrder, NotePaths <- Index.NotePaths,
  FilePaths <- Index.FilePaths, Canvases <- Index.Canvases, Written <- Index.Written,
  saved <- v1, bodies <- v2, row <- v3, ofRebuild <- v4, before <- v5,
  token <- v6, pass <- v7, passMode <- v8, queue <- v9, active <- v10,
  worker <- v11, answer <- v12, busy <- v13, closed <- v14,
  PassOrder <- Parses.PassOrder, Tagless <- Parses.Tagless, MaxBodies <- Parses.MaxBodies,
  memories <- v1, entered <- v2, nextId <- v3, embeddings <- v4, sources <- v5,
  embeds <- v6, revised <- v7, recall <- v8, candidates <- v9, recalled <- v10,
  searchMode <- v11, atCall <- v12, stayed <- v13, MemoryFiles <- Recalls.Files,
  MemoryContents <- Recalls.Contents, NoMemory <- Recalls.Gone, AnyFile <- Recalls.AnyFile,
  Limits <- Recalls.Limits, Scores <- Recalls.Scores, VectorLimit <- Recalls.VectorLimit,
  RerankLimit <- Recalls.RerankLimit, MaxChanges <- Recalls.MaxChanges,
  now <- v1, server <- v2, boots <- v3, requests <- v4, pending <- v5,
  forms <- v6, paths <- v7, contents <- v8, since <- v9, tries <- v10,
  published <- v11, overlapped <- v12, Requests <- SignIns.Requests,
  None <- SignIns.None, TTL <- SignIns.TTL, MaxTime <- SignIns.MaxTime,
  MaxForms <- SignIns.MaxForms, MaxBoots <- SignIns.MaxBoots

ASSUME RewriteAssumption == Part!Move!RewriteParameters
ASSUME LinkAssumption == Part!Links!LinkParameters
ASSUME TagAssumption == Part!TagParameters
ASSUME RecallAssumption == Part!Recall!RecallParameters
ASSUME SetupAssumption == Part!SetupParameters

\* The variables a part does not use.
Idle14 == v14 = 0
Idle13 == v13 = 0 /\ Idle14
Idle12 == v12 = 0 /\ Idle13
Idle11 == v11 = 0 /\ Idle12
Idle10 == v10 = 0 /\ Idle11
Idle9 == v9 = 0 /\ Idle10
Idle8 == v8 = 0 /\ Idle9
Idle7 == v7 = 0 /\ Idle8
Idle6 == v6 = 0 /\ Idle7
Idle5 == v5 = 0 /\ Idle6
Idle4 == v4 = 0 /\ Idle5
Idle3 == v3 = 0 /\ Idle4

rest14 == <<v14>>
rest13 == <<v13, rest14>>
rest9 == <<v9, v10, v11, v12, rest13>>
rest6 == <<v6, v7, v8, rest9>>
rest5 == <<v5, rest6>>
rest4 == <<v4, rest5>>
rest3 == <<v3, rest4>>

Init ==
  /\ part \in Parts
  /\ \/ part = "task line" /\ TaskLinePart!Init /\ Idle3
     \/ part = "task board" /\ TaskBoardPart!Init /\ Idle3
     \/ part = "recurrence" /\ RecurrencePart!Init /\ Idle5
     \/ part = "sections" /\ SectionEditsPart!Init /\ Idle3
     \/ part = "memory" /\ MemoryStorePart!Init /\ Idle5
     \/ part = "properties" /\ NotePropertiesPart!Init /\ Idle4
     \/ part = "link rewrites" /\ Part!Move!Init /\ Idle4
     \/ part = "link index" /\ Part!Links!Init /\ Idle6
     \/ part = "body tags" /\ Part!Tags!Init
     \/ part = "chunks" /\ ChunkerPart!Init /\ Idle5
     \/ part = "search" /\ HybridSearchPart!Init /\ Idle9
     \/ part = "recall" /\ Part!Recall!Init /\ Idle14
     \/ part = "setup" /\ Part!Setup!Init /\ Idle13

Next ==
  \/ part = "task line" /\ TaskLinePart!Next /\ UNCHANGED <<part, rest3>>
  \/ part = "task board" /\ TaskBoardPart!Next /\ UNCHANGED <<part, rest3>>
  \/ part = "recurrence" /\ RecurrencePart!Next /\ UNCHANGED <<part, rest5>>
  \/ part = "sections" /\ SectionEditsPart!Next /\ UNCHANGED <<part, rest3>>
  \/ part = "memory" /\ MemoryStorePart!Next /\ UNCHANGED <<part, rest5>>
  \/ part = "properties" /\ NotePropertiesPart!Next /\ UNCHANGED <<part, rest4>>
  \/ part = "link rewrites" /\ Part!Move!Next /\ UNCHANGED <<part, rest4>>
  \/ part = "link index" /\ Part!Links!Next /\ UNCHANGED <<part, rest6>>
  \/ part = "body tags" /\ Part!Tags!Next /\ UNCHANGED part
  \/ part = "chunks" /\ ChunkerPart!Next /\ UNCHANGED <<part, rest5>>
  \/ part = "search" /\ HybridSearchPart!Next /\ UNCHANGED <<part, rest9>>
  \/ part = "recall" /\ Part!Recall!Next /\ UNCHANGED <<part, rest14>>
  \/ part = "setup" /\ Part!Setup!Next /\ UNCHANGED <<part, rest13>>

Spec == Init /\ [][Next]_vars

(* module BodyTags says why the parser makes progress. *)
Fairness == WF_vars(part = "body tags" /\ Part!Tags!ParserProgress /\ UNCHANGED part)
FairSpec == Spec /\ Fairness
-----------------------------------------------------------------------------
(* The modules' own properties, of the instances above; each is explained   *)
(* where it is defined.                                                     *)

(* Edits of a task line (tasks.ts) reach only what they are about and read  *)
(* back as submitted, or report that they do not; updateTask and createTask *)
(* (task-mutations.ts) keep every other line, report the lines they wrote,  *)
(* spawn one occurrence and put a card where it was sent.                   *)
TaskEditsAreExact ==
  /\ part = "task line" => TaskLinePart!EditsKeepTheRest /\ TaskLinePart!EditsReadBack
  /\ part = "task board" =>
       /\ TaskBoardPart!OtherLinesKept /\ TaskBoardPart!ReportedLinesAreRight
       /\ TaskBoardPart!OneOpenOccurrence /\ TaskBoardPart!CardsLandWhereSent

(* Completing a repeating task over and over (recurrence.ts) never skips an *)
(* occurrence or repeats one, at the ends of short months either, and keeps *)
(* the distances between its dates, by the days of the server's clock.      *)
OccurrencesStepByTheRule ==
  part = "recurrence" => RecurrencePart!OneIntervalLater /\ RecurrencePart!DatesMoveTogether

(* An edit of one section or of a text (vault-patcher.ts), an entry added   *)
(* to or deleted from a memory file (memory-store.ts) and a change of a     *)
(* note's properties (frontmatter.ts) leave the rest of the note as it was, *)
(* read back the way the next call reads it.  Content that leaves a comment *)
(* open, or holds fences or headings of its own, and memory entries that    *)
(* read as a comment line are excepted: they hide or split what is below.   *)
(* A comment block is no part of an entry: it stays when the entry above is *)
(* deleted, becomes its text when a section is made below, and content that *)
(* ends in a comment may become the block of a note that had none.          *)
NoteEditsKeepTheRest ==
  /\ part = "sections" =>
       /\ SectionEditsPart!OtherSectionsAreKept /\ SectionEditsPart!DisplacementIsReported
       /\ SectionEditsPart!GapsKeepTheWiderSide
  /\ part = "memory" =>
       /\ MemoryStorePart!EntriesAreKept /\ MemoryStorePart!DeletionsTakeOneEntry
       /\ MemoryStorePart!RetriesOfShownEntriesAreSafe
  /\ part = "properties" => NotePropertiesPart!WritesReadBack /\ NotePropertiesPart!BlocksStayUsable

(* A move's rewriting (note-mover.ts) keeps every link leading to its file. *)
(* Of the index's link rows (search-index.ts), kept up to date note by      *)
(* note: no link whose text is not itself a path stays unresolved once a    *)
(* note or file answers it, and the queries over the rows agree with one    *)
(* another.  They need not be the rows the whole vault would give: a link   *)
(* whose note was removed keeps the removed path though another note        *)
(* answers it (StandingLinksLeadNowhere), and one that leads to a file      *)
(* stays with it though a later one would be preferred.                     *)
LinksKeepLeading ==
  /\ part = "link rewrites" => Part!Move!LinksLeadToTheSameFile
  /\ part = "link index" => Part!Links!NoForwardReferenceIsMissed /\ Part!Links!QueriesAgree

(* What the index holds is of the files, though work for it waits, is       *)
(* dropped, fails or is overtaken: a note's tags (search-index.ts,          *)
(* body-tag-parser.ts) are those of the body it holds, and the entries of   *)
(* a memory file with their vectors (upsertMemoryEntries,                   *)
(* embedMemoryEntriesForFile) are what the file says.                       *)
IndexFollowsTheFiles ==
  /\ part = "body tags" =>
       /\ Part!Tags!TagsAreOfTheIndexedBody /\ Part!Tags!LatestBodyIsOnItsWay
       /\ Part!Tags!ParsesNeverOverlap
  /\ part = "recall" => Part!Recall!EntriesMatchTheFiles

(* Whatever the parser's timeouts and restarts, a saved body is indexed.    *)
Behind(n) == part = "body tags" /\ Part!Tags!Behind(n)
BodiesAreIndexed == \A n \in Part!Tags!Notes : Behind(n) ~> ~Behind(n)

(* A search (hybrid-search.ts, rrf.ts) answers with matches of the rows it  *)
(* read, best first; one shorter than its limit lacks no match by words,    *)
(* and no match by vector but where as many chunks as its leg takes, of one *)
(* long note even, are as near.  A recall of memories (search-index.ts)     *)
(* leaves out an entry with all the words only for its limit; every word of *)
(* a note is embedded (chunker.ts).                                         *)
SearchesMissOnlyTheCrowded ==
  /\ part = "search" => HybridSearchPart!AnswersAreTheMatches /\ HybridSearchPart!FusionKeepsAgreement
  /\ part = "recall" => Part!Recall!RecallsAreComplete
  /\ part = "chunks" => ChunkerPart!SectionsAreEmbedded /\ ChunkerPart!ChunksFitTheWindow

(* A sign-in's code (setup-routes.ts) is tried once and in time, and the    *)
(* token it leads to (sync-token-store.ts) is whole whenever the container  *)
(* dies.                                                                    *)
SignInsAreForOneTry == part = "setup" => Part!Setup!CodesAreForOneTry /\ Part!Setup!TokenIsWhole

(* What memory-tools.ts says of a retried call: an exact duplicate is a     *)
(* no-op.                                                                   *)
RetriesAreSafe == part = "memory" => MemoryStorePart!RetriesAreSafe

(* What search-index.ts says of a link row without an answer: no indexed    *)
(* path but a new note's could answer it.                                   *)
StandingLinksLeadNowhere == part = "link index" => Part!Links!StandingLinksLeadNowhere
=============================================================================
