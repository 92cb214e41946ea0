------------------------------ MODULE LinkIndex -----------------------------
(***************************************************************************)
(* The link rows of search/search-index.ts, from which backlinks, outgoing *)
(* links and broken links are read.  A link is stored with the path it     *)
(* resolves to when its source is indexed, else with its text as written;  *)
(* a note or file indexed later takes over the rows that lead to it.  The  *)
(* watcher calls these operations one at a time (module VaultWatcher says  *)
(* when), so each is one step, as its transaction makes it.                *)
(***************************************************************************)
EXTENDS LinkTargets

CONSTANTS
  NotePaths, FilePaths,     \* the paths a vault may hold
  Canvases,                 \* those of FilePaths that are canvases
  Written                   \* the sets of link targets a source may contain

VARIABLES
  notes,        \* the notes table's paths
  files,        \* the non_md_files table's paths
  written,      \* what each indexed source contains
  links,        \* the links table
  canvasNotes   \* cachedCanvasNotePaths: {} when unset, else {the paths cached}

vars == <<notes, files, written, links, canvasNotes>>

Sources == NotePaths \union Canvases

(* Paths are ordered so that one is preferred to another, and canvases are files. *)
LinkParameters ==
  /\ \A p \in NotePaths \union FilePaths : p \in [dir : Seq(STRING), name : Seq(STRING)]
  /\ DOMAIN PathOrder \subseteq Nat
  /\ \A p \in NotePaths \union FilePaths : \E i \in DOMAIN PathOrder : PathOrder[i] = p
  /\ Nowhere \notin NotePaths \union FilePaths
  /\ Canvases \subseteq FilePaths

-----------------------------------------------------------------------------
Row(source, target) == [source |-> source, target |-> target]

(* resolveNonMarkdownFile: the tiers of links.resolveAsset, as queries. *)
ResolveFile(target, filePaths, source) == ResolveAsset(target, filePaths, source)

(* The rows a source's own links are stored as, against the given notes. *)
RowsOf(source, targets, notePaths) ==
  {Row(source, FirstOf(<<Resolve(t, notePaths, source), ResolveFile(t, files, source), t>>)) :
     t \in targets}

RowsExcept(source) == {row \in links : row.source # source}

(* selectUnresolvedLinksStmt *)
Standing(rows, notePaths, filePaths) ==
  {row \in rows : row.target \notin notePaths \union filePaths}

(* updateLinkTargetStmt, for every standing row that a path is found for. *)
Upgraded(rows, found) ==
  {Row(row.source, IF row \in DOMAIN found THEN FirstOf(<<found[row], row.target>>) ELSE row.target) :
     row \in rows}

Init ==
  /\ notes = {} /\ files = {} /\ links = {} /\ canvasNotes = {}
  /\ written = [s \in Sources |-> {}]

(* upsertNote: the note's own rows, then the standing rows against it alone. *)
UpsertNote(p, targets) ==
  LET known == notes \union {p}
      rows == RowsExcept(p) \union RowsOf(p, targets, known)
  IN  /\ links' = Upgraded(rows, [row \in Standing(rows, known, files) |->
                                Resolve(row.target, {p}, row.source)])
      /\ notes' = known
      /\ written' = [written EXCEPT ![p] = targets]
      /\ canvasNotes' = {}
      /\ UNCHANGED files

RemoveNote(p) ==
  /\ p \in notes
  /\ notes' = notes \ {p}
  /\ links' = RowsExcept(p)
  /\ written' = [written EXCEPT ![p] = {}]
  /\ canvasNotes' = {}
  /\ UNCHANGED files

(* Mutant: a name written without the extension is not looked for. *)
MatchesFullName(row, p) == p \in {row.target, Join(row.source, row.target)} \/ EndsIn(p, row.target)

(* matchesNewFile: the rows that the new file may be an answer to. *)
MatchesNewFile(row, p) ==
  LET here == Join(row.source, row.target)
  IN  \/ p \in {row.target, here} \/ Stem(p) \in {row.target, here}
      \/ EndsIn(p, row.target) \/ EndsIn(Stem(p), row.target)

(* upsertNonMdFile *)
UpsertFile(p) ==
  LET known == files \union {p}
      standing == {row \in Standing(links, notes, known) : MatchesNewFile(row, p)}
  IN  /\ files' = known
      /\ links' = Upgraded(links, [row \in standing |-> ResolveFile(row.target, known, row.source)])
      /\ UNCHANGED <<notes, written, canvasNotes>>

(* upsertFileContent, for a canvas: it has links, and reads the cache. *)
UpsertCanvas(c, targets) ==
  LET cached == IF targets = {} \/ canvasNotes # {} THEN canvasNotes ELSE {notes}
  IN  /\ c \in files
      /\ links' = RowsExcept(c) \union RowsOf(c, targets, UNION cached)
      /\ written' = [written EXCEPT ![c] = targets]
      /\ canvasNotes' = cached
      /\ UNCHANGED <<notes, files>>

(* removeNonMdFile and removeFileContent *)
RemoveFile(p) ==
  /\ p \in files
  /\ files' = files \ {p}
  /\ links' = RowsExcept(p)
  /\ written' = IF p \in Canvases THEN [written EXCEPT ![p] = {}] ELSE written
  /\ UNCHANGED <<notes, canvasNotes>>

(* The link pass of rebuildFromVault, over what the vault holds. *)
Rebuild ==
  /\ links' = UNION {RowsOf(s, written[s], notes) : s \in notes \union (files \intersect Canvases)}
  /\ canvasNotes' = {notes}
  /\ UNCHANGED <<notes, files, written>>

Next ==
  \/ \E p \in NotePaths : RemoveNote(p) \/ \E targets \in Written : UpsertNote(p, targets)
  \/ \E p \in FilePaths : UpsertFile(p) \/ RemoveFile(p)
  \/ \E c \in Canvases, targets \in Written : UpsertCanvas(c, targets)
  \/ Rebuild

Spec == Init /\ [][Next]_vars

-----------------------------------------------------------------------------
(* What the tools read of the rows (search/search-queries.ts). *)
Backlinks(p) == {row.source : row \in {r \in links : r.target = p}} \intersect (notes \union files)
OutgoingLinks(s) ==
  {[path |-> row.target, exists |-> row.target \in notes \union files] :
     row \in {r \in links : r.source = s}}
Orphans == {p \in notes : ~\E row \in links : row.target = p /\ row.source # p}
BrokenLinks == {row.target : row \in links} \ (notes \union files)

-----------------------------------------------------------------------------
(* The orphan and broken-link queries read the links table alone, the others *)
(* ask that a link's source is still indexed.  They agree after any sequence *)
(* of upserts and removals: a note is an orphan exactly when nothing else    *)
(* links to it, and a target is broken exactly when some indexed note or     *)
(* canvas has it among its outgoing links as one that does not exist.        *)
QueriesAgree ==
  /\ \A p \in notes : p \in Orphans <=> Backlinks(p) \subseteq {p}
  /\ BrokenLinks = {l.path : l \in {o \in UNION {OutgoingLinks(s) : s \in notes \union files} :
                                     ~o.exists}}

(* A link may be written before the note or file it names exists.  Once it  *)
(* does, by whatever order of upserts, removals and rebuilds, no link that  *)
(* would lead to it is still stored as text, and so missing from backlinks. *)
(* A text that is itself a path is left out: a row cannot tell such a text  *)
(* from a path the link once resolved to (StandingLinksLeadNowhere).        *)
NoForwardReferenceIsMissed ==
  \A row \in Standing(links, notes, files) :
    row.target \in written[row.source] /\ row.target \notin NotePaths \union FilePaths =>
      LeadsTo(row.target, notes, files, row.source) = Nowhere

(* search-index.ts:1731 says that each standing unresolved link has failed  *)
(* against every indexed path.  A row that led to a removed note is one     *)
(* too, and keeps that path, although another note now answers to it.       *)
StandingLinksLeadNowhere ==
  \A row \in Standing(links, notes, files) : Resolve(row.target, notes, row.source) = Nowhere
=============================================================================
