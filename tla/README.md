# A verification project for Vault Cortex

Vault Cortex is an MCP server that reads, searches and writes an Obsidian vault.
This directory holds TLA+ specifications of the parts of it whose correctness
depends on order, timing or failure, the TLC configurations that model-check them
on small instances, and theorems that the TLA+ proof system (TLAPS) checks for
every instance. `PROJECT.json` is the index: the components, the runs, the lines
of the repository each definition stands for, the hazards, the findings and the
theorems.

## The system

One Node process (`src/src/vault-mcp/server.ts`) serves MCP requests over HTTP.
JavaScript runs one turn of the event loop at a time; everything between two
`await`s is atomic with respect to the rest of the process. What it is not atomic
with respect to is the host: Obsidian, Obsidian Sync and the user change the same
files at any moment. SQLite statements are synchronous; a transaction is atomic
for crashes, two statements in one turn are not.

| Part | State | Operations | Talks to | What is hard |
| --- | --- | --- | --- | --- |
| File write locks (`utils/file-write-lock.ts`) | map from folded path to the last write's promise | queueing write, fail-fast write over one or more files, clean-up | every writer of notes | calls over several keys, failing writes, stranded or lost locks |
| OAuth provider (`oauth/oauth-provider.ts`, `jwt.ts`) | SQLite: clients, refresh tokens, consumed tokens, revocations; memory: pending requests and codes | register, authorize, approve, deny, exchange, refresh, revoke, verify, boot | routes, consent page | replays, expiry against purges, crashes between rows |
| Vault watcher (`search/file-watcher.ts`) | held events, event tokens, chokidar's watched tree | hold, rebuild, apply, live add/change/unlink, rescan | search index, file system | slow reads, events missed, changes during the rebuild |
| Search index (`search/search-index.ts`) | SQLite: notes, FTS, links, tags, chunks, vectors, trash rows; memory: source versions | upsert, remove, rebuild, embed | watcher, embedder, trash | long embedding work over changing content, crashes |
| Trash (`vault-filesystem.ts` `deleteNote`, `trash-sweeper.ts`) | `.trash/` files, `trash_entries` rows | delete, sweep, boot purge | locks, host | the host moves files in between; deletion is final |
| Note mover, memory store, patcher, tasks (`vault-operations/`) | notes on disk | read-modify-write of one or many notes | locks, parsers | partial failure over many files |
| Obsidian Markdown (`obsidian-markdown/`) | none | parse and edit text | writers, index | boundary cases of syntax and dates |
| Queries and ranking (`search/`) | read-only; reranker model | keyword, vector and hybrid search, paging | index, models | fallback when a model is absent |
| Body tag parser (`search/body-tag-parser.ts`) | worker thread, requests in flight | parse with timeout, restart | index, watcher | late answers, dead workers |
| MCP layer (`mcp-core/`) | none between requests | tools, prompts, gates | everything above | exposure of tools by mode |
| Setup mode and container start (`setup/`, `rootfs/`) | token file, service state | sign in, store, restart, first sync | s6, Obsidian | order of services, retries |
| CLI (`cli/src/`) | `.env`, containers | init, configure, upgrade, life cycle | docker | interrupted set-ups |

## Modules

| Module | Models | Checked by |
| --- | --- | --- |
| `AtomicFileUpdates` | abstract: an operation that resolves is one step on all its files, in the order of the calls; one that throws may leave its update in some | refinement in `MCFileWriteLock` |
| `FileWriteLock` | the lock helpers and a read-modify-write under them | `MCFileWriteLock`, `FileWriteLockProofs` |
| `OAuthProvider` | the provider with its database, its memory and its clients | `MCOAuthProvider`, `OAuthProviderProofs` |
| `VaultWatcher` | the watcher, the rebuild's reads, the index's row versions and the disk | `MCVaultWatcher`, `MCMissedChange`, `VaultWatcherProofs` |
| `SearchableNote` | abstract: what a search may rely on of a note's vectors | refinement in `MCEmbeddingPipeline` |
| `EmbeddingPipeline` | one path's chunks and vectors, jobs and passes | `MCEmbeddingPipeline`, `MCTornCleanup`, `EmbeddingPipelineProofs` |
| `TrashRetention` | one note path's copies in the trash, their rows, the deleters and the host | `MCTrashRetention`, `TrashRetentionProofs` |
| `NoteMover` | a move over many notes, with patches, the host and the user's retry | `MCNoteMover`, `MCStragglingWrites`, `NoteMoverProofs` |
| `TaskLine` | one task line: its fields, how they are read, set, cleared and replaced | `MCVaultParts` |
| `TaskBoard` | the task calls over a note: occurrence, deletion, lane, order, checklist | `MCVaultParts` |
| `Recurrence` | the dates of a repeating task's next occurrence | `MCVaultParts` |
| `NoteLines` | what a body's lines are: fences, comments, headings, sections | with the next two |
| `SectionEdits` | the five edits of a note's body | `MCVaultParts` |
| `MemoryStore` | memory files: entries, sections, seeding | `MCVaultParts`, `MCUndetectedEntry` |
| `NoteProperties` | where a note's properties end, and the writes that move that line | `MCVaultParts` |
| `LinkTargets` | where a link's target leads | with the next two |
| `LinkRewrites` | what a move makes of one link | `MCVaultParts`, `PartTheorems` |
| `LinkIndex` | the link rows of the index, kept up to date note by note | `MCVaultParts`, `MCStaleLinks`, `PartTheorems` |
| `BodyTags` | the tag parser's queue, worker and time limit, with the watcher and the rebuild's pass | `MCVaultParts`, `PartTheorems` |
| `Chunker` | how a body is cut into the chunks that are embedded | `MCVaultParts` |
| `Ranking` | fusion of ranked lists and the blend with the reranker | with the next two |
| `HybridSearch` | a search whose legs read an index that changes between them | `MCVaultParts` |
| `MemoryRecall` | the memory entries' index and a recall over it | `MCVaultParts`, `PartTheorems` |
| `SetupMode` | the sign-in forms, the stored token and the container's next start | `MCVaultParts`, `PartTheorems` |
| `VaultParts` | composition of the modules from `TaskLine` on | `MCVaultParts`, `VaultPartsProofs` |

### FileWriteLock

`tail` is the module-level map `fileWriteLocks`; a call's `phase` goes from
`uncalled` through `queued`, `running` and `settled` to `forgotten` (its clean-up
has run), or to `rejected` (a fail-fast call that found a key taken). `prev` is the
promise the write waits for. The model's operations read every file they name and
then write every one; `seen` and `content` say which updates a read or a file
contains, so a lost update is a fact of the state. The users are `withFileLock`
(memory store 868 and 1139, the trash key in the sweeper and in `moveNoteToTrash`),
`withExclusiveFileLock` (patcher, tasks, `writeNote`, `deleteNote`) and
`withExclusiveMultiFileLock` (note mover 859). `deleteNote` holds an exclusive note
lock while it queues for the trash key; nothing holds the trash key and asks for
a note lock, so the order has no cycle, and the trash key is queued for alone.

Assumed: two spellings of one file fold to one key (`FoldAssumption`). A second name of a
file through a symbolic link is outside that, and so are other processes. An operation settles: the code sets no timeouts. A serial
call inside an operation on its own key would wait for itself; no caller does that.

### OAuthProvider

The variables are the tables and the in-memory maps. Time is a clock that moves on
its own; the lifetimes are constants whose order is the code's (a code is shorter
than an access token, that shorter than a refresh token, a revocation is kept at
least as long as what it revokes). A crash can come between the two transactions
of a refresh; a restart loses the memory and runs the boot purge. Not modelled: rotation of
the signing secret, the migration of older databases, requests that are refused
and change nothing, two access tokens that are the same string.

### VaultWatcher

Each path has a version on the disk and the version its rows hold; a read carries
the version it read until it resumes. `tokens` are `currentEvents`: a read that
resumes with a token that is no longer its path's does nothing. Held changes, the rebuild
and the batch over held paths are as in `applyHeldChanges` and
`reconcileHeldPaths`; chokidar is external and modelled by what the code relies on:
an event per change once a file is tracked, none for one that its scan of a new
folder missed, until the rescan. A folder's listing is read once per batch, so it
can be stale when a path is checked. Not modelled: exact-case listing of
case-insensitive file systems, the 10 s deadline (it changes when the caller
resumes, not the state), PDFs read after the others.

### EmbeddingPipeline

One path, since paths share nothing but the order of a pass and the model. An action is one event-loop
turn. A job holds the version symbol of the write that queued it; after each model
call it continues only if the symbol is still the path's (`Current`). The rebuild
clears the symbols, indexes, and then embeds in the background, while the watcher's
jobs go on. Crashes come between turns, in the turn that ends a job (the transaction is atomic, the clean-up after it is not)
and in the clean-up of deleted paths. `CrashBetweenDeletes` is on only in
`MCTornCleanup`.

`SearchableNote` is what all this promises of one path, with no version, job or hash in it: vectors
move towards the indexed content and no other, a chunk at a time; the path becomes searchable when all
are there, and they stay until it is written again; a failed job leaves what it had done; a path that is
gone has no vectors. `Mode` and `Findable` map the pipeline's state to it.

### TrashRetention

One note path and its candidate names. A file is its identity; its change time is
kept while it is in the trash. Time counts in steps longer than the minute the
sweep tolerates between change time and row, so "within the minute" is "within the
step". A delete is its steps (wait for the lock, claim, rename, read the identity,
record), the sweep and the purge are theirs, and between any two the host may
create, trash, restore or empty, and the server may crash. The rows are SQLite writes that the delete
tries: one that fails, to record a move or to clear a name of an older row, is logged and the delete
is acknowledged all the same. `trashed` remembers who moved each copy there; one that is to be kept is
"keeping" until its name is cleared of any row and "kept" from then on. `SweptCopiesWereDue` lets no
kept copy be swept. A copy whose name could not be cleared is judged by the old row, and is safe unless it landed
there within that row's minute: the sweep compares identity and change time. Not modelled: option
`none` (a plain unlink), case aliases of row keys, corrupted rows (the containment
gates appear as `SweepSkips`), pruning of folders, a file system whose renames
leave the change time alone, the host removing a claim's placeholder or editing a
file inside the trash.

### NoteMover

`mv` is the local state of `moveNote`: the sources it knows (the index's, then those
the scan found), the planned contents, the batch being written. `files` says
what each path holds: which note, whether its link leads to the old path, the new
path or neither, and the patches in it. Three branches write the new path: a hard
link, a reservation and a rename (Windows drives), and a rename in place when only
the case changes. A write that fails ends the move and releases its locks; what the
batch was still writing goes on as `late`. The locks are those of
`FileWriteLock`: a move takes all its files or fails. The user deletes the copy that an
incomplete move's error names and may move again. `missed` remembers the notes the
scan could not read and those a patch linked to the old path since, which no move
promises to follow. A reservation whose swap fails is removed, and stays when the removal fails
too, which `removeLeftoverFile` only logs: `AbortedMovesWroteNoNote` allows that placeholder and nothing
else under an error that says nothing was written. What the move makes of a link's
text is `LinkRewrites`. Not modelled: Canvas cards, pruning of folders, notes created
after the listing, edits of the host to files the move has read.

### VaultParts: parts that share no state

The modules below meet the others only through the files and rows they leave, so a
product of their states would show nothing new. `VaultParts` instantiates each on
constants of its own, one record per part; it chooses a `part` in the first state and stays with it: a
behaviour of the composition is a behaviour of one module, and a run explores all of them. Its
properties are conjunctions of the modules' own, which are stated and explained in the modules.
`MCVaultParts` gives the constants their values. The instances of `LinkRewrites`, `LinkIndex`,
`BodyTags` and `SetupMode` are taken through `PartTheorems`, with what is proved of them.

### TaskLine, TaskBoard, Recurrence

`TaskLine` is the line editor of `tasks.ts`. A line is a checkbox and tokens (words, tags,
block id, fields in the emoji or the Dataview form). Fields are read from the line's end
only, and the value of an emoji rule takes the words behind it: an edit that puts a token in
the wrong place is read back as something else. `edit` keeps the line before, what was asked
and whether the code reports the result as readable. `EditsKeepTheRest` compares everything the
edit is not about, `EditsReadBack` what it is about. Every edit of `updateTask` ends by taking out of the fields
the tags that the description ends in too (`deduplicateDescriptionTags`), so any edit of a line that repeats a tag
changes it there; the properties allow that, and nothing else. A new line carries the block id that `createTask`
demands, none for a sub-task on a board.

`TaskBoard` is `updateTask` and `createTask`: one action per call, with the whole cascade
(status, next occurrence, `onCompletion` deletion, move to a lane, reordering,
checklist). Lines carry a `uid`, so that a lost or doubled line is visible, and `outcome` holds
the line numbers the call returns, which the code computes over its
splices instead of searching for them. A line's text is left to `TaskLine`; reading the plugin's settings
is left out.

`Recurrence` counts days in the Gregorian calendar. The `rrule` library is external and modelled
by its hits: only months that have the day. `CorrectedNextHit` is the code's walk back
from them. The other dates are shifted as instants of the server's zone, cut to whole days
(`Shifted`): `ClockChanges` says by how many minutes the clock is set forward after which day, a whole day where a
zone skips one. So `DatesMoveTogether` is exact where no change lies between the dates, and otherwise lets the distance
come short by the days that the change, cut off, takes, as `recurrence.test.ts` 330-385 states for New York
and Apia. Weekly and count-limited rules go through the same walk and are not in the instance.

### NoteLines, SectionEdits, MemoryStore, NoteProperties

A line is a sequence of words, of which only those that decide something have a meaning:
fence and comment delimiters, headings, underlines, list and quote markers. `SectionEdits`
has the five patch tools; `edit` remembers the body before. The parser is not trusted with its own output:
the properties read the written note back from its lines. Content may leave a comment open, which hides the headings
below it: `OtherSectionsAreKept` says nothing of it. A comment at the end of the content, with no text below, may become
the comment block of a note that had none, and is then no longer part of the section.

`MemoryStore` adds and deletes entries, makes files and sections, compares near-duplicate
names by edit distance, guards against shrinking, and seeds the folder at boot, where a crash may
come between two templates. A call is one step, since `withFileLock` serialises the
writers of one file (`FileWriteLock`). A comment block that ends the file
is no section's text: a deletion of the last entry takes the entry's own lines and leaves the block
(`DeletionsTakeOneEntry`). A section created below the block makes of its lines a continuation of the entry
above, and `EntriesAreKept` allows that addition. Entries of which the reader sees nothing, because they read as a comment,
are excepted (`EntriesAreShown`), as `MCUndetectedEntry` shows: `RetriesOfShownEntriesAreSafe` is about the others.

`NoteProperties` is the split of a text at its fences and the writes of `vault-filesystem.ts`
through `parseNoteForRewrite` and `stringifyNote`. The YAML package is external: a line is an entry, an
entry with a tag, text or no YAML.

### LinkTargets, LinkRewrites, LinkIndex

A path is its folders and the dot-separated parts of its name. `LinkTargets` resolves a target from the
root, from the source's folder and by name, the shortest path first. `LinkRewrites` takes any
vault of the instance, any link and any move, of the target, of the source or of both.
`LinkIndex` applies `upsertNote`, `removeNote` and the like
in any order. No link stays unresolved that an indexed note or file answers, unless its text is itself a path
(`NoForwardReferenceIsMissed`), and the outgoing, incoming and broken links that the queries
report agree with each other (`QueriesAgree`). This is less than that the rows are those of a rebuild: a row whose
note was removed keeps the removed path and is tried only against notes indexed later (the `stale_links` run), and a
row that leads to an existing file is not tried again when a preferred one appears. Letter case and percent-encoding are left out, and so is finding links in a text.

### BodyTags

Queue, drain loop and worker of `body-tag-parser.ts`, with its two callers: the watcher, which
aborts a waiting parse of the same note, and the rebuild's pass, which may not overwrite a
newer row. The worker may not start, not answer, answer late, exit, or be told to stop at the limit;
`close` may come at any time. A body is a number, a tag the body it was parsed from.

### Chunker, Ranking, HybridSearch, MemoryRecall

`Chunker` follows single words through the split: preamble, subtree of a top
heading, own lines of a deeper one, the merge of a short tail, the prefix that takes from the budget,
the table of contents. A token is a word, as the code estimates it.

`Ranking` keeps scores as integers at the precision the results report. In `HybridSearch` a row is what the
query makes of it (how well it matches, how near each of its chunks is, whether it passes the filters);
the full-text legs are read before the embedding is awaited and the vector legs after it, and the
watcher changes rows in between; either model may fail. The vector legs' limit cuts chunk rows, before each note is
reduced to its closest chunk, so one long note can take a whole leg. `AnswersAreTheMatches` therefore promises less of
vectors than of words: an answer shorter than its limit has every match by words, but lacks a match by vector when as
many chunks as the leg takes are as near (`CrowdedOut`). `MemoryRecall` has the entry rows with
their reuse of ids by content hash and position, the embed jobs with their version check, and a
recall that fuses by position. Snippets, paging and the other listings are single SQL statements
and left out.

### SetupMode

Sign-in form, code form, the pending sign-in with its deadline, preflight,
staged write, rename, exit, and the boot that follows. A crash can come between any two awaits. Two
sign-ins that write at the same moment share the staging file; `TokenIsWhole` is
stated for behaviours in which they do not (`overlapped`), because the page serves one user.

## Runs

| Run | Bounds | Shows |
| --- | --- | --- |
| `file_write_lock` | 3 calls of any mode over any non-empty set of 2 files; every read and write may throw | exclusion, order of calls, no stranded or lost lock entry, no lost update, every call ends, refinement of `AtomicFileUpdates` |
| `oauth_provider` | 2 clients, 2 requests, 3 refresh tokens, 1 revoked access token kept, access tokens live 2 steps | one live token per consent, revocation is final for refresh and access tokens, replays are recognised, signed-in clients are kept |
| `vault_watcher` | 1 note and 1 file, 4 changes of the disk, 4 event tokens | no stale path that nothing is reading, no leaked token, the index never goes back to an older read, and it catches up |
| `missed_change` | the same | the finding below |
| `embedding_pipeline` | 2 texts of up to 2 chunks, 4 source writes | settled content is wholly searchable, refinement of `SearchableNote` (removed notes leave nothing, vectors come whole and of one version), work ends |
| `torn_cleanup` | the same, with crashes between the deletes of a clean-up | the finding below |
| `trash_retention` | 2 files, 2 names, 3 time steps, retention of 1 | swept copies were due, recorded copies stay tracked, no copy is overwritten |
| `note_mover` | 3 other notes, batches of 2, 1 retry, 1 patch | the note is never lost, an aborted move wrote no note, links follow the note, the host's files are kept, patches survive |
| `straggling_writes` | 2 other notes | the finding below |
| `vault_parts` | 13 parts, see below | edits of tasks, notes, memories and properties reach only what they are about; links lead on; tags and memory entries follow their files; short answers lack no match but one crowded out; a sign-in's code is for one try; a saved body is indexed in the end |
| `undetected_entry` | memory part, a call whose text ends in `%%` | the finding below |
| `stale_links` | link index part | the finding below |

Why the bounds are enough: three calls are the least that put a queue of two behind
a running write, and two files the least a multi-file call can tie together. Two
consents and three tokens let one grant rotate twice while another lives. Four
changes let a path be written while a read of an older version and one of the
removal are both outstanding, on either side of the rebuild. Two chunks give a
tail; four writes give text A, text B, a removal and A again. Two files let
Obsidian put another copy under a name the server used, and the second name lets a
claim move on. Three notes fill one batch and leave one for the next, and one
retry widens the locks once and gives up once.

The bounds of `vault_parts`, part by part:

| Part | Instance | Case it is there for |
| --- | --- | --- |
| task line | up to 3 words and fields behind a description, fields of both formats, block ids, a tag once or twice; one edit | a date inside a description, a rule that swallows what follows it, a tag in both places |
| task board | 2 boards with subtasks, hidden cards and a Done lane before or after, every combination of the calls' options; one call | completion, occurrence and move at once, with the lines shifting above or below |
| recurrence | 6 rules, days around month ends of 2023 and 2024, 3 completions; the clock set back once, forward once, and one day skipped | a day the next month does not have, twice in a row; dates on both sides of a clock change |
| sections | 7 bodies with fences, comments, underlined and repeated headings, content with comments that close and that do not; one edit | a heading inside a fence, a comment block at the end, before or after the edit |
| memory | one file that ends in a comment block and one that is missing, 7 calls of which 2 are made | an add and its retry, an add and a deletion of its neighbour, an entry that ends in `%%` |
| properties | all texts of up to 3 lines of 8 kinds and 6 of 4 lines; one call | fences that stay open, repeat or go on |
| link rewrites | vaults over 4 note and 2 asset paths, 12 targets; one move | the same name in several folders |
| link index | 3 notes, 1 canvas; any number of operations | a target removed while another path still ends in the link |
| body tags | 2 notes, 3 bodies | one parse active, one waiting, one newer |
| chunks | bodies of up to 4 blocks of 7 kinds, 3 metadata sizes | skipped levels, empty sections, oversized paragraphs |
| search | 2 notes of no, 1 or 6 chunks and 1 file, limits of 1 and 2, 1 change during the query | a row that appears or goes between two legs, a note whose chunks fill the leg |
| recall | 2 files of up to 2 entries, 2 changes during the recall | copies of one entry, an entry whose row moves, a job whose source moved on |
| setup | 2 forms in flight, 2 sign-ins, 2 boots, a lifetime of 1 | a code that is tried as it expires, a crash between staging and rename |

A behaviour of the recall part ends with its answer, and its changes all come after the call; what
comes before a call is one of the initial indexes.

Deadlock is checked where the system runs for ever. The configurations that switch
it off have a clock or a number of changes that ends.

### Fairness

* `FileWriteLock`: a queued write whose turn has come starts, an operation ends (by
  success or by failure), a settled write is cleaned up: the event loop runs every
  ready reaction, and file operations settle.
* `VaultWatcher`: startup goes on, chokidar reports a tracked change and a rescan
  runs in time, reads return.
* `EmbeddingPipeline`: a turn that is ready runs, a model call returns or fails, a crashed
  server is restarted (s6 restarts the service) and rebuilds.
* `BodyTags`, in `vault_parts`: a started worker reports ready or fails, one told to stop stops, a
  reply is handled, and the limit's timer fires. No thread has to answer: the timer is what ends a
  parse that hangs, and a saved body is indexed with or without its tags.

No fairness is assumed of the host or of clients.

## Findings

* **A change the watcher misses** (`missed_change`, `file-watcher.ts:1064-1069`). A file
  that appears after the watcher is ready, is read by the rebuild and goes
  before chokidar has reported it leaves a row in the index and no event to remove
  it. `StalePathsAreBeingRead` and `IndexCatchesUp` are stated for the rest.
* **A torn clean-up** (`torn_cleanup`, `search-index.ts:1900`). The deletes of vectors and
  of their rows are two transactions; a crash between them leaves content hashes
  without vectors, which the hash gate then trusts.
* **Writes that outlive their locks** (`straggling_writes`, `note-mover.ts:1081`). A failed
  write rejects the batch at once, so the locks are released while other writes
  of the batch are still going on; a patch accepted then is overwritten.
  `PatchesSurviveMoves` is stated for every other write.
* **An entry that is not found again** (`undetected_entry`, `memory-store.ts:996`). An entry whose
  text ends in `%%` is written as a line that reads as a comment delimiter. The duplicate guard
  does not see it, so the retry that `memory-tools.ts` calls safe appends it again.
* **Link rows that stay behind** (`stale_links`, `search-index.ts:1737`). The row of a link whose target
  was removed keeps the removed path. When another indexed note answers the link, the row is not tried
  against it: only notes indexed later are. The comment at 1731 says that a row waiting for a note "can
  only newly resolve to this note". A row that keeps a removed path is the exception there too: with
  `a/x.md` removed, a link `../a/x` of `b/y.md` leads nowhere, yet indexing `c/a/x.md` gives it that path.
* **A placeholder under "Nothing was written"** (no run; `vault-filesystem.ts:270-283`). The comment there says
  that a failed write "never strands a 0-byte note". Where there are no hard links, a swap that fails is cleaned up after by
  `removeLeftoverFile` (187-198), which swallows its own failure: the empty file then stays at the new path although the
  move's error says that nothing was written. `AbortedMovesWroteNoNote` allows exactly this.
* **Two rewrites that lead elsewhere** (no run; found while proving `RewritesKeepLinks`; the
  property excludes the first by `NamesAreApart`, the assumptions the second). `note-mover.ts:134-135` falls back on a path from the vault's
  root without checking it. A wikilink `../../d/x` to the image `d/x.png`, in a note that moves from `q/r` to
  `d`, becomes `d/x`, and if there is an extensionless file `q/d/x` the link now leads there. And a wikilink to a
  note called `x.md.md` is rewritten without its last extension, as `x.md`, which is another name.

## Proofs

Eight modules hold theorems. Those about a component rest on an inductive invariant: the properties wanted
are conjuncts of it, and the other conjuncts say what the code relies on when it takes a step.
The proof that a step keeps the invariant has a lemma per conjunct and in it a step
per action. Where an action updates records, a lemma ending in `Fields` first says
what the action does to each field, and the rest of the proof sees only that. TLC
checked each invariant on an instance before it was proved.

The constants are arbitrary in all of them; only what follows is assumed.

| Module | Proved | Assumed |
| --- | --- | --- |
| `FileWriteLockProofs` | type, exclusion, order of calls, no stranded lock, no lost update, refinement of `AtomicFileUpdates` | paths have keys and files; spellings of one file share a key |
| `NoteMoverProofs` | type, the note survives, aborted moves wrote no note, host files are kept, links follow, patches survive | the bounds are numbers; the two paths differ and are no source's; "no file" is no content |
| `OAuthProviderProofs` | type, one live token per consent, revocation is final for refresh and access tokens, replays are recognised, signed-in clients are kept | the bounds and lifetimes are numbers; "no row" is no row |
| `VaultWatcherProofs` | type, tokens have holders, no path stays stale unread, the index never goes back | notes are paths; the bounds are numbers |
| `EmbeddingPipelineProofs` | type, removed notes have no vectors, settled content is searchable, refinement of `SearchableNote` | the bounds are numbers; "no text" is no text |
| `TrashRetentionProofs` | type, no copy is overwritten, recorded copies stay tracked, swept copies were due | the bounds are numbers; "none" and the placeholder are no files |
| `PartTheorems`, of `BodyTags` | tags are of the indexed body, the latest body is on its way, parses never overlap | the rebuild lists each note once |
| of `SetupMode` | type, codes are for one try, the token is whole | finitely many requests; "none" is no file's number |
| of `LinkIndex` | forward references are taken over, link queries agree | notes and files are listed paths, "nowhere" is none of them, canvases are files |
| of `LinkRewrites` | a rewritten link leads to the same file | notes' names end in `.md`, once, and other files' do not |
| of `MemoryRecall` | rows are the entries, vectors are of their rows, rows without one have a job | files are numbers, finitely many; contents are sequences; "no file" is no content |
| `VaultPartsProofs` | `IndexFollowsTheFiles`, `SignInsAreForOneTry`, `LinksKeepLeading` of the composition | what `PartTheorems` assumes of the five parts |

**Locks.** Mutual exclusion is not inductive: the state must also say why a write that starts
is alone. `LockInvariant` adds tickets, the order in which calls were accepted. For each
key, its `tail` is the youngest live write; a live write with an older live one on
a shared key is still queued and waits on a chain that leads to it; and nothing runs
while an older live write shares a key. From that, what a running operation has
read is what the file still holds, which gives the absence of lost updates and the
refinement. Its mapping hides what a running operation has written: nobody else works
on those files until it ends, so the step in which it resolves is the abstract update of
all its files, and the step in which it throws shows the files it had written, which
nothing in the code undoes.

**Mover.** `NoteIsNeverLost` is not inductive: deleting the original is safe only because the
new path holds the note by then. `MoveInvariant` adds where the note is at each stage, that
the content planned for the new path is the note, that a patch of one of the two paths
read the note, that every write was planned, and what is written so far.
`FollowInvariant`, for links and patches, adds what a move owes: at every stage each
source that still links the old path is one the move has yet to scan, read or
write, or one in `missed` (`LinksAreTracked`); and whatever is about to be written, by the move, a
late write or a patch, contains the patches of the file it replaces, but for those a late write already
went over (`WritesKeepEdits`). Both need that nothing is written outside the locks
but the late writes (`LocksHold`).

**OAuth.** Each property needs history that the tables alone do not have: `ProviderInvariant` says
that a consent goes from asked to granted to redeemed and never back, so that it mints one
lineage; that a token anybody remembers was minted; that who is named anywhere was registered; and
that no revocation is of the future. `RevokedAccessTokensAreRejected` then follows from how long a
revocation is kept: the boot purge drops it when the token it names has expired. `SignedInClientsAreKept`
is an action property, from the conjunct that a registration with a token is marked.

**Watcher.** `StalePathsAreBeingRead` says that a path whose rows differ from the disk has a read or a
report that will repair it. Inductively, one needs what is known meanwhile: what the rebuild's
listing, the startup batch or a current read knows of a path is still so, or chokidar has news of it
(`KnowledgeIsCurrent`); versions on the disk only grow (`VersionsGrow`), so that a read which lost its token
is older than the one that has it; each read has a token of its own; and startup's lists
are disjoint. `IndexNeverGoesBack` is an action property: a current read is no older than the row it
replaces (`ReadsInOrder`).

**Embedding.** `PipelineInvariant` says that a job whose version is the path's has the content
that is indexed, and that every chunk such a job has passed, or found unchanged when it started, has its
row. `SettledContentIsSearchable` has a hypothesis: no crash falls between the two DELETEs of a clean-up. Without it
the property is false, which is the finding of `torn_cleanup`. The refinement of `SearchableNote` has it too. It
needs in addition that each version has one job, none once that job has failed (`JobsAreApart`), so
that a job which ends did all the work there was; and that a path which is indexed is not one that the
rebuild kept (`PromiseInvariant`). The step that ends a job is the one where "at work" becomes "searchable", and
what has to be shown there is that the set is whole.

**Links.** `LinkInvariant` is `NoForwardReferenceIsMissed` and that every row's source is indexed.
It is inductive because an upsert tries the standing rows against the new path alone: a text that
led nowhere before leads, if anywhere, to that path, since of the candidates for a text (from the root, from the
source's folder, by name) only those at the new path have changed. For files this says that
`matchesNewFile` leaves out none of the ways in which `resolveNonMarkdownFile` would find one.
`RewritesKeepLinks` is about a single move: the path from the root is always among the candidates of
the new text, full names are tried before stems, and a shorter form is only written
when it is resolved and found to lead to the same file.

**Trash.** The host moves files between any two steps of a delete, a sweep and a purge.
`TrashInvariant` says who holds the lock, that a file is in one place, that the change time of a copy is that of its last
move, and that a row naming the copy at its path is no younger than the copy's move. A
sweep that matched identity and time therefore unlinks what has been there since the row's minute, and a copy that came
later is not taken for it (`SweepKnowsItsEntry`, `WritersSeeNewcomers`).

**Body tags.** `BodyTagsInvariant` says that a job of the watcher's carries the body of its event token, that
a token is its note's latest body, that at most one job is the pass's and is for the note the pass waits
for, and that a row which is still the rebuild's has the tags stored before it until the pass comes to its note. The
last needs the pass to list each note once, as the rebuild does: the pass compares what it
parsed with what was stored before, and would leave its own first result standing. The proof goes from actions
to their effects (`Effects`): on the index, a step writes rows that are right or none
(`IndexStep`); in the parser, it leaves legal jobs (`ParserStep`); and it loses no note's latest body (`Kept`).

**Setup.** `SetupInvariant` says that a form's deadline is within the lifetime of its
password, that a pending form is untried, and that a sign-in that writes has the staging
file to itself while no two overlap. That there is always an unused file identity for the staging path is an
argument about cardinality: a request holds at most one, the two paths one each.

**Memory entries.** `RecallInvariant` says that rows and the entries of the files are one to one, by place and
by id; that a vector is of its row's text; that a job which is current has, in what it has yet to embed, rows that
are still there; and that a row without a vector is in such a job or has one queued that will read it. An upsert
keeps this because two entries never claim one row: entries of the same text are numbered, and the n-th claims
the n-th row of that text in the order of places (`CopiesAreNumbered`, `ClaimsAreApart`), while new rows get ids
that no row had. A row that is claimed keeps its vector, which is of the same text; one that is not loses it. A job
whose file has changed since is not current and adds nothing.

**Composition.** `PartTheorems` states its theorems of the five modules for any constants that meet their
parameters, so `VaultParts` can take the instances from it, with the theorems, for constants that are fields of
records. `VaultPartsProofs` then has only to show that a behaviour of the composition which starts as one part
stays with it and, seen by that part, is one of its module: each step is the module's or leaves its variables
alone. The assumptions on the constants are those of `VaultParts` (`RewriteAssumption` and the four after
it), which the runs evaluate.

Model-checked only:

* liveness (`EveryCallEnds`, `IndexCatchesUp`, `ModelWorkEnds`, `BodiesAreIndexed`), because TLAPS has no
  `ENABLED`;
* `TaskEditsAreExact`, `OccurrencesStepByTheRule`, `NoteEditsKeepTheRest` and `SearchesMissOnlyTheCrowded` (of memories,
  that the index is right is proved, that a recall finds all in it is not): what the
  recursive functions of `TaskLine`, `TaskBoard`, `Recurrence`, `NoteLines`, `Chunker`, `MemoryStore` and
  `Ranking` compute for every input would take induction over data.

## Not modelled

* Parsing without state or order: the remark parser, the text of canvases and PDFs, callouts, finding
  links and tags in a text. The models start from what these return.
* Single statements: the index's other listings and counts, snippets, the schema and its migrations.
* Reads: path safety, listings, assets, daily notes, the plugins' settings. They change nothing that
  another part depends on.
* Loading the models: one promise per model; the parts that use them model its failure.
* MCP tools, prompts, the router, rendering, environment parsing, logging, the authorizer: wrappers
  that keep no state between requests.
* The vault key and the pages of setup mode; the sync client, which is not part of the repository.
* The CLI and the tooling: prompts and commands, one at a time, whose effect is docker's.
* In the OAuth provider: expired pending requests and codes are only dropped when they are used, a
  registration a week old may be swept while its owner is on the consent page, and two access tokens of
  one client, scope and second are the same string. The clock of the model has no such resolution.
* An edit that the host makes to a file while a move is between reading and writing it: no lock
  of the server reaches the host.

## Plan

Next: the properties of sequences that the recursive functions compute (`SectionEdits`, `Chunker`), by
least counterexamples.
