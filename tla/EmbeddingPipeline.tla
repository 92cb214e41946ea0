------------------------- MODULE EmbeddingPipeline --------------------------
(* How one note's chunks and their vectors follow the note                      *)
(* (src/vault-mcp/search/search-index.ts, queued by file-watcher.ts): the       *)
(* source write is synchronous, the model work is not, and runs in the path's   *)
(* own queue or in the background pass of the rebuild.  A file's content goes    *)
(* through the same code under other names; only its cleanup after a rebuild    *)
(* waits until the notes are embedded.                                         *)
(*                                                                             *)
(* An action is one turn of the event loop: what a job does from one await on   *)
(* the model to the next.  A turn can only be cut short by a crash, which the   *)
(* database survives up to its last committed statement.  A chunk's text stands *)
(* for its hash and for the vector computed from it; paths share nothing, so    *)
(* the module follows one.                                                     *)
EXTENDS Naturals, Sequences

CONSTANTS
    Texts,              \* chunk texts
    NoText,             \* no row, no vector
    MaxChunks,          \* bound on the chunks of a note
    MaxVersions,        \* bound on source writes
    CrashBetweenDeletes \* whether a crash may fall between two DELETEs in a row

ASSUME TextsAssumption == NoText \notin Texts
ASSUME BoundsAssumption == MaxChunks \in Nat \ {0} /\ MaxVersions \in Nat
ASSUME CrashAssumption == CrashBetweenDeletes \in BOOLEAN

Indices == 1 .. MaxChunks
\* A note has at least the chunk that names it.
Contents == UNION {[1 .. n -> Texts] : n \in 1 .. MaxChunks}
NoSource == << >>
NoVersion == 0
NoTexts == [i \in Indices |-> NoText]

VARIABLES
    process,    \* "down", "rebuilding" or "up"
    source,     \* content indexed for the path, or NoSource
    indexed,    \* whether the path has a notes row
    version,    \* sourceVersions entry, or NoVersion
    versions,   \* source versions made so far
    queue,      \* watcher's jobs for the path, in pendingEmbeds order
    pass,       \* the rebuild's own job for the path, in a sequence of at most one
    hashes,     \* note_chunks rows: index -> text whose hash is stored, or NoText
    vectors,    \* index -> text the row's vector was computed from, or NoText
    failed,     \* history: versions whose embedding failed
    kept        \* history: the rebuild could not index the note and kept its vectors

sourceVars == <<source, indexed, version, versions>>
jobVars == <<queue, pass>>
chunkVars == <<hashes, vectors>>
historyVars == <<failed, kept>>
vars == <<process, sourceVars, jobVars, chunkVars, historyVars>>

Init ==
    /\ process = "down"
    /\ source = NoSource /\ indexed = FALSE
    /\ version = NoVersion /\ versions = 0
    /\ queue = << >> /\ pass = << >>
    /\ hashes = NoTexts /\ vectors = NoTexts
    /\ failed = {} /\ kept = FALSE

-----------------------------------------------------------------------------
(* Source writes                                                               *)

\* at is the chunk the model works on; stored is existingHashes, read at the start.
NewJob(content) ==
    [version |-> versions + 1, content |-> content, at |-> 0, stored |-> NoTexts]

\* upsertNote, then the job the watcher queues for it.
Upsert(content) ==
    /\ process = "up" /\ versions < MaxVersions
    /\ source' = content /\ indexed' = TRUE
    /\ version' = versions + 1 /\ versions' = versions + 1
    /\ queue' = Append(queue, NewJob(content))
    /\ kept' = FALSE
    /\ UNCHANGED <<process, pass, chunkVars, failed>>

\* Mutant: the removed path keeps its source version.
RemoveKeepingVersion ==
    /\ process = "up" /\ indexed
    /\ source' = NoSource /\ indexed' = FALSE
    /\ hashes' = NoTexts /\ vectors' = NoTexts
    /\ UNCHANGED <<process, version, versions, jobVars, historyVars>>

\* removeNote: rows, chunks and vectors in one transaction, then the version.
Remove ==
    /\ process = "up" /\ indexed
    /\ source' = NoSource /\ indexed' = FALSE
    /\ version' = NoVersion
    /\ hashes' = NoTexts /\ vectors' = NoTexts
    /\ UNCHANGED <<process, versions, jobVars, historyVars>>

-----------------------------------------------------------------------------
(* Jobs                                                                        *)

\* Mutant: an obsolete embedding is written all the same.
CurrentAlways(j) == TRUE

\* isCurrentSourceVersion.
Current(j) == version = j.version

\* The job at work in the queue is its first; a later one waits for it.
Running == {q \in {queue, pass} : q /= << >>}

\* Replaces the first job of the sequence the job is in, or drops it.
SetJob(j, next) ==
    /\ queue' = IF queue /= << >> /\ Head(queue) = j THEN next \o Tail(queue) ELSE queue
    /\ pass' = IF pass /= << >> /\ Head(pass) = j THEN next ELSE pass

Chunks(j) == 1 .. Len(j.content)

\* Chunks whose stored hash differs, from the given one on.
ToEmbed(j, from, stored) == {i \in Chunks(j) : i >= from /\ stored[i] /= j.content[i]}

First(is) == CHOOSE i \in is : \A k \in is : i <= k

\* The tail a shortened note leaves behind.
WithoutTail(f, j) == [i \in Indices |-> IF i \in Chunks(j) THEN f[i] ELSE NoText]

\* The loop, from a chunk on: to the next model call, or to the end, where the
\* stale tail's vectors and then its rows are deleted.
Continue(j, from, stored, h, v) ==
    IF ToEmbed(j, from, stored) = {}
    THEN /\ hashes' = WithoutTail(h, j)
         /\ vectors' = WithoutTail(v, j)
         /\ SetJob(j, << >>)
    ELSE /\ hashes' = h /\ vectors' = v
         /\ SetJob(j, << [j EXCEPT !.at = First(ToEmbed(j, from, stored)),
                                   !.stored = stored] >>)

\* embedAndStoreChunks up to its first model call; an obsolete job does nothing.
StartJob(j) ==
    /\ j.at = 0
    /\ IF Current(j) THEN Continue(j, 1, hashes, hashes, vectors)
       ELSE SetJob(j, << >>) /\ UNCHANGED chunkVars
    /\ UNCHANGED <<process, sourceVars, historyVars>>

\* The model answers: the chunk's row and vector in one transaction.
EmbedReturns(j) ==
    /\ j.at /= 0
    /\ IF Current(j)
       THEN Continue(j, j.at + 1, j.stored, [hashes EXCEPT ![j.at] = j.content[j.at]],
                     [vectors EXCEPT ![j.at] = j.content[j.at]])
       ELSE SetJob(j, << >>) /\ UNCHANGED chunkVars
    /\ UNCHANGED <<process, sourceVars, historyVars>>

\* Mutant: a failed job starts again.
EmbedRetries(j) ==
    /\ j.at /= 0
    /\ SetJob(j, << [j EXCEPT !.at = 0] >>)
    /\ failed' = failed \union {j.version}
    /\ UNCHANGED <<process, sourceVars, chunkVars, kept>>

\* The model rejects: logged, and the next queued job runs.
EmbedFails(j) ==
    /\ j.at /= 0
    /\ SetJob(j, << >>)
    /\ failed' = failed \union {j.version}
    /\ UNCHANGED <<process, sourceVars, chunkVars, kept>>

-----------------------------------------------------------------------------
(* Crashes and rebuilds                                                        *)

Lost ==
    /\ process' = "down"
    /\ version' = NoVersion
    /\ queue' = << >> /\ pass' = << >>
    /\ UNCHANGED <<source, indexed, versions, historyVars>>

Crash ==
    /\ process /= "down" /\ versions < MaxVersions
    /\ Lost
    /\ UNCHANGED chunkVars

\* The process ends in a job's last turn: after its transaction, or after the
\* DELETE of the tail's vectors.
CrashInLastTurn(j) ==
    /\ versions < MaxVersions
    /\ Current(j) /\ ToEmbed(j, j.at + 1, IF j.at = 0 THEN hashes ELSE j.stored) = {}
    /\ hashes' = IF j.at = 0 THEN hashes ELSE [hashes EXCEPT ![j.at] = j.content[j.at]]
    /\ LET written == IF j.at = 0 THEN vectors ELSE [vectors EXCEPT ![j.at] = j.content[j.at]]
       IN  vectors' \in {written}
               \union (IF CrashBetweenDeletes THEN {WithoutTail(written, j)} ELSE {})
    /\ Lost

\* rebuildFromVault clears the source tables; the chunks stay.
RebuildStarts ==
    /\ process = "down"
    /\ process' = "rebuilding"
    /\ source' = NoSource /\ indexed' = FALSE
    /\ UNCHANGED <<version, versions, jobVars, chunkVars, historyVars>>

\* Mutant: a rebuild may follow another that has not ended its pass.
RebuildAgain(content) ==
    /\ process /= "down" /\ versions < MaxVersions
    /\ process' = "up"
    /\ source' = content /\ indexed' = TRUE
    /\ version' = versions + 1 /\ versions' = versions + 1
    /\ pass' = Append(pass, NewJob(content))
    /\ kept' = FALSE
    /\ UNCHANGED <<queue, chunkVars, failed>>

\* The rebuild found the note: a fresh version, and a job in its own pass.
RebuildIndexes(content) ==
    /\ process = "rebuilding" /\ versions < MaxVersions
    /\ process' = "up"
    /\ source' = content /\ indexed' = TRUE
    /\ version' = versions + 1 /\ versions' = versions + 1
    /\ pass' = << NewJob(content) >>
    /\ kept' = FALSE
    /\ UNCHANGED <<queue, chunkVars, failed>>

\* The note is gone or unreadable: the pass deletes its vectors, then its rows.
RebuildFindsNothing ==
    /\ process = "rebuilding"
    /\ process' = "up"
    /\ hashes' = NoTexts /\ vectors' = NoTexts
    /\ kept' = FALSE
    /\ UNCHANGED <<sourceVars, jobVars, failed>>

\* The note could be read but not indexed: it keeps its chunks and vectors.
RebuildSkips ==
    /\ process = "rebuilding"
    /\ process' = "up"
    /\ kept' = TRUE
    /\ UNCHANGED <<sourceVars, jobVars, chunkVars, failed>>

\* A crash in that cleanup, before it or between its two DELETEs.
CrashInCleanup ==
    /\ process = "rebuilding" /\ versions < MaxVersions
    /\ vectors' \in {vectors} \union (IF CrashBetweenDeletes THEN {NoTexts} ELSE {})
    /\ Lost
    /\ UNCHANGED hashes

-----------------------------------------------------------------------------
SourceWrite == (\E content \in Contents : Upsert(content)) \/ Remove

Rebuild ==
    \/ RebuildStarts
    \/ \E content \in Contents : RebuildIndexes(content)
    \/ RebuildFindsNothing
    \/ RebuildSkips

JobStep == \E q \in Running : StartJob(Head(q)) \/ EmbedReturns(Head(q)) \/ EmbedFails(Head(q))

Crashes == Crash \/ CrashInCleanup \/ \E q \in Running : CrashInLastTurn(Head(q))

Next == SourceWrite \/ Rebuild \/ JobStep \/ Crashes

Spec == Init /\ [][Next]_vars

\* The process is restarted, and every model call ends.
FairSpec == Spec /\ WF_vars(Rebuild) /\ WF_vars(JobStep)

-----------------------------------------------------------------------------
(* Properties                                                                  *)

Job == [version : 0 .. MaxVersions, content : Contents, at : 0 .. MaxChunks,
        stored : [Indices -> Texts \union {NoText}]]

\* The type of the state.
TypeOK ==
    /\ process \in {"down", "rebuilding", "up"}
    /\ source \in Contents \union {NoSource} /\ indexed \in BOOLEAN
    /\ version \in 0 .. MaxVersions /\ versions \in 0 .. MaxVersions
    /\ queue \in Seq(Job) /\ pass \in Seq(Job) /\ Len(pass) <= 1
    /\ hashes \in [Indices -> Texts \union {NoText}]
    /\ vectors \in [Indices -> Texts \union {NoText}]
    /\ failed \subseteq 1 .. MaxVersions /\ kept \in BOOLEAN

AtWork(v) ==
    \/ \E i \in 1 .. Len(queue) : queue[i].version = v
    \/ pass /= << >> /\ Head(pass).version = v

Padded(content) == [i \in Indices |-> IF i <= Len(content) THEN content[i] ELSE NoText]

\* Once the model work of the indexed content is over and none of it failed, every
\* chunk of it can be found by its vector, and nothing of an older content is left.
\* No overlap of the watcher's queue with the rebuild's pass, no removal, crash or
\* rebuild changes that (search-index.ts 1859-1862).
EmbeddedContentIsSearchable ==
    process = "up" /\ indexed /\ version \notin failed /\ ~AtWork(version) =>
        hashes = Padded(source) /\ vectors = Padded(source)

\* A path without an indexed note has no vectors, whatever model work outlived it;
\* but for a note the rebuild could not index.
RemovedNotesAreNotFound ==
    process = "up" /\ ~indexed /\ ~kept => hashes = NoTexts /\ vectors = NoTexts

\* What a search can tell of the note.
Mode ==
    IF process /= "up" THEN "stopped"
    ELSE IF ~indexed THEN IF kept THEN "left" ELSE "absent"
    ELSE IF version \in failed THEN "failed"
    ELSE IF AtWork(version) THEN "at work" ELSE "searchable"

Findable == IF process = "up" /\ indexed THEN source ELSE NoSource

Promised == INSTANCE SearchableNote WITH mode <- Mode, source <- Findable

\* Versions, queues, hashes and the rebuild's pass together keep what SearchableNote
\* promises: an obsolete job writes no vector, whenever its model call returns.
ImplementsSearchableNote == Promised!Spec

\* When the writes stop, the model work comes to an end: a failed job never keeps
\* the path's later ones from running.
ModelWorkEnds == <>[](queue = << >> /\ pass = << >>)
=============================================================================
