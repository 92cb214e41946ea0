---------------------------- MODULE MemoryRecall ----------------------------
(* The entry index behind vault_memory_recall (upsertMemoryEntries and          *)
(* embedMemoryEntriesForFile of search/search-index.ts) and the recall over it  *)
(* (memoryRecall of search/search-queries.ts).                                  *)
(*                                                                              *)
(* One recall, whose query the entries are seen through: an entry stands for    *)
(* its section, date and text, its content hash, and what the query makes of it:*)
(* `words`, whether it holds all of the query's terms, some, or none, and       *)
(* `distance`, from the query's embedding, in hundredths.  An action is a turn  *)
(* of the event loop; the index changes while the recall awaits a model.        *)
EXTENDS Ranking

CONSTANTS
    Files,          \* memory files, numbers in the order of their names
    Contents,       \* what a file may hold: sequences of entries
    Gone,           \* no such file
    AnyFile,        \* a recall over every file
    Limits,         \* limits a caller asks for
    Scores,         \* relevance by the cross-encoder, in ten-thousandths
    VectorLimit,    \* MEMORY_VECTOR_CANDIDATE_LIMIT
    RerankLimit,    \* MEMORY_RERANK_CANDIDATE_LIMIT
    MaxChanges      \* bound on changes of the memory files

\* Files are numbered, each holds a sequence of entries.
RecallParameters ==
    /\ Files \subseteq Nat /\ IsFiniteSet(Files)
    /\ \A c \in Contents : c \in Seq(ToSet(c))
    /\ Gone \notin Contents

VARIABLES
    files,      \* file -> the entries the watcher last read from it
    rows,       \* memory_entries: set of [id, file, entry, index]
    nextId,     \* of the AUTOINCREMENT
    vectors,    \* memory_entry_vectors: set of [id, entry], of the entry embedded
    versions,   \* file -> its source version, 0 for none
    jobs,       \* embed jobs, in order: [file, version, stage, todo]
    changes,
    recall,     \* [stage, file, limit]
    candidates, \* what fusion keeps: set of [row, lexical, fused, distance]
    found,      \* the entries recalled
    mode,       \* "none", "fts" or "hybrid": search_mode
    atCall,     \* history: rows as the recall was made
    kept        \* history: rows there from the call to the reads

indexVars == <<files, rows, nextId, vectors, versions, jobs, changes>>
recallVars == <<recall, candidates, found, mode, atCall, kept>>
vars == <<indexVars, recallVars>>

Min2(a, b) == IF a < b THEN a ELSE b
Max2(a, b) == IF a > b THEN a ELSE b
Of(file, table) == {r \in table : r.file = file}

-----------------------------------------------------------------------------
(* The index                                                                    *)

\* The how-manieth copy of its text the i-th entry is: the queue per hash.
CopyNumber(entries, i) == Cardinality({j \in 1 .. i : entries[j] = entries[i]})

\* The rows in the order of their places.
ByIndex(table) ==
    CHOOSE s \in [1 .. Cardinality(table) -> table] :
        \A i, j \in DOMAIN s : i < j => s[i].index < s[j].index

\* The stored row the i-th entry claims, if there is one: {id} or {}.
Claimed(file, entries, i) ==
    LET copies == ByIndex({r \in Of(file, rows) : r.entry = entries[i]})
        n == CopyNumber(entries, i)
    IN IF n <= Len(copies) THEN {copies[n].id} ELSE {}

\* A claimed row keeps its id and takes the entry's place; the rest are new rows.
Fresh(file, entries) == {i \in DOMAIN entries : Claimed(file, entries, i) = {}}
IdOf(file, entries, i) ==
    IF i \in Fresh(file, entries)
    THEN nextId + Cardinality({j \in Fresh(file, entries) : j < i})
    ELSE CHOOSE id \in Claimed(file, entries, i) : TRUE
Reconciled(file, entries) ==
    {[id |-> IdOf(file, entries, i), file |-> file, entry |-> entries[i], index |-> i]
        : i \in DOMAIN entries}

\* upsertNote's memory step, and the job the watcher queues.
Upsert(file, entries) ==
    LET table == Reconciled(file, entries)
        stale == {r.id : r \in Of(file, rows)} \ {r.id : r \in table}
    IN /\ changes < MaxChanges /\ entries /= files[file]
       /\ files' = [files EXCEPT ![file] = entries]
       /\ rows' = (rows \ Of(file, rows)) \union table
       /\ nextId' = nextId + Cardinality(Fresh(file, entries))
       /\ vectors' = {v \in vectors : v.id \notin stale}
       /\ versions' = [versions EXCEPT ![file] = changes + 1]
       /\ jobs' = Append(jobs, [file |-> file, version |-> changes + 1,
                                stage |-> "queued", todo |-> {}])
       /\ changes' = changes + 1
       /\ UNCHANGED recallVars

\* removeMemoryEntriesForFile, on removeNote.
RemoveFile(file) ==
    /\ changes < MaxChanges /\ files[file] /= Gone
    /\ files' = [files EXCEPT ![file] = Gone]
    /\ rows' = rows \ Of(file, rows)
    /\ vectors' = {v \in vectors : v.id \notin {r.id : r \in Of(file, rows)}}
    /\ versions' = [versions EXCEPT ![file] = 0]
    /\ changes' = changes + 1
    /\ UNCHANGED <<nextId, jobs, recallVars>>

Current(job) == versions[job.file] = job.version
Embedded == {v.id : v \in vectors}
WithJob(i, job) == [jobs EXCEPT ![i] = job]
Earlier(i) == {k \in 1 .. (i - 1) : jobs[k].file = jobs[i].file}

\* A file's jobs run one after another: to the model with the rows that have no
\* vector, or to the end when the source moved on or nothing is missing.
EmbedStarts(i) ==
    LET missing == {r \in Of(jobs[i].file, rows) : r.id \notin Embedded}
    IN /\ jobs[i].stage = "queued" /\ Earlier(i) = {}
       /\ jobs' = IF Current(jobs[i]) /\ missing /= {}
                  THEN WithJob(i, [jobs[i] EXCEPT !.stage = "model", !.todo = missing])
                  ELSE RemoveAt(jobs, i)
       /\ UNCHANGED <<files, rows, nextId, vectors, versions, changes, recallVars>>

\* The model answers for a batch: its vectors in one transaction, unless the
\* source moved on; then the next batch, of rows read at the start.
EmbedAnswers(i) ==
    LET lowest == CHOOSE r \in jobs[i].todo : \A s \in jobs[i].todo : r.id <= s.id
        rest == jobs[i].todo \ {lowest}
    IN /\ jobs[i].stage = "model"
       /\ vectors' = IF Current(jobs[i])
                     THEN vectors \union {[id |-> lowest.id, entry |-> lowest.entry]}
                     ELSE vectors
       /\ jobs' = IF Current(jobs[i]) /\ rest /= {}
                  THEN WithJob(i, [jobs[i] EXCEPT !.todo = rest])
                  ELSE RemoveAt(jobs, i)
       /\ UNCHANGED <<files, rows, nextId, versions, changes, recallVars>>

-----------------------------------------------------------------------------
(* The recall                                                                   *)

Idle == [stage |-> "idle", file |-> AnyFile, limit |-> 1]

\* The index is read after the call, so changes before it add nothing: a bound.
Call ==
    /\ recall.stage = "idle" /\ changes = 0
    /\ \E file \in Files \union {AnyFile}, limit \in Limits :
          recall' = [stage |-> "embedding", file |-> file, limit |-> Max2(1, limit)]
    /\ atCall' = rows
    /\ UNCHANGED <<indexVars, candidates, found, mode, kept>>

\* Mutant: the lexical leg is read before the embedding is awaited.
RowsAtCall == atCall

\* The rows the lexical leg reads: the index of the turn it runs in.
LexicalTable == rows

Asked(table) == IF recall.file = AnyFile THEN table ELSE Of(recall.file, table)
Before(r, s) == r.file < s.file \/ (r.file = s.file /\ r.index < s.index)

\* bm25 order, ties by file and position; an entry with every term ranks first.
Lexical(table) ==
    SetToSortSeq(table, LAMBDA r, s :
        \/ r.entry.words = "all" /\ s.entry.words /= "all"
        \/ (r.entry.words = "all") = (s.entry.words = "all") /\ Before(r, s))
AllTerms(table) == Lexical({r \in Asked(table) : r.entry.words = "all"})
AnyTerm(table) == Lexical({r \in Asked(table) : r.entry.words /= "none"})

\* The nearest rows that have a vector, of the file asked for.
Nearest ==
    LET near == SetToSortSeq({r \in Asked(rows) : r.id \in Embedded},
                    LAMBDA r, s : \/ r.entry.distance < s.entry.distance
                                  \/ r.entry.distance = s.entry.distance /\ Before(r, s))
    IN SubSeq(near, 1, Min2(VectorLimit, Len(near)))

\* A fusion key is the entry's place, which a rebuild keeps: file and position.
Key(row) == [file |-> row.file, index |-> row.index]
Keys(leg) == [i \in DOMAIN leg |-> Key(leg[i])]

\* A key's row, the vector leg's when both have one.
RowOf(key, lexical, nearest) ==
    LET leg == IF \E i \in DOMAIN nearest : Key(nearest[i]) = key THEN nearest ELSE lexical
    IN leg[CHOOSE i \in DOMAIN leg : Key(leg[i]) = key]

\* Past the window only candidates found by their vector alone are dropped.
InWindow(ordered, lexical, i) == ordered[i] \in lexical \/ i <= RerankLimit

Candidates(lexical, nearest) ==
    LET legs == <<Leg(Keys(lexical), FullWeight), Leg(Keys(nearest), FullWeight)>>
        ordered == Fused(legs, SetToSortSeq(Found(legs), Before))
        anchors == ToSet(Keys(lexical))
        near == ToSet(Keys(nearest))
    IN {[row |-> RowOf(ordered[i], lexical, nearest),
         lexical |-> ordered[i] \in anchors,
         fused |-> FusedScore(legs, ordered[i]),
         near |-> ordered[i] \in near]
            : i \in {k \in DOMAIN ordered : InWindow(ordered, anchors, k)}}

Answer(entries, searchMode) ==
    /\ found' = entries
    /\ mode' = searchMode
    /\ recall' = [recall EXCEPT !.stage = "answered"]

\* Up to the limit, of what comes best first.
FirstOf(leg) == ToSet(SubSeq(leg, 1, Min2(recall.limit, Len(leg))))

Observe == kept' = atCall \intersect rows

\* No embedding, or no vectors: every lexical match, else any term's.
FallBack ==
    LET all == AllTerms(LexicalTable)
    IN /\ recall.stage = "embedding"
       /\ Answer(FirstOf(IF all = <<>> THEN AnyTerm(rows) ELSE all), "fts")
       /\ Observe
       /\ UNCHANGED <<indexVars, candidates, atCall>>

\* The embedding arrives: both legs are read in one turn, and fused.
Read ==
    /\ recall.stage = "embedding" /\ Nearest /= <<>>
    /\ candidates' = Candidates(AllTerms(LexicalTable), Nearest)
    /\ recall' = [recall EXCEPT !.stage = "reranking"]
    /\ Observe
    /\ UNCHANGED <<indexVars, found, mode, atCall>>

\* A tenth of the best score without a lexical hit, clamped.
Floor(score) ==
    LET scores == {score[c] : c \in {d \in candidates : ~d.lexical}}
        best == IF scores = {} THEN 500 ELSE Max(scores)
    IN Min2(500, Max2(10, best \div 10))

\* buildMemoryRecallResult: the most relevant up to the limit, ties as they came.
Relevant(survivors, score) ==
    FirstOf(SetToSortSeq(survivors,
        LAMBDA c, d : score[c] > score[d] \/ (score[c] = score[d]
                          /\ (c.fused > d.fused \/ (c.fused = d.fused /\ Before(c.row, d.row))))))

\* A lexical hit always survives the cut.
Survives(c, score) == c.lexical \/ score[c] >= Floor(score)

\* The cross-encoder answers; with nothing left, any term is better than nothing.
Reranked ==
    /\ recall.stage = "reranking"
    /\ \E score \in [candidates -> Scores] :
          LET survivors == {c \in candidates : Survives(c, score)}
              rescue == AnyTerm(rows)
          IN IF survivors = {} /\ rescue /= <<>>
             THEN Answer(FirstOf(rescue), "fts")
             ELSE Answer({c.row : c \in Relevant(survivors, score)}, "hybrid")
    /\ UNCHANGED <<indexVars, candidates, atCall, kept>>

\* No reranker, or it fails: what is within 0.15 of the nearest.
NotReranked ==
    LET near == {c \in candidates : c.near}
        least == Min({c.row.entry.distance : c \in near})
        score == [c \in candidates |-> c.fused]
    IN /\ recall.stage = "reranking"
       /\ Answer({c.row : c \in Relevant({c \in candidates :
                     c.lexical \/ (c.near /\ c.row.entry.distance <= least + 15)}, score)},
                 "hybrid")
       /\ UNCHANGED <<indexVars, candidates, atCall, kept>>

-----------------------------------------------------------------------------

\* The index after a rebuild whose embeddings are done: ids in the order of files
\* and of the entries in them.
EntryPlaces ==
    UNION {[file : {f}, index : DOMAIN files[f]] : f \in {g \in Files : files[g] /= Gone}}
Init ==
    /\ files \in [Files -> Contents \union {Gone}]
    /\ rows = {[id |-> Cardinality({q \in EntryPlaces : Before(q, p)}) + 1, file |-> p.file,
                index |-> p.index, entry |-> files[p.file][p.index]] : p \in EntryPlaces}
    /\ nextId = Cardinality(EntryPlaces) + 1
    /\ vectors = {[id |-> r.id, entry |-> r.entry] : r \in rows}
    /\ versions = [f \in Files |-> 0]
    /\ jobs = <<>> /\ changes = 0
    /\ recall = Idle /\ candidates = {} /\ found = {} /\ mode = "none"
    /\ atCall = {} /\ kept = {}

\* A behaviour ends with the answer to its recall: bounds the runs.
Next ==
    /\ recall.stage /= "answered"
    /\ \/ \E f \in Files : \E entries \in Contents : Upsert(f, entries)
       \/ \E f \in Files : RemoveFile(f)
       \/ \E i \in DOMAIN jobs : EmbedStarts(i) \/ EmbedAnswers(i)
       \/ Call \/ FallBack \/ Read \/ Reranked \/ NotReranked

Spec == Init /\ [][Next]_vars

-----------------------------------------------------------------------------
(* Properties                                                                   *)

\* Every file's rows are its entries in order, a copy's row its own; a vector is
\* of a row and of what that row says; and a row without one has a job to embed it.
EntriesMatchTheFiles ==
    /\ \A f \in Files :
          LET table == ByIndex(Of(f, rows))
          IN [i \in DOMAIN table |-> table[i].entry] = (IF files[f] = Gone THEN <<>> ELSE files[f])
    /\ \A r, s \in rows : r.id = s.id => r = s
    /\ \A v \in vectors : \E r \in rows : r.id = v.id /\ r.entry = v.entry
    /\ \A r \in rows : r.id \in Embedded \/ \E i \in DOMAIN jobs : Current(jobs[i]) /\ jobs[i].file = r.file

\* An entry is recalled once and only from the file asked for; one with all the
\* terms, there throughout, is left out only for the limit; and a recall comes
\* back empty only if no entry there throughout holds any term.
RecallsAreComplete ==
    recall.stage = "answered" =>
        /\ \A r, s \in found : r.id = s.id => r = s
        /\ found = Asked(found)
        /\ Cardinality(found) <= recall.limit
        /\ Cardinality(found) < recall.limit =>
              \A r \in Asked(kept) : r.entry.words = "all" => r \in found
        /\ found = {} => ~ \E r \in Asked(kept) : r \in rows /\ r.entry.words /= "none"
=============================================================================
