---------------------------- MODULE HybridSearch ----------------------------
(* vault_search's hybrid query (search/hybrid-search.ts, with buildNoteFilterSql *)
(* and fullTextSearch of search/search-queries.ts): full-text legs, then, when   *)
(* the query's embedding arrives, nearest-neighbour legs, fused by rank and      *)
(* reranked by a cross-encoder.  The file watcher changes the index between the  *)
(* legs.                                                                         *)
(*                                                                              *)
(* One query, whose words and filters the index rows are seen through: what      *)
(* full-text search makes of a note (`terms`, greater is better, 0 is no match), *)
(* how near each of its chunks is (`chunks`, in order, likewise; none before it  *)
(* is embedded), and whether it passes the filters.  Of a file the filters can   *)
(* only see the folder.                                                          *)
EXTENDS Ranking

CONSTANTS
    Notes, Files,
    Order,          \* every path, in the order that breaks ties
    NoteRows,       \* states of a note's row: [terms, chunks, passes]
    FileRows,       \* states of a file's row: [terms, chunks, passes]
    Limits,         \* limits a caller asks for
    MaxChanges      \* bound on index changes while a query runs

VARIABLES
    rows,       \* path -> its index row, or Gone
    changes,
    query,      \* [stage, limit, filters]; filters is "none", "folder" or "note"
    fts,        \* the full-text legs' paths, [notes, files], best first
    hits,       \* the nearest-neighbour legs' paths, likewise
    merged,     \* the fused candidates
    results,
    seen        \* history: the rows as the legs read them, [fts, hits]

vars == <<rows, changes, query, fts, hits, merged, results, seen>>

Paths == Notes \union Files
Gone == [terms |-> 0, chunks |-> <<>>, passes |-> FALSE]
NoneRead == [p \in Paths |-> Gone]
PathBefore(a, b) == PlaceIn(Order, a) < PlaceIn(Order, b)
NoLeg == [notes |-> <<>>, files |-> <<>>]

Init ==
    /\ rows \in {r \in [Paths -> NoteRows \union FileRows \union {Gone}] :
                    /\ \A n \in Notes : r[n] \in NoteRows \union {Gone}
                    /\ \A f \in Files : r[f] \in FileRows \union {Gone}}
    /\ changes = 0
    /\ query \in [stage : {"called"}, limit : Limits, filters : {"none", "folder", "note"}]
    /\ fts = NoLeg /\ hits = NoLeg
    /\ merged = <<>> /\ results = <<>>
    /\ seen = [fts |-> NoneRead, hits |-> NoneRead]

Min2(a, b) == IF a < b THEN a ELSE b
Capped(paths, limit) == SubSeq(paths, 1, Min2(limit, Len(paths)))

\* Each leg's candidates, so that fusion has corroboration to work with.
CandidateLimit == Min2(IF query.limit = 0 THEN 1 ELSE 3 * query.limit, 100)

\* The filters' conditions, which every leg's SQL applies.
Allowed(row) == row /= Gone /\ (query.filters = "none" \/ row.passes)
Passing(paths) == {p \in paths : Allowed(rows[p])}

\* Note rows that pass and have the leg's score, the best first, ties by path.
Best(paths, score) ==
    SetToSortSeq({p \in paths : score[p] > 0},
                 LAMBDA a, b : score[a] > score[b] \/ (score[a] = score[b] /\ PathBefore(a, b)))

Terms == [p \in Paths |-> rows[p].terms]

\* The vector tables hold a row for every chunk: a path and a chunk's place in it.
ChunkRows(paths, table) ==
    UNION {{<<p, i>> : i \in DOMAIN table[p].chunks} : p \in paths}
ChunksKnn(paths) == ChunkRows(Passing(paths), rows)
Near(chunk, table) == table[chunk[1]].chunks[chunk[2]]

\* ORDER BY distance, path, chunk_index.
ChunkBefore(c, d) ==
    \/ Near(c, rows) > Near(d, rows)
    \/ /\ Near(c, rows) = Near(d, rows)
       /\ PathBefore(c[1], d[1]) \/ (c[1] = d[1] /\ c[2] < d[2])

\* The k nearest rows, k twice the limit; which of equally near ones are the last
\* of them is the scan's choice.
Picks(chunks) ==
    LET k == 2 * CandidateLimit
        sure == {c \in chunks : Cardinality({d \in chunks : Near(d, rows) >= Near(c, rows)}) <= k}
        tied == {c \in chunks \ sure : Cardinality({d \in chunks : Near(d, rows) > Near(c, rows)}) < k}
    IN {sure \union some : some \in kSubset(Min2(k - Cardinality(sure), Cardinality(tied)), tied)}

\* The limit cuts chunk rows; what is left is each path's closest chunk, in order.
Closest(picked) ==
    LET first == {c \in picked :
                    Cardinality({d \in picked : ChunkBefore(d, c)}) < CandidateLimit}
    IN SetToSortSeq({c[1] : c \in first}, LAMBDA a, b :
           \E c \in first : c[1] = a /\ \A d \in first : d[1] = b => ChunkBefore(c, d))

\* A filter that only notes can pass skips the file legs.
FilesSearched == query.filters /= "note"

-----------------------------------------------------------------------------

Matching(leg) == ToSet(leg.notes) \union ToSet(leg.files)

\* hybridSearch up to its first await: the full-text legs.
ReadFullText ==
    /\ query.stage = "called"
    /\ fts' = [notes |-> Capped(Best(Passing(Notes), Terms), CandidateLimit),
               files |-> IF FilesSearched
                         THEN Capped(Best(Passing(Files), Terms), CandidateLimit) ELSE <<>>]
    /\ seen' = [seen EXCEPT !.fts = rows]
    /\ query' = [query EXCEPT !.stage = "embedding"]
    /\ UNCHANGED <<rows, changes, hits, merged, results>>

\* The four legs as fusion takes them.
Legs(knn) ==
    <<Leg(fts.notes, FullWeight), Leg(knn.notes, FullWeight),
      Leg(fts.files, FileWeight), Leg(knn.files, FileWeight)>>

\* A path found by its vector alone is looked up in the same step, so its row is
\* still there; one the full-text legs found comes with their metadata.
Merge(knn) == Fused(Legs(knn), Order)

Finish(answer) ==
    /\ results' = answer
    /\ query' = [query EXCEPT !.stage = "answered"]

\* No embedding, or no vectors: the full-text legs alone, with no reranking.
FallBack ==
    /\ query.stage = "embedding"
    /\ merged' = IF fts.files = <<>> THEN fts.notes ELSE Merge(NoLeg)
    /\ Finish(Capped(merged', query.limit))
    /\ UNCHANGED <<rows, changes, fts, hits, seen>>

\* The embedding arrives: the nearest-neighbour legs and the fusion.
ReadNearest ==
    /\ query.stage = "embedding"
    /\ \E picked \in Picks(ChunksKnn(Notes)),
          pickedOfFiles \in Picks(IF FilesSearched THEN ChunksKnn(Files) ELSE {}) :
          hits' = [notes |-> Closest(picked), files |-> Closest(pickedOfFiles)]
    /\ Matching(hits') /= {}
    /\ seen' = [seen EXCEPT !.hits = rows]
    /\ merged' = Merge(hits')
    /\ query' = [query EXCEPT !.stage = "reranking"]
    /\ UNCHANGED <<rows, changes, fts, results>>

\* Results beyond the limit are not worth a pass of the cross-encoder.
RerankCandidates == Capped(merged, query.limit)

\* The cross-encoder's scores arrive, and the blend orders the candidates.
Rerank(scores) ==
    LET fused == [i \in DOMAIN RerankCandidates |->
                      FusedScore(Legs(hits), RerankCandidates[i])]
        blended == Blended(fused, scores)
        order == SetToSortSeq(DOMAIN RerankCandidates,
                     LAMBDA i, j : blended[i] > blended[j]
                                   \/ (blended[i] = blended[j]
                                       /\ PathBefore(RerankCandidates[i], RerankCandidates[j])))
    IN [i \in DOMAIN order |-> RerankCandidates[order[i]]]

Reranked ==
    /\ query.stage = "reranking"
    /\ Len(RerankCandidates) > 1
    /\ \E scores \in [DOMAIN RerankCandidates -> {0, 1, 2}] :
            Finish(Capped(Rerank(scores), query.limit))
    /\ UNCHANGED <<rows, changes, fts, hits, merged, seen>>

\* There is no reranker, nothing to order, or it fails: the fused order stands.
NotReranked ==
    /\ query.stage = "reranking"
    /\ Finish(Capped(RerankCandidates, query.limit))
    /\ UNCHANGED <<rows, changes, fts, hits, merged, seen>>

\* The watcher writes, embeds or removes a note or a file meanwhile.
IndexChanges(path) ==
    /\ query.stage \in {"embedding", "reranking"} /\ changes < MaxChanges
    /\ \E row \in (IF path \in Notes THEN NoteRows ELSE FileRows) \union {Gone} :
            row /= rows[path] /\ rows' = [rows EXCEPT ![path] = row]
    /\ changes' = changes + 1
    /\ UNCHANGED <<query, fts, hits, merged, results, seen>>

Next ==
    \/ ReadFullText \/ FallBack \/ ReadNearest \/ Reranked \/ NotReranked
    \/ \E p \in Paths : IndexChanges(p)

Spec == Init /\ [][Next]_vars

-----------------------------------------------------------------------------
(* Properties                                                                   *)

Answered == query.stage = "answered"
Returned == ToSet(results)

\* The paths whose vector a leg could read, and those of them that were crowded
\* out: as many chunk rows as the leg takes, of notes that pass or of files, are at
\* least as near as the path's closest one.  They may all be of one long note.
Searched == Notes \union IF FilesSearched THEN Files ELSE {}
Alike(path) == {p \in (IF path \in Notes THEN Notes ELSE Files) : Allowed(seen.hits[p])}
CrowdedOut(path) ==
    \E closest \in ChunkRows({path}, seen.hits) :
        /\ \A c \in ChunkRows({path}, seen.hits) : Near(c, seen.hits) <= Near(closest, seen.hits)
        /\ Cardinality({c \in ChunkRows(Alike(path) \ {path}, seen.hits) :
                Near(c, seen.hits) >= Near(closest, seen.hits)}) >= CandidateLimit

\* Every result passed the filters when a leg read it and matched there, a note
\* filter returns no file, and no path comes twice.  An answer shorter than its
\* limit has every match by words, and every match by vector that was not crowded
\* out: the vector legs' limit is on chunks, so such an answer may lack a match.
AnswersAreTheMatches ==
    Answered =>
        /\ \A p \in Returned :
              \/ Allowed(seen.fts[p]) /\ seen.fts[p].terms > 0
              \/ Allowed(seen.hits[p]) /\ seen.hits[p].chunks /= <<>>
        /\ query.filters = "note" => Returned \cap Files = {}
        /\ Cardinality(Returned) = Len(results)
        /\ Len(results) <= query.limit
        /\ Len(results) < query.limit =>
              \A p \in Searched :
                 /\ Allowed(seen.fts[p]) /\ seen.fts[p].terms > 0 => p \in Returned
                 /\ Allowed(seen.hits[p]) /\ seen.hits[p].chunks /= <<>>
                       => p \in Returned \/ CrowdedOut(p)

\* What comes before what in a leg; whatever is in the leg comes before the rest.
AheadIn(leg, a, b) ==
    LET items == ToSet(leg.items)
    IN a \in items /\ (b \in items => RankIn(leg, a) < RankIn(leg, b))

NotBehindIn(leg, a, b) == b \in ToSet(leg.items) => AheadIn(leg, a, b)

\* Fusion agrees with its legs where they agree: a note that no leg puts behind
\* another, and some leg puts ahead of it, comes first; reranking only reorders
\* the first results of that order.
FusionKeepsAgreement ==
    query.stage \in {"reranking", "answered"} =>
        /\ \A i, j \in DOMAIN merged :
              (/\ \A k \in 1 .. 4 : NotBehindIn(Legs(hits)[k], merged[i], merged[j])
               /\ \E k \in 1 .. 4 : AheadIn(Legs(hits)[k], merged[i], merged[j])
               /\ merged[i] \in Notes) => i <= j
        /\ Answered => Returned = ToSet(Capped(merged, query.limit))
=============================================================================
