--------------------------- MODULE SearchableNote ---------------------------
(* What the embedding of one note promises those who search                     *)
(* (search/search-index.ts 1776-1911, 2163-2183), with no version, job or hash   *)
(* in sight.  Vectors move towards the content that is indexed and towards no    *)
(* other, chunk by chunk; once they are all there they stay until the note is    *)
(* written again; and a note that is gone has none.                             *)
CONSTANTS Contents, Indices, NoSource, NoText

VARIABLES
    mode,       \* "stopped", "absent", "left", "at work", "failed" or "searchable"
    source,     \* content a search may find, or NoSource
    vectors     \* index -> text the vector was computed from, or NoText

vars == <<mode, source, vectors>>

NoVectors == [i \in Indices |-> NoText]
WholeSource == [i \in Indices |-> IF i \in DOMAIN source THEN source[i] ELSE NoText]

\* One more chunk of the source has its vector.
OneMore == {[vectors EXCEPT ![i] = source[i]] : i \in DOMAIN source}

Init ==
    /\ mode = "stopped"
    /\ source = NoSource
    /\ vectors = NoVectors

\* A save, or the rebuild: older vectors stay until the new ones replace them.
Index(content) ==
    /\ mode' = "at work" /\ source' = content
    /\ UNCHANGED vectors

\* A removal, or a rebuild that does not find the note.
Vanish ==
    /\ mode' = "absent" /\ source' = NoSource
    /\ vectors' = NoVectors

\* A rebuild that can read the note but not index it leaves what it finds.
Leave ==
    /\ mode = "stopped" /\ mode' = "left"
    /\ UNCHANGED <<source, vectors>>

Embed ==
    /\ mode = "at work"
    /\ vectors' \in OneMore
    /\ UNCHANGED <<mode, source>>

\* A model call failed: the vectors stay as they are until the note is written again.
Fail ==
    /\ mode = "at work" /\ mode' = "failed"
    /\ UNCHANGED <<source, vectors>>

Finish ==
    /\ mode = "at work" /\ mode' = "searchable"
    /\ vectors' = WholeSource
    /\ UNCHANGED source

\* The server goes down, perhaps as a chunk is stored.
Stop ==
    /\ mode' = "stopped" /\ source' = NoSource
    /\ \/ UNCHANGED vectors
       \/ mode = "at work" /\ vectors' \in OneMore

Next ==
    \/ \E content \in Contents : Index(content)
    \/ Vanish \/ Leave \/ Embed \/ Fail \/ Finish \/ Stop

Spec == Init /\ [][Next]_vars
=============================================================================
